--------------------------- MODULE AuthFlowProofs ---------------------------
(***************************************************************************)
(* The safety of the login flow, for any number of submissions.  What the  *)
(* invariants of AuthFlow need beside each other is where the callback is  *)
(* before its first prompt (StartsAtPhone) and once Telegram has granted   *)
(* the session (GrantedFlow).                                              *)
(***************************************************************************)
EXTENDS AuthFlow, TLAPS

\* Past runAuth the session is granted.
GrantedFlow == pc \in {"granted", "self", "warm", "updates"} => granted

\* The first prompt of runAuth is the phone prompt.
StartsAtPhone == pc \in {"boot", "status"} => stage = "phone"

\* The safety invariants of the flow, which are inductive together.
Inv ==
    /\ TypeOK
    /\ GrantedFlow
    /\ StartsAtPhone
    /\ AuthorizedIsGranted
    /\ UsedOnce
    /\ CodePromptHasLiveHash

\* The callback's own invariants, without the account of submissions.
FlowInv ==
    /\ GrantedFlow /\ StartsAtPhone
    /\ AuthorizedIsGranted /\ CodePromptHasLiveHash

-----------------------------------------------------------------------------
\* What a prompt publishes is one of the states of the flow.
LEMMA NeedType == \A k \in Kinds : Need[k] \in {"need_phone", "need_code", "need_password"}
BY DEF Kinds, Need

\* The flow starts before any prompt, with nothing accepted.
LEMMA InitInv == Init => Inv
<1> SUFFICES ASSUME Init
             PROVE  Inv
    OBVIOUS
<1>1. TypeOK
    <2>1. stage \in Kinds
        BY DEF Init, Kinds
    <2>2. accepted \in [Kinds -> 0..MAX_SUBMIT] /\ calls \in [Kinds -> Nat]
        BY AuthAssumption DEF Init
    <2>3. QED
        BY <2>1, <2>2 DEF Init, TypeOK
<1>2. UsedOnce
    BY DEF Init, UsedOnce, InCall, InChannel
<1>3. QED
    BY <1>1, <1>2 DEF Init, Inv, GrantedFlow, StartsAtPhone, AuthorizedIsGranted,
                      CodePromptHasLiveHash

\* Every step keeps the variables in their types.
LEMMA TypeStep == TypeOK /\ [Next]_vars => TypeOK'
<1> SUFFICES ASSUME TypeOK, [Next]_vars
             PROVE  TypeOK'
    OBVIOUS
<1> USE AuthAssumption, NeedType DEF TypeOK, setState, published, server
<1>1. ASSUME NEW k \in Kinds, Called(k)
      PROVE  calls' \in [Kinds -> Nat]
    BY <1>1 DEF Called
<1>2. ASSUME Fail, calls' \in [Kinds -> Nat]
      PROVE  TypeOK'
    BY <1>2 DEF Fail
<1>3. ASSUME NEW k \in Kinds, OnTo(k), calls' \in [Kinds -> Nat], hashLive' \in BOOLEAN
      PROVE  TypeOK'
    BY <1>3 DEF OnTo
<1>4. ASSUME NEW k \in Kinds, calls' \in [Kinds -> Nat], hashLive' \in BOOLEAN,
             NEW err \in recoverablePhoneErrs \cup {RetryErrs.code, RetryErrs.password},
             BackTo(k, err)
      PROVE  TypeOK'
    BY <1>4 DEF BackTo
<1>5. ASSUME SignedIn, calls' \in [Kinds -> Nat]
      PROVE  TypeOK'
    BY <1>5 DEF SignedIn
<1>6. CASE Boot
    BY <1>6 DEF Boot
<1>7. CASE Status \/ GiveUp
    BY <1>7, <1>2 DEF Status, GiveUp
<1>8. CASE Ask \/ Take
    BY <1>8 DEF Ask, Take
<1>9. CASE SendCode
    BY <1>1, <1>2, <1>3, <1>4, <1>9 DEF SendCode, Kinds
<1>10. CASE SignIn
    BY <1>1, <1>2, <1>3, <1>4, <1>5, <1>10 DEF SignIn, Kinds
<1>11. CASE Password
    BY <1>1, <1>2, <1>4, <1>5, <1>11 DEF Password, Kinds
<1>12. CASE Authorize \/ Self \/ Warm \/ UpdatesEnd \/ Cancel
    <2>1. CASE Authorize
        BY <2>1 DEF Authorize
    <2>2. CASE Self
        BY <2>2 DEF Self
    <2>3. CASE Warm
        BY <2>3 DEF Warm
    <2>4. CASE UpdatesEnd
        BY <2>4 DEF UpdatesEnd
    <2>5. CASE Cancel
        BY <2>5 DEF Cancel
    <2>6. QED
        BY <1>12, <2>1, <2>2, <2>3, <2>4, <2>5
<1>13. ASSUME NEW k \in Kinds, Submit(k)
      PROVE  TypeOK'
    BY <1>13 DEF Submit
<1>14. CASE UNCHANGED vars
    BY <1>14 DEF vars
<1>15. QED
    BY <1>6, <1>7, <1>8, <1>9, <1>10, <1>11, <1>12, <1>13, <1>14 DEF Next, Callback

\* No step of the callback, and none around it, breaks what the status says.
LEMMA FlowStep == TypeOK /\ FlowInv /\ [Next]_vars => FlowInv'
<1> SUFFICES ASSUME TypeOK, FlowInv, [Next]_vars
             PROVE  FlowInv'
    OBVIOUS
<1> USE DEF FlowInv, GrantedFlow, StartsAtPhone, AuthorizedIsGranted, CodePromptHasLiveHash,
            TypeOK, setState, published, server
<1>1. ASSUME Fail
      PROVE  FlowInv'
    BY <1>1 DEF Fail
<1>2. ASSUME SignedIn
      PROVE  FlowInv'
    BY <1>2 DEF SignedIn
<1>3. ASSUME NEW k \in Kinds, NEW err, BackTo(k, err), k = "code" => hashLive'
      PROVE  FlowInv'
    <2>1. Need[k] # "authorized"
        BY NeedType
    <2>2. QED
        BY <1>3, <2>1 DEF BackTo
<1>4. ASSUME NEW k \in Kinds, OnTo(k), k = "code" => hashLive'
      PROVE  FlowInv'
    BY <1>4 DEF OnTo
<1>5. CASE Boot \/ Status \/ GiveUp
    <2>1. CASE Boot
        BY <2>1 DEF Boot
    <2>2. CASE Status
        BY <1>1, <2>2 DEF Status
    <2>3. QED
        BY <1>1, <1>5, <2>1, <2>2 DEF GiveUp
<1>6. CASE Ask \/ Take
    BY <1>6, NeedType DEF Ask, Take
<1>7. CASE SendCode
    BY <1>1, <1>3, <1>4, <1>7 DEF SendCode, Kinds
<1>8. CASE SignIn
    <2>1. hashLive
        BY <1>8 DEF SignIn, Called
    <2>2. CASE BackTo("code", RetryErrs.code) /\ UNCHANGED hashLive
        BY <1>3, <2>1, <2>2 DEF Kinds
    <2>3. CASE OnTo("password")
        BY <1>4, <2>3 DEF Kinds
    <2>4. ASSUME NEW err \in recoverablePhoneErrs, BackTo("phone", err)
          PROVE  FlowInv'
        BY <1>3, <2>4 DEF Kinds
    <2>5. QED
        BY <1>1, <1>2, <1>8, <2>2, <2>3, <2>4 DEF SignIn
<1>9. CASE Password
    BY <1>1, <1>2, <1>3, <1>9 DEF Password, Kinds
<1>10. CASE Authorize \/ Self \/ Warm \/ UpdatesEnd \/ Cancel
    BY <1>10 DEF Authorize, Self, Warm, UpdatesEnd, Cancel
<1>11. ASSUME NEW k \in Kinds, Submit(k)
      PROVE  FlowInv'
    BY <1>11 DEF Submit
<1>12. CASE UNCHANGED vars
    BY <1>12 DEF vars
<1>13. QED
    BY <1>5, <1>6, <1>7, <1>8, <1>9, <1>10, <1>11, <1>12 DEF Next, Callback

\* A call to Telegram uses up the submission that was taken for it, and leaves
\* the callback outside of calls.
LEMMA CallStep ==
    ASSUME TypeOK, UsedOnce, NEW k \in Kinds, Called(k),
           pc' # "call", UNCHANGED <<ch, accepted>>
    PROVE  UsedOnce'
<1> SUFFICES ASSUME NEW j \in Kinds
             PROVE  accepted'[j] = calls'[j] + InCall(j)' + InChannel(j)'
    BY DEF UsedOnce
<1>1. InCall(j)' = 0 /\ InChannel(j)' = InChannel(j)
    BY DEF InCall, InChannel
<1>2. CASE j = k
    <2>1. InCall(j) = 1 /\ calls'[j] = calls[j] + 1
        BY <1>2 DEF Called, InCall, TypeOK
    <2>2. QED
        BY <1>1, <2>1 DEF UsedOnce, TypeOK, InChannel
<1>3. CASE j # k
    <2>1. InCall(j) = 0 /\ calls'[j] = calls[j]
        BY <1>3 DEF Called, InCall, TypeOK
    <2>2. QED
        BY <1>1, <2>1 DEF UsedOnce, TypeOK, InChannel
<1>4. QED
    BY <1>2, <1>3

\* Every step accounts for every accepted submission.
LEMMA UsedOnceStep == TypeOK /\ UsedOnce /\ [Next]_vars => UsedOnce'
<1> SUFFICES ASSUME TypeOK, UsedOnce, [Next]_vars
             PROVE  UsedOnce'
    OBVIOUS
<1>1. ASSUME pc # "call", pc' # "call", UNCHANGED <<ch, accepted, calls>>
      PROVE  UsedOnce'
    BY <1>1 DEF UsedOnce, InCall, InChannel
<1>2. CASE Boot \/ Status \/ Ask \/ GiveUp
    BY <1>1, <1>2 DEF Boot, Status, Ask, GiveUp, Fail
<1>3. CASE Take
    BY <1>3 DEF Take, UsedOnce, InCall, InChannel, TypeOK
<1>4. CASE SendCode
    BY <1>4, CallStep DEF SendCode, OnTo, BackTo, Fail, Called, Kinds
<1>5. CASE SignIn
    BY <1>5, CallStep DEF SignIn, OnTo, BackTo, SignedIn, Fail, Called, Kinds
<1>6. CASE Password
    BY <1>6, CallStep DEF Password, BackTo, SignedIn, Fail, Called, Kinds
<1>7. CASE Authorize \/ Self \/ Warm \/ UpdatesEnd
    BY <1>1, <1>7 DEF Authorize, Self, Warm, UpdatesEnd
<1>8. CASE Cancel \/ UNCHANGED vars
    BY <1>8 DEF Cancel, vars, UsedOnce, InCall, InChannel
<1>9. ASSUME NEW k \in Kinds, Submit(k)
      PROVE  UsedOnce'
    BY <1>9 DEF Submit, UsedOnce, InCall, InChannel, TypeOK
<1>10. QED
    BY <1>2, <1>3, <1>4, <1>5, <1>6, <1>7, <1>8, <1>9 DEF Next, Callback

-----------------------------------------------------------------------------
\* The flow keeps its types and all its safety invariants: what /v1/auth/status
\* says, what becomes of accepted submissions, and when a code is asked for.
THEOREM AuthInvariant == Spec => []Inv
<1>1. Inv /\ [Next]_vars => Inv'
    BY TypeStep, FlowStep, UsedOnceStep DEF Inv, FlowInv
<1>2. QED
    BY InitInv, <1>1, PTL DEF Spec

\* The state that Status and the prompts share keeps its types.
THEOREM AuthTypeOK == Spec => []TypeOK
BY AuthInvariant, PTL DEF Inv

\* Nobody is told "authorized", and self is not set, before Telegram agreed.
THEOREM AuthAuthorizedIsGranted == Spec => []AuthorizedIsGranted
BY AuthInvariant, PTL DEF Inv

\* Every accepted phone, code or password is used in one call at most, and none
\* is lost.
THEOREM AuthUsedOnce == Spec => []UsedOnce
BY AuthInvariant, PTL DEF Inv

\* A code is asked for only while the code hash it belongs to is alive.
THEOREM AuthCodePromptHasLiveHash == Spec => []CodePromptHasLiveHash
BY AuthInvariant, PTL DEF Inv

=============================================================================
