------------------------------ MODULE AuthFlow ------------------------------
(***************************************************************************)
(* The login flow (internal/bridge/auth.go) inside the callback of         *)
(* Bridge.Run (internal/bridge/bridge.go), fed by the POST /v1/auth        *)
(* handlers (internal/httpapi/auth.go).                                    *)
(*                                                                         *)
(* One goroutine runs the callback: it asks for a phone, a code and        *)
(* perhaps a password, and after each answer makes one call to Telegram,   *)
(* whose reply is any the RPC can give.  The handlers put answers into     *)
(* three channels of capacity one without ever blocking.                   *)
(***************************************************************************)
EXTENDS Integers

CONSTANT MAX_SUBMIT  \* bound on the submissions of each kind the handlers accept

ASSUME AuthAssumption == MAX_SUBMIT \in Nat

Kinds == {"phone", "code", "password"}
Need  == [phone |-> "need_phone", code |-> "need_code", password |-> "need_password"]

recoverablePhoneErrs ==
    {"PHONE_NUMBER_INVALID", "PHONE_NUMBER_BANNED", "PHONE_NUMBER_FLOOD",
     "PHONE_NUMBER_OCCUPIED", "PHONE_NUMBER_UNOCCUPIED", "PHONE_PASSWORD_FLOOD",
     "PHONE_CODE_EXPIRED", "PHONE_CODE_EMPTY", "AUTH_RESTART"}

\* Replies after which the code hash of the last SendCode is of no more use.
HashEnding == {"PHONE_CODE_EXPIRED", "AUTH_RESTART"}

RetryErrs == [code |-> "PHONE_CODE_INVALID", password |-> "PASSWORD_HASH_INVALID"]

VARIABLES
    pc,           \* where the callback is; "wait" is the select of a prompt
    stage,        \* the prompt the loops of runAuth are at
    state,        \* httpAuthenticator.state
    lastErr,      \* httpAuthenticator.lastErr
    ch,           \* contents of phoneCh, codeCh and passwdCh
    clientReady,  \* Bridge.clientReady
    self,         \* Bridge.self is set
    ctxDone,      \* the ctx of Run is cancelled
    granted,      \* Telegram: this session is authorized
    hashLive,     \* Telegram: no reply has ended the current code hash
    accepted,     \* history: submissions answered with "accepted"
    calls         \* history: SendCode, SignIn and Password calls made

published == <<state, lastErr>>
server    == <<granted, hashLive>>
vars      == <<pc, stage, published, ch, clientReady, self, ctxDone, server, accepted, calls>>

-----------------------------------------------------------------------------
Init ==
    /\ pc = "boot"
    /\ stage = "phone"
    /\ state = "idle" /\ lastErr = "nil"
    /\ ch = [k \in Kinds |-> "empty"]
    /\ clientReady = FALSE /\ self = FALSE
    /\ ctxDone = FALSE
    /\ granted \in BOOLEAN /\ hashLive = FALSE
    /\ accepted = [k \in Kinds |-> 0]
    /\ calls = [k \in Kinds |-> 0]

setState(s, err) == state' = s /\ lastErr' = err

(***************************************************************************)
(* HTTP handlers.  trySend succeeds when the channel has room, whether or  *)
(* not a prompt waits, unlike what the comment on Submit* says ("Returns   *)
(* false if no prompt is waiting"); a later prompt then takes the value.   *)
(***************************************************************************)
Submit(k) ==
    /\ ch[k] = "empty"
    /\ accepted[k] < MAX_SUBMIT
    /\ ch' = [ch EXCEPT ![k] = "full"]
    /\ accepted' = [accepted EXCEPT ![k] = @ + 1]
    /\ UNCHANGED <<pc, stage, published, clientReady, self, ctxDone, server, calls>>

\* SIGINT or SIGTERM.
Cancel ==
    /\ ~ctxDone
    /\ ctxDone' = TRUE
    /\ UNCHANGED <<pc, stage, published, ch, clientReady, self, server, accepted, calls>>

-----------------------------------------------------------------------------
(* Run and runAuth *)

\* runAuth fails: the error is published and Run returns.
Fail ==
    /\ setState("error", "fatal")
    /\ pc' = "returned"
    /\ UNCHANGED <<stage, ch, clientReady, self, ctxDone, server, accepted>>

\* client.Run connects and enters the callback, or gives up.
Boot ==
    /\ pc = "boot"
    /\ \/ pc' = "status" /\ clientReady' = TRUE
       \/ pc' = "returned" /\ UNCHANGED clientReady
    /\ UNCHANGED <<stage, published, ch, self, ctxDone, server, accepted, calls>>

Status ==
    /\ pc = "status"
    /\ \/ pc' = (IF granted THEN "granted" ELSE "ask")
          /\ UNCHANGED <<stage, published, ch, clientReady, self, ctxDone, server, accepted>>
       \/ Fail
    /\ UNCHANGED calls

\* Phone, Code and Password publish what they want, clear the error and wait.
Ask ==
    /\ pc = "ask"
    /\ setState(Need[stage], "nil")
    /\ pc' = "wait"
    /\ UNCHANGED <<stage, ch, clientReady, self, ctxDone, server, accepted, calls>>

\* The select of a prompt receives a value.
Take ==
    /\ pc = "wait" /\ ch[stage] # "empty"
    /\ ch' = [ch EXCEPT ![stage] = "empty"]
    /\ pc' = "call"
    /\ UNCHANGED <<stage, published, clientReady, self, ctxDone, server, accepted, calls>>

\* A password prompt that does not watch the ctx.
GiveUpExceptPassword ==
    /\ pc = "wait" /\ ctxDone /\ stage # "password"
    /\ Fail
    /\ UNCHANGED calls

\* The select of a prompt sees the ctx cancelled.
GiveUp ==
    /\ pc = "wait" /\ ctxDone
    /\ Fail
    /\ UNCHANGED calls

Called(k) == pc = "call" /\ stage = k /\ calls' = [calls EXCEPT ![k] = @ + 1]

\* Back to the prompt of kind k after reply err, which is published until then.
BackTo(k, err) ==
    /\ setState(Need[k], err)
    /\ stage' = k /\ pc' = "ask"
    /\ UNCHANGED <<ch, clientReady, self, ctxDone, granted, accepted>>

\* On to the prompt of kind k; nothing is published before it asks.
OnTo(k) ==
    /\ stage' = k /\ pc' = "ask"
    /\ UNCHANGED <<published, ch, clientReady, self, ctxDone, granted, accepted>>

SignedIn ==
    /\ granted' = TRUE /\ pc' = "granted"
    /\ UNCHANGED <<stage, published, ch, clientReady, self, ctxDone, hashLive, accepted>>

SendCode ==
    /\ Called("phone")
    /\ \/ OnTo("code") /\ hashLive' = TRUE
       \/ \E err \in recoverablePhoneErrs : BackTo("phone", err) /\ UNCHANGED hashLive
       \/ Fail

\* A flow that sends the same code again.
SignInResend ==
    /\ Called("code")
    /\ \/ SignedIn
       \/ UNCHANGED <<pc, stage, published, ch, clientReady, self, ctxDone, server, accepted>>
       \/ Fail

\* A flow that takes every recoverable error for a mistyped code.
SignInRetryCode ==
    /\ Called("code")
    /\ \/ SignedIn
       \/ \E err \in recoverablePhoneErrs :
             BackTo("code", err) /\ hashLive' = (hashLive /\ err \notin HashEnding)
       \/ Fail

\* A flow that reports the second factor as an error of the code.
SignInNoSecondFactor ==
    /\ Called("code")
    /\ \/ SignedIn
       \/ BackTo("phone", "SESSION_PASSWORD_NEEDED") /\ UNCHANGED hashLive
       \/ Fail

\* signInWithCodeRetry: only PHONE_CODE_INVALID asks for the code again.
SignIn ==
    /\ Called("code")
    /\ \/ SignedIn
       \/ BackTo("code", RetryErrs.code) /\ UNCHANGED hashLive
       \/ OnTo("password") /\ UNCHANGED hashLive
       \/ \E err \in recoverablePhoneErrs :
             BackTo("phone", err) /\ hashLive' = (hashLive /\ err \notin HashEnding)
       \/ Fail

\* passwordLoop.
Password ==
    /\ Called("password")
    /\ \/ SignedIn
       \/ BackTo("password", RetryErrs.password) /\ UNCHANGED hashLive
       \/ Fail

\* An authorized status that is published before runAuth has returned.
AuthorizeEarly ==
    /\ pc = "ask" \/ pc = "granted"
    /\ setState("authorized", "nil")
    /\ pc' = "self"
    /\ UNCHANGED <<stage, ch, clientReady, self, ctxDone, server, accepted, calls>>

Authorize ==
    /\ pc = "granted"
    /\ setState("authorized", "nil")
    /\ pc' = "self"
    /\ UNCHANGED <<stage, ch, clientReady, self, ctxDone, server, accepted, calls>>

\* A callback that warms the peer cache before it stores self.
WarmFirst ==
    /\ pc = "self"
    /\ pc' = "warm"
    /\ UNCHANGED <<stage, published, ch, clientReady, self, ctxDone, server, accepted, calls>>

\* A callback that only logs a failing client.Self.
SelfFailureLogged ==
    /\ pc = "self"
    /\ self' \in {self, TRUE} /\ pc' = "warm"
    /\ UNCHANGED <<stage, published, ch, clientReady, ctxDone, server, accepted, calls>>

\* client.Self; a failure ends Run and leaves the published state alone.
Self ==
    /\ pc = "self"
    /\ \/ self' = TRUE /\ pc' = "warm"
       \/ UNCHANGED self /\ pc' = "returned"
    /\ UNCHANGED <<stage, published, ch, clientReady, ctxDone, server, accepted, calls>>

\* waitReady returns once the client is ready and self is set, or when the ctx
\* is cancelled.
waitReady == (clientReady /\ self) \/ ctxDone

\* warmPeerCache lists the dialogs, after waitReady.  Any error is logged only.
Warm ==
    /\ pc = "warm"
    /\ waitReady
    /\ pc' = "updates"
    /\ UNCHANGED <<stage, published, ch, clientReady, self, ctxDone, server, accepted, calls>>

\* updatesMgr.Run ends: ctx cancelled or fatal error.
UpdatesEnd ==
    /\ pc = "updates"
    /\ pc' = "returned"
    /\ UNCHANGED <<stage, published, ch, clientReady, self, ctxDone, server, accepted, calls>>

-----------------------------------------------------------------------------
Callback ==
    \/ Boot \/ Status \/ Ask \/ Take \/ GiveUp
    \/ SendCode \/ SignIn \/ Password
    \/ Authorize \/ Self \/ Warm

Next ==
    \/ Callback
    \/ UpdatesEnd
    \/ \E k \in Kinds : Submit(k)
    \/ Cancel

Spec == Init /\ [][Next]_vars

(***************************************************************************)
(* The goroutine runs when it can and every RPC returns, with a reply or   *)
(* with an error.  The update loop ends when its ctx does.  select picks   *)
(* at random, so a cancelled ctx is not passed over for ever.  Users and   *)
(* signals are free.                                                       *)
(***************************************************************************)
FairSpec ==
    /\ Spec
    /\ WF_vars(Callback)
    /\ SF_vars(GiveUp)
    /\ WF_vars(UpdatesEnd /\ ctxDone)

-----------------------------------------------------------------------------
\* Types of the variables.
TypeOK ==
    /\ pc \in {"boot", "status", "ask", "wait", "call", "granted", "self", "warm",
               "updates", "returned"}
    /\ stage \in Kinds
    /\ state \in {"idle", "need_phone", "need_code", "need_password", "authorized", "error"}
    /\ lastErr \in recoverablePhoneErrs \cup {RetryErrs.code, RetryErrs.password, "nil", "fatal"}
    /\ ch \in [Kinds -> {"empty", "full"}]
    /\ clientReady \in BOOLEAN /\ self \in BOOLEAN /\ ctxDone \in BOOLEAN
    /\ granted \in BOOLEAN /\ hashLive \in BOOLEAN
    /\ accepted \in [Kinds -> 0..MAX_SUBMIT]
    /\ calls \in [Kinds -> Nat]

\* The status says authorized, and self is set, only when Telegram granted the
\* session.
AuthorizedIsGranted == state = "authorized" \/ self => granted

InChannel(k) == IF ch[k] = "empty" THEN 0 ELSE 1
InCall(k)    == IF pc = "call" /\ stage = k THEN 1 ELSE 0

\* Every accepted submission is the argument of at most one call to Telegram, and
\* none is lost on the way: it is in its channel, in a call, or was used in one.
UsedOnce == \A k \in Kinds : accepted[k] = calls[k] + InCall(k) + InChannel(k)

\* The user is never asked for a code that cannot succeed: when Telegram has ended
\* the code hash, runAuth goes back to the phone prompt for a new one.
CodePromptHasLiveHash == stage = "code" /\ pc \in {"ask", "wait", "call"} => hashLive

\* The flow always comes back to a prompt that waits for the user, or reaches the
\* update loop, or ends; it never hangs in between (the waitReady inside
\* warmPeerCache included).
SettlesForUser ==
    []<>((pc = "wait" /\ ch[stage] = "empty") \/ pc \in {"updates", "returned"})

\* A cancelled ctx ends Run, at whatever prompt or call it is.
CancelEndsRun == ctxDone ~> pc = "returned"

\* The status is published as authorized before client.Self has returned, and the
\* requests of the devices wait for self: once a user has read "authorized", either
\* they are let through or Run ends.
AuthorizedGetsReady == state = "authorized" ~> self \/ pc = "returned"

=============================================================================
