---------------------------- MODULE PeersProofs ----------------------------
(***************************************************************************)
(* Requests reach the chats they name, for any peers, clients and tokens   *)
(* and any number of requests at a time.                                   *)
(***************************************************************************)
EXTENDS Peers, FiniteSetTheorems, TLAPS

\* Different peers have different chat ids: groups stay above the offset.
LEMMA ChatIdsDiffer ==
    ASSUME NEW p \in Peers, NEW q \in Peers, peerToChatID(p) = peerToChatID(q)
    PROVE  p = q
<1>1. /\ p \in [kind : Kinds, id : Nat \ {0}] /\ q \in [kind : Kinds, id : Nat \ {0}]
      /\ p.kind = "chat" => p.id <= CHANNEL_OFFSET
      /\ q.kind = "chat" => q.id <= CHANNEL_OFFSET
      /\ CHANNEL_OFFSET \in Nat
    BY PeersAssumption
<1>2. p.kind = q.kind /\ p.id = q.id
    BY <1>1 DEF peerToChatID, Kinds
<1>3. QED
    BY <1>1, <1>2

\* If any client has a token, TokenToClient finds the first that has it.
LEMMA FirstClient ==
    ASSUME NEW token, TokenToClient(token) # 0
    PROVE  /\ TokenToClient(token) \in 1..Len(Clients)
           /\ Clients[TokenToClient(token)].token = token
           /\ \A j \in 1..TokenToClient(token) - 1 : Clients[j].token # token
<1> DEFINE N == Len(Clients)
           with == {i \in 1..N : Clients[i].token = token}
           below == {1..i : i \in with}
<1>1. N \in Nat
    BY PeersAssumption
<1>2. with # {} /\ TokenToClient(token) = CHOOSE i \in with : \A j \in with : i <= j
    BY DEF TokenToClient
<1>3. \E i \in with : \A j \in with : i <= j
    <2>1. below \subseteq FiniteSubsetsOf(1..N) /\ below # {}
        <3>1. \A i \in with : 1..i \subseteq 1..N /\ IsFiniteSet(1..i)
            BY <1>1, FS_Interval
        <3>2. QED
            BY <1>2, <3>1 DEF FiniteSubsetsOf
    <2>2. IsWellFoundedOn(StrictSubsetOrdering(1..N), FiniteSubsetsOf(1..N))
        BY FS_StrictSubsetOrderingWellFounded
    <2>3. PICK x \in below : \A y \in below : <<y, x>> \notin StrictSubsetOrdering(1..N)
        <3> HIDE DEF below, N
        <3> QED
            BY <2>1, <2>2, WFMin
    <2>4. PICK i \in with : x = 1..i
        BY <2>3
    <2>5. ASSUME NEW j \in with, j < i
          PROVE  FALSE
        <3>1. 1..j \in SUBSET (1..N) /\ 1..i \in SUBSET (1..N) /\ 1..j \subseteq 1..i /\ 1..j # 1..i
            BY <1>1, <2>5
        <3>2. <<1..j, 1..i>> \in StrictSubsetOrdering(1..N)
            BY <3>1 DEF StrictSubsetOrdering
        <3>3. QED
            BY <2>3, <2>4, <3>2
    <2>6. QED
        BY <1>1, <2>5
<1>4. TokenToClient(token) \in with /\ \A j \in with : TokenToClient(token) <= j
    BY <1>2, <1>3
<1>5. QED
    BY <1>1, <1>4

\* The handlers' check is that of the client withAuth means.
LEMMA AccessIsPermitted ==
    ASSUME NEW token, NEW chat, TokenToClient(token) # 0, clientCanAccess(token, chat)
    PROVE  Permitted(token, chat)
BY FirstClient DEF clientCanAccess, Permitted

-----------------------------------------------------------------------------
(* The inductive invariant. *)

\* States in which a request has been admitted and is being served.
Working == {"lookup", "dialogs", "caching", "relookup", "call"}

\* Every entry of the cache, and every entry that is on its way into it, is the
\* peer of its chat id.
CacheSound ==
    /\ \A chat \in ChatIds : peerCache[chat] # NoPeer => peerToChatID(peerCache[chat]) = chat
    /\ \A r \in Callers : \A e \in todo[r] : peerToChatID(e[2]) = e[1]

\* The warm-up waits for the login.
WarmWaits == ~self => pc[Warm] = "new"

\* Only a request that names a chat gets beyond a list of dialogs.
NamesChat ==
    \A r \in Callers : pc[r] \in Working =>
        IF req[r].op \in {"list", "warm"} THEN pc[r] \in {"dialogs", "caching"}
        ELSE req[r].chat \in ChatIds

\* A call goes to the peer of the chat that the request names.
TargetSound ==
    \A r \in Callers : pc[r] = "call" =>
        target[r] \in Peers /\ peerToChatID(target[r]) = req[r].chat

\* A request that is served has passed the checks, and has done nothing yet.
Admitted ==
    \A r \in Requests :
        /\ pc[r] \in Working =>
              /\ req[r].op \in {"list", "messages", "write"}
              /\ TokenToClient(req[r].token) # 0
              /\ req[r].op # "list" => clientCanAccess(req[r].token, req[r].chat)
        /\ pc[r] \in Working \cup {"new"} => effects[r] = <<>> /\ answer[r] = 0

\* A titled chat of a page is in the cache, or its ListChats has yet to put it there.
PagesSound ==
    \A r \in Callers : \A e \in page[r] : e.titled =>
        \/ peerCache[peerToChatID(e.peer)] = e.peer
        \/ pc[r] = "caching" /\ <<peerToChatID(e.peer), e.peer>> \in todo[r]

\* Only a list request has a page.
PagesOfLists ==
    \A r \in Requests : page[r] # {} => req[r].op = "list" /\ pc[r] \in {"caching", "done"}

Inv ==
    /\ TypeOK
    /\ DOMAIN req = Callers
    /\ CacheSound
    /\ WarmWaits
    /\ NamesChat
    /\ TargetSound
    /\ Admitted
    /\ PagesSound
    /\ PagesOfLists
    /\ EffectsAuthorized
    /\ AtMostOnce
    /\ UntitledHasTwin

\* Chat ids are the images of peers, and requests are callers.
LEMMA Sets ==
    /\ \A p \in Peers : peerToChatID(p) \in ChatIds
    /\ Requests \subseteq Callers /\ Warm \in Callers /\ Warm \notin Requests
BY PeersAssumption DEF ChatIds, Callers, Requests, Warm

\* Before the first request.
LEMMA InitInv == Init => Inv
<1> SUFFICES ASSUME Init
             PROVE  Inv
    OBVIOUS
<1> USE DEF Init
<1>1. TypeOK
    <2>1. <<>> \in Seq(Peers)
        OBVIOUS
    <2>2. QED
        BY <2>1, ZenonT(60) DEF TypeOK
<1>2a. DOMAIN req = Callers
    OBVIOUS
<1>2. CacheSound /\ WarmWaits /\ NamesChat /\ TargetSound /\ PagesSound /\ PagesOfLists
    BY Sets DEF CacheSound, WarmWaits, NamesChat, TargetSound, PagesSound, PagesOfLists, Working
<1>3. Admitted /\ EffectsAuthorized /\ AtMostOnce /\ UntitledHasTwin
    BY Sets DEF Admitted, EffectsAuthorized, AtMostOnce, UntitledHasTwin, Working
<1>4. QED
    BY <1>1, <1>2a, <1>2, <1>3 DEF Inv

\* A served request, or the callback, returns an error with nothing done.
LEMMA FailInv ==
    ASSUME Inv, NEW r \in Callers, pc[r] \in Working \ {"caching"}, Fail(r),
           UNCHANGED <<self, peerCache, page, effects>>
    PROVE  Inv'
<1> USE DEF Fail, Answer, Goto
<1>1. TypeOK'
    BY DEF Inv, TypeOK, FailCode
<1>2. DOMAIN req' = Callers
    BY DEF Inv
<1>3. CacheSound' /\ WarmWaits' /\ NamesChat' /\ TargetSound' /\ PagesSound'
    BY Sets DEF Inv, TypeOK, CacheSound, WarmWaits, NamesChat, TargetSound, PagesSound, Working
<1>4. Admitted' /\ PagesOfLists'
    BY Sets, SMTT(30) DEF Inv, TypeOK, Admitted, PagesOfLists, Working
<1>5. EffectsAuthorized'
    <2>1. answer'[r] # 200 /\ (r \in Requests => effects[r] = <<>>)
        BY DEF Inv, TypeOK, Admitted, FailCode
    <2>2. \A s \in Requests \ {r} : req'[s] = req[s] /\ answer'[s] = answer[s]
        BY Sets DEF Inv, TypeOK
    <2>3. QED
        BY <2>1, <2>2 DEF Inv, EffectsAuthorized
<1>6. AtMostOnce' /\ UntitledHasTwin'
    BY Sets DEF Inv, TypeOK, AtMostOnce, UntitledHasTwin, Admitted, FailCode
<1>7. QED
    BY <1>1, <1>2, <1>3, <1>4, <1>5, <1>6 DEF Inv

\* A served request goes on, perhaps with a target; nothing of its list is left to do.
LEMMA MoveInv ==
    ASSUME Inv, NEW r \in Callers, NEW label \in Working,
           pc[r] \in Working, pc[r] = "caching" => todo[r] = {},
           Goto(r, label), label = "call" => TargetSound',
           req[r].op \notin {"list", "warm"},
           UNCHANGED <<self, peerCache, req, todo, page, answer, effects>>,
           target' = target \/ \E p \in Peers : target' = [target EXCEPT ![r] = p] /\ label = "call"
    PROVE  Inv'
<1> USE DEF Goto
<1>1. TypeOK'
    <2>1. target' \in [Callers -> Peers \cup {NoPeer}]
        <3>1. target \in [Callers -> Peers \cup {NoPeer}]
            BY DEF Inv, TypeOK
        <3>2. CASE target' = target
            BY <3>1, <3>2
        <3>3. CASE \E p \in Peers : target' = [target EXCEPT ![r] = p]
            BY <3>1, <3>3
        <3>4. QED
            BY <3>2, <3>3
    <2>2. pc' \in [Callers -> {"new", "lookup", "dialogs", "caching", "relookup", "call",
                               "ready", "download", "serve", "done"}]
        BY DEF Inv, TypeOK, Working
    <2>3. QED
        BY <2>1, <2>2 DEF Inv, TypeOK
<1>2. CacheSound' /\ WarmWaits' /\ NamesChat' /\ TargetSound' /\ PagesSound'
    BY Sets DEF Inv, TypeOK, CacheSound, WarmWaits, NamesChat, TargetSound, PagesSound, Working
<1>3. Admitted' /\ PagesOfLists'
    BY Sets DEF Inv, TypeOK, Admitted, PagesOfLists, Working
<1>4. EffectsAuthorized' /\ AtMostOnce' /\ UntitledHasTwin'
    BY DEF Inv, EffectsAuthorized, AtMostOnce, UntitledHasTwin
<1>5. QED
    BY <1>1, <1>2, <1>3, <1>4 DEF Inv

\* The peer that a lookup finds is that of the chat id.
LEMMA LookupInv ==
    ASSUME Inv, NEW r \in Callers, Lookup(r)
    PROVE  Inv'
<1> DEFINE p == peerCache[req[r].chat]
<1>0. req[r].chat \in ChatIds /\ req[r].op \notin {"list", "warm"}
    BY DEF Inv, NamesChat, Lookup, Working
<1>1. CASE p # NoPeer
    <2>1. p \in Peers /\ peerToChatID(p) = req[r].chat
        BY <1>0, <1>1 DEF Inv, TypeOK, CacheSound
    <2>2. /\ pc[r] \in Working \ {"caching"} /\ Goto(r, "call")
          /\ target' = [target EXCEPT ![r] = p]
          /\ UNCHANGED <<self, peerCache, req, todo, page, answer, effects>>
        BY <1>1 DEF Lookup, Working
    <2>3. TargetSound'
        BY <2>1, <2>2 DEF Inv, TypeOK, TargetSound, Goto
    <2>4. QED
        BY <1>0, <2>1, <2>2, <2>3, MoveInv DEF Working
<1>2. CASE p = NoPeer /\ pc[r] = "lookup"
    BY <1>0, <1>2, MoveInv DEF Lookup, Working
<1>3. CASE p = NoPeer /\ pc[r] = "relookup"
    BY <1>3, FailInv DEF Lookup, Working
<1>4. QED
    BY <1>1, <1>2, <1>3 DEF Lookup

\* Run caches no chat yet: its warm-up begins.
LEMMA LoginInv ==
    ASSUME Inv, Login
    PROVE  Inv'
<1> USE DEF Login, Goto
<1>1. TypeOK' /\ DOMAIN req' = Callers
    <2>1. pc' \in [Callers -> {"new", "lookup", "dialogs", "caching", "relookup", "call",
                               "ready", "download", "serve", "done"}]
        BY ZenonT(60) DEF Inv, TypeOK
    <2>2. QED
        BY <2>1 DEF Inv, TypeOK
<1>2. CacheSound' /\ WarmWaits' /\ TargetSound'
    BY Sets DEF Inv, TypeOK, CacheSound, WarmWaits, TargetSound
<1>3. NamesChat'
    BY Sets DEF Inv, TypeOK, NamesChat
<1>4. Admitted' /\ EffectsAuthorized' /\ AtMostOnce' /\ UntitledHasTwin'
    BY Sets DEF Inv, TypeOK, Admitted, EffectsAuthorized, AtMostOnce, UntitledHasTwin
<1>5. PagesSound' /\ PagesOfLists'
    BY Sets DEF Inv, TypeOK, PagesSound, PagesOfLists, WarmWaits
<1>6. QED
    BY <1>1, <1>2, <1>3, <1>4, <1>5 DEF Inv

\* The checks that a request passes are those that admit it.
LEMMA ArriveInv ==
    ASSUME Inv, NEW r \in Requests, NEW q \in Queries, NEW fault, Arrive(r, q, fault)
    PROVE  Inv'
<1> DEFINE code == Verdict(q, fault)
<1>0. r \in Callers /\ pc[r] = "new" /\ effects[r] = <<>> /\ answer[r] = 0
    BY Sets DEF Inv, Admitted, Arrive
<1>1. CASE code # 0
    <2>1. code \in {400, 401, 403, 503}
        BY <1>1 DEF Verdict
    <2>2. /\ pc' = [pc EXCEPT ![r] = "done"] /\ answer' = [answer EXCEPT ![r] = code]
          /\ todo' = [todo EXCEPT ![r] = {}] /\ target' = [target EXCEPT ![r] = NoPeer]
          /\ UNCHANGED <<self, peerCache, req, page, effects>>
        BY <1>1 DEF Arrive, Answer, Goto
    <2> HIDE DEF code
    <2> USE <1>0, <2>2
    <2>3. TypeOK' /\ DOMAIN req' = Callers
        BY <2>1 DEF Inv, TypeOK
    <2>4. CacheSound' /\ WarmWaits' /\ NamesChat' /\ TargetSound' /\ PagesSound'
        BY Sets DEF Inv, TypeOK, CacheSound, WarmWaits, NamesChat, TargetSound, PagesSound, Working
    <2>5. Admitted' /\ PagesOfLists'
        BY Sets DEF Inv, TypeOK, Admitted, PagesOfLists, Working
    <2>6. EffectsAuthorized' /\ UntitledHasTwin'
        BY <2>1, Sets DEF Inv, TypeOK, EffectsAuthorized, UntitledHasTwin
    <2>7. AtMostOnce'
        BY <2>1, Sets DEF Inv, TypeOK, AtMostOnce
    <2>8. QED
        BY <2>3, <2>4, <2>5, <2>6, <2>7 DEF Inv
<1>2. CASE code = 0
    <2> DEFINE label == IF q.op = "list" THEN "dialogs" ELSE "lookup"
    <2>1. /\ TokenToClient(q.token) # 0
          /\ q.op # "list" => clientCanAccess(q.token, q.chat)
        BY <1>2 DEF Verdict
    <2>2. q.op = "list" \/ (q.op \in {"messages", "write"} /\ q.chat \in ChatIds)
        BY DEF Queries
    <2>3. /\ pc' = [pc EXCEPT ![r] = label] /\ req' = [req EXCEPT ![r] = q]
          /\ UNCHANGED <<self, peerCache, todo, page, target, answer, effects>>
        BY <1>2 DEF Arrive, Goto
    <2>4. TypeOK' /\ DOMAIN req' = Callers
        BY <2>3, ZenonT(60) DEF Inv, TypeOK
    <2>5. CacheSound' /\ WarmWaits' /\ TargetSound' /\ PagesSound'
        BY <1>0, <2>3, Sets DEF Inv, TypeOK, CacheSound, WarmWaits, TargetSound, PagesSound
    <2>6. NamesChat'
        BY <1>0, <2>2, <2>3, SMTT(30) DEF Inv, TypeOK, NamesChat
    <2>7. Admitted' /\ PagesOfLists'
        BY <1>0, <2>1, <2>2, <2>3, Sets DEF Inv, TypeOK, Admitted, PagesOfLists
    <2>8. EffectsAuthorized' /\ AtMostOnce' /\ UntitledHasTwin'
        BY <1>0, <2>3, Sets DEF Inv, TypeOK, EffectsAuthorized, AtMostOnce, UntitledHasTwin
    <2>9. QED
        BY <2>4, <2>5, <2>6, <2>7, <2>8 DEF Inv
<1>3. QED
    BY <1>1, <1>2

\* What a dialog caches is its own peer, or nothing.
LEMMA FoundIsPeer ==
    ASSUME NEW p \in Peers, NEW objects \in SUBSET Peers, NEW byID \in indexChats(objects)
    PROVE  /\ Found(p, objects, byID) \subseteq {p}
           /\ Found(p, objects, byID) = {} /\ p.kind \in {q.kind : q \in {o \in objects : o.id = p.id}}
              => {"chat", "channel"} \subseteq {q.kind : q \in {o \in objects : o.id = p.id}}
<1> DEFINE groups == {q \in objects : q.kind # "user"}
<1>1. /\ Peers \subseteq [kind : Kinds, id : Nat \ {0}]
      /\ byID \in [{q.id : q \in groups} -> groups]
      /\ \A i \in DOMAIN byID : byID[i].id = i
    BY PeersAssumption DEF indexChats, Indexes
<1>2. \A q, s \in Peers : q.kind = s.kind /\ q.id = s.id => q = s
    BY <1>1
<1>3. CASE p.kind = "user"
    BY <1>2, <1>3 DEF Found
<1>4. CASE p.kind # "user"
    <2>1. Found(p, objects, byID) \subseteq {p}
        BY <1>1, <1>2, <1>4 DEF Found
    <2>2. ASSUME Found(p, objects, byID) = {}, NEW q \in objects, q.id = p.id, q.kind = p.kind
          PROVE  \E o \in objects : o.id = p.id /\ {o.kind, p.kind} = {"chat", "channel"}
        <3>1. p.id \in DOMAIN byID
            BY <1>1, <1>4, <2>2
        <3>2. byID[p.id] \in groups /\ byID[p.id].id = p.id /\ byID[p.id].kind # p.kind
            BY <1>1, <1>4, <2>2, <3>1 DEF Found
        <3>3. p.kind \in {"chat", "channel"} /\ byID[p.id].kind \in {"chat", "channel"}
            BY <1>1, <1>4, <3>2 DEF Kinds
        <3>4. QED
            BY <3>2, <3>3
    <2>3. QED
        BY <2>1, <2>2
<1>5. QED
    BY <1>3, <1>4

\* A reply of Telegram: every titled chat of it is to be cached.
LEMMA GetDialogsInv ==
    ASSUME Inv, NEW r \in Callers, GetDialogs(r)
    PROVE  Inv'
<1>0. PICK S \in SUBSET Peers, objects \in SUBSET Peers : \E byID \in indexChats(objects) :
          /\ page' = [page EXCEPT ![r] =
                 {[peer   |-> p,
                   kinds  |-> {q.kind : q \in {o \in objects : o.id = p.id}},
                   titled |-> Found(p, objects, byID) # {}] :
                      p \in IF req[r].op = "list" THEN S ELSE {}}]
          /\ todo' = [todo EXCEPT ![r] =
                 UNION {{peerToChatID(p)} \X Found(p, objects, byID) : p \in S}]
    BY DEF GetDialogs
<1>1. PICK byID \in indexChats(objects) :
          /\ page' = [page EXCEPT ![r] =
                 {[peer   |-> p,
                   kinds  |-> {q.kind : q \in {o \in objects : o.id = p.id}},
                   titled |-> Found(p, objects, byID) # {}] :
                      p \in IF req[r].op = "list" THEN S ELSE {}}]
          /\ todo' = [todo EXCEPT ![r] =
                 UNION {{peerToChatID(p)} \X Found(p, objects, byID) : p \in S}]
    BY <1>0
<1>2. pc[r] = "dialogs" /\ pc' = [pc EXCEPT ![r] = "caching"]
      /\ UNCHANGED <<self, peerCache, req, target, answer, effects>>
    BY DEF GetDialogs, Goto
<1>3. \A e \in todo'[r] : \E p \in S : e = <<peerToChatID(p), p>>
    <2>1. todo'[r] = UNION {{peerToChatID(p)} \X Found(p, objects, byID) : p \in S}
        BY <1>1 DEF Inv, TypeOK
    <2>2. \A p \in S : \A e \in {peerToChatID(p)} \X Found(p, objects, byID) :
              e = <<peerToChatID(p), p>>
        BY FoundIsPeer
    <2>3. QED
        BY <2>1, <2>2
<1>4. \A e \in page'[r] :
          /\ e.peer \in S /\ e.kinds \in SUBSET Kinds /\ e.titled \in BOOLEAN
          /\ e \in [peer : Peers, kinds : SUBSET Kinds, titled : BOOLEAN]
          /\ e.titled => <<peerToChatID(e.peer), e.peer>> \in todo'[r]
          /\ ~e.titled /\ e.peer.kind \in e.kinds => {"chat", "channel"} \subseteq e.kinds
    <2> TAKE e \in page'[r]
    <2>0. PICK p \in S :
              e = [peer   |-> p,
                   kinds  |-> {q.kind : q \in {o \in objects : o.id = p.id}},
                   titled |-> Found(p, objects, byID) # {}]
        BY <1>1 DEF Inv, TypeOK
    <2> DEFINE kinds == {q.kind : q \in {o \in objects : o.id = p.id}}
    <2>1. kinds \in SUBSET Kinds
        BY PeersAssumption
    <2>2. ASSUME Found(p, objects, byID) # {}
          PROVE  <<peerToChatID(p), p>> \in todo'[r]
        <3>1. Found(p, objects, byID) = {p}
            BY <2>2, FoundIsPeer
        <3>2. <<peerToChatID(p), p>> \in {peerToChatID(p)} \X Found(p, objects, byID)
            BY <3>1
        <3>3. QED
            BY <1>1, <3>2 DEF Inv, TypeOK
    <2>3. QED
        <3>1. e.peer = p /\ e.kinds = kinds /\ e.titled = (Found(p, objects, byID) # {})
            BY <2>0
        <3>2. e \in [peer : Peers, kinds : SUBSET Kinds, titled : BOOLEAN]
            BY <2>0, <2>1
        <3>3. ~e.titled /\ e.peer.kind \in e.kinds => {"chat", "channel"} \subseteq e.kinds
            BY <3>1, FoundIsPeer, ZenonT(60)
        <3> HIDE DEF kinds
        <3>4. QED
            BY <2>1, <2>2, <3>1, <3>2, <3>3
<1>5. TypeOK' /\ DOMAIN req' = Callers
    <2>1. todo'[r] \in SUBSET (ChatIds \X Peers)
        BY <1>3, Sets
    <2>2. page'[r] \in SUBSET [peer : Peers, kinds : SUBSET Kinds, titled : BOOLEAN]
        BY <1>4
    <2>3. /\ todo' \in [Callers -> SUBSET (ChatIds \X Peers)]
          /\ page' \in [Callers -> SUBSET [peer : Peers, kinds : SUBSET Kinds, titled : BOOLEAN]]
        BY <1>1, <2>1, <2>2, ZenonT(60) DEF Inv, TypeOK
    <2>4. QED
        BY <1>2, <2>3, ZenonT(60) DEF Inv, TypeOK
<1>6. \A s \in Callers \ {r} : todo'[s] = todo[s] /\ page'[s] = page[s] /\ pc'[s] = pc[s]
    BY <1>1, <1>2 DEF Inv, TypeOK
<1>7. CacheSound' /\ WarmWaits' /\ NamesChat' /\ TargetSound'
    <2>1. CacheSound'
        BY <1>2, <1>3, <1>6 DEF Inv, CacheSound
    <2>2. WarmWaits' /\ NamesChat' /\ TargetSound'
        BY <1>2, <1>6, Sets DEF Inv, TypeOK, WarmWaits, NamesChat, TargetSound, Working
    <2>3. QED
        BY <2>1, <2>2
<1>8. Admitted' /\ AtMostOnce' /\ PagesOfLists'
    <2>1. Admitted' /\ AtMostOnce'
        BY <1>2, Sets DEF Inv, TypeOK, Admitted, AtMostOnce, Working
    <2>2. PagesOfLists'
        BY <1>1, <1>2, <1>6, Sets DEF Inv, TypeOK, PagesOfLists
    <2>3. QED
        BY <2>1, <2>2
<1>9. PagesSound' /\ UntitledHasTwin'
    <2>1. PagesSound'
        <3> SUFFICES ASSUME NEW s \in Callers, NEW e \in page'[s], e.titled
                     PROVE  \/ peerCache[peerToChatID(e.peer)] = e.peer
                            \/ pc'[s] = "caching" /\ <<peerToChatID(e.peer), e.peer>> \in todo'[s]
            BY <1>2 DEF PagesSound
        <3>1. CASE s = r
            BY <1>2, <1>4, <3>1, ZenonT(60) DEF Inv, TypeOK
        <3>2. CASE s # r
            BY <1>6, <3>2 DEF Inv, PagesSound
        <3>3. QED
            BY <3>1, <3>2
    <2>2. UntitledHasTwin'
        <3> SUFFICES ASSUME NEW s \in Requests, NEW e \in page'[s], ~e.titled, e.peer.kind \in e.kinds
                     PROVE  {"chat", "channel"} \subseteq e.kinds
            BY DEF UntitledHasTwin
        <3>1. CASE s = r
            BY <1>4, <3>1
        <3>2. CASE s # r
            BY <1>6, <3>2, Sets DEF Inv, UntitledHasTwin
        <3>3. QED
            BY <3>1, <3>2
    <2>3. QED
        BY <2>1, <2>2
<1>10. EffectsAuthorized'
    <2>1. r \in Requests => answer[r] = 0
        BY <1>2 DEF Inv, Admitted, Working
    <2>2. QED
        BY <1>2, <1>6, <2>1, Sets DEF Inv, EffectsAuthorized
<1>11. QED
    BY <1>5, <1>7, <1>8, <1>9, <1>10 DEF Inv

\* One entry goes into the cache: it can only repeat what is there.
LEMMA CachePeerInv ==
    ASSUME Inv, NEW r \in Callers, cachePeer(r)
    PROVE  Inv'
<1>1. PICK e \in todo[r] :
          peerCache' = [peerCache EXCEPT ![e[1]] = e[2]] /\ todo' = [todo EXCEPT ![r] = @ \ {e}]
    BY DEF cachePeer
<1>2. pc[r] = "caching" /\ UNCHANGED <<self, pc, req, page, target, answer, effects>>
    BY DEF cachePeer
<1>3. e \in ChatIds \X Peers /\ e[1] \in ChatIds /\ e[2] \in Peers /\ peerToChatID(e[2]) = e[1]
    BY DEF Inv, TypeOK, CacheSound
<1>4. TypeOK' /\ DOMAIN req' = Callers
    BY <1>1, <1>2, <1>3 DEF Inv, TypeOK
<1>5. CacheSound'
    BY <1>1, <1>2, <1>3 DEF Inv, TypeOK, CacheSound
<1>6. WarmWaits' /\ NamesChat' /\ TargetSound' /\ Admitted' /\ PagesOfLists'
    BY <1>2 DEF Inv, WarmWaits, NamesChat, TargetSound, Admitted, PagesOfLists
<1>7. EffectsAuthorized' /\ AtMostOnce' /\ UntitledHasTwin'
    BY <1>2 DEF Inv, EffectsAuthorized, AtMostOnce, UntitledHasTwin
<1>8. PagesSound'
    <2> SUFFICES ASSUME NEW s \in Callers, NEW f \in page[s], f.titled
                 PROVE  \/ peerCache'[peerToChatID(f.peer)] = f.peer
                        \/ pc[s] = "caching" /\ <<peerToChatID(f.peer), f.peer>> \in todo'[s]
        BY <1>2 DEF PagesSound
    <2>1. f.peer \in Peers /\ peerToChatID(f.peer) \in ChatIds
        BY Sets DEF Inv, TypeOK
    <2>2. CASE peerToChatID(f.peer) = e[1]
        <3>1. f.peer = e[2]
            BY <1>3, <2>1, <2>2, ChatIdsDiffer
        <3>2. QED
            BY <1>1, <1>3, <2>2, <3>1 DEF Inv, TypeOK
    <2>3. CASE peerToChatID(f.peer) # e[1]
        <3>1. peerCache'[peerToChatID(f.peer)] = peerCache[peerToChatID(f.peer)]
            BY <1>1, <2>1, <2>3 DEF Inv, TypeOK
        <3>2. <<peerToChatID(f.peer), f.peer>> \in todo[s]
              => <<peerToChatID(f.peer), f.peer>> \in todo'[s]
            BY <1>1, <1>3, <2>3 DEF Inv, TypeOK
        <3>3. QED
            BY <3>1, <3>2 DEF Inv, PagesSound
    <2>4. QED
        BY <2>2, <2>3
<1>9. QED
    BY <1>4, <1>5, <1>6, <1>7, <1>8 DEF Inv

\* A list is cached in full by the time it is returned, and filtered.
LEMMA ListReturnsInv ==
    ASSUME Inv, NEW r \in Callers, ListReturns(r)
    PROVE  Inv'
<1>1. pc[r] = "caching" /\ todo[r] = {} /\ UNCHANGED <<self, peerCache, req, effects>>
    BY DEF ListReturns
<1>2. CASE req[r].op \notin {"list", "warm"}
    <2>1. Goto(r, "relookup") /\ UNCHANGED <<todo, page, target, answer>>
        BY <1>2 DEF ListReturns
    <2>2. QED
        BY <1>1, <1>2, <2>1, MoveInv DEF Working
<1>3. CASE req[r].op \in {"list", "warm"}
    <2> DEFINE shown == IF req[r].op = "list" THEN Filtered(r) ELSE page[r]
    <2>1. page' = [page EXCEPT ![r] = shown] /\ shown \subseteq page[r]
        BY <1>3 DEF ListReturns, Filtered, Inv, TypeOK
    <2>2. /\ pc' = [pc EXCEPT ![r] = "done"] /\ answer' = [answer EXCEPT ![r] = 200]
          /\ todo' = [todo EXCEPT ![r] = {}] /\ target' = [target EXCEPT ![r] = NoPeer]
        BY <1>3 DEF ListReturns, Answer, Goto
    <2>3. r \in Requests => effects[r] = <<>> /\ TokenToClient(req[r].token) # 0
        BY <1>1 DEF Inv, Admitted, Working
    <2>4. r \in Requests =>
              /\ req[r].op = "list"
              /\ \A e \in shown : Permitted(req[r].token, peerToChatID(e.peer))
        BY <1>1, <1>3, <2>3, AccessIsPermitted DEF Inv, Admitted, Working, Filtered
    <2> HIDE DEF shown
    <2>5. TypeOK' /\ DOMAIN req' = Callers
        BY <1>1, <2>1, <2>2 DEF Inv, TypeOK
    <2>6. CacheSound' /\ WarmWaits' /\ NamesChat' /\ TargetSound' /\ Admitted'
        BY <1>1, <2>2, Sets DEF Inv, TypeOK, CacheSound, WarmWaits, NamesChat, TargetSound,
           Admitted, Working
    <2>7. \A s \in Callers : page'[s] \subseteq page[s] /\ (s # r => page'[s] = page[s])
        BY <2>1 DEF Inv, TypeOK
    <2>8. PagesSound'
        BY <1>1, <2>2, <2>7 DEF Inv, TypeOK, PagesSound
    <2>9. UntitledHasTwin' /\ PagesOfLists'
        <3>1. UntitledHasTwin'
            BY <2>7, Sets DEF Inv, UntitledHasTwin
        <3>2. PagesOfLists'
            BY <1>1, <2>2, <2>4, <2>7, Sets DEF Inv, TypeOK, PagesOfLists
        <3>3. QED
            BY <3>1, <3>2
    <2>10. EffectsAuthorized'
        <3>1. page'[r] = shown
            BY <2>1 DEF Inv, TypeOK
        <3>2. \A s \in Callers \ {r} : answer'[s] = answer[s]
            BY <2>2 DEF Inv, TypeOK
        <3>3. r \in Requests => Len(effects[r]) = 0
            BY <2>3
        <3>4. QED
            BY <1>1, <2>4, <2>7, <3>1, <3>2, <3>3, Sets DEF Inv, EffectsAuthorized
    <2>11. AtMostOnce'
        BY <1>1, <2>2, <2>3, <2>4, Sets DEF Inv, TypeOK, AtMostOnce
    <2>12. QED
        BY <2>5, <2>6, <2>8, <2>9, <2>10, <2>11 DEF Inv
<1>4. QED
    BY <1>2, <1>3

\* The only call of a request goes to the peer of the chat it names.
LEMMA CallInv ==
    ASSUME Inv, NEW r \in Callers, Call(r)
    PROVE  Inv'
<1>1. pc[r] = "call" /\ UNCHANGED <<self, peerCache, page>>
    BY DEF Call
<1>2. CASE Fail(r) /\ UNCHANGED effects
    BY <1>1, <1>2, FailInv DEF Working
<1>3. CASE /\ effects' = [effects EXCEPT ![r] = Append(@, target[r])]
           /\ Answer(r, 200) \/ Answer(r, FailCode(r))
           /\ UNCHANGED req
    <2>1. PICK code \in {200, 500, 502} : Answer(r, code)
        BY <1>3 DEF FailCode
    <2>2. /\ pc' = [pc EXCEPT ![r] = "done"] /\ answer' = [answer EXCEPT ![r] = code]
          /\ todo' = [todo EXCEPT ![r] = {}] /\ target' = [target EXCEPT ![r] = NoPeer]
        BY <2>1 DEF Answer, Goto
    <2>3. target[r] \in Peers /\ peerToChatID(target[r]) = req[r].chat
        BY <1>1 DEF Inv, TargetSound
    <2>4. effects' \in [Callers -> Seq(Peers)]
        BY <1>3, <2>3 DEF Inv, TypeOK
    <2>5. r \in Requests =>
              effects'[r] = <<target[r]>> /\ Permitted(req[r].token, req[r].chat)
        <3> SUFFICES ASSUME r \in Requests
                     PROVE  effects'[r] = <<target[r]>> /\ Permitted(req[r].token, req[r].chat)
            OBVIOUS
        <3>1. effects[r] = <<>> /\ TokenToClient(req[r].token) # 0 /\ req[r].op # "list"
            BY <1>1, Sets DEF Inv, Admitted, NamesChat, Working
        <3>2. clientCanAccess(req[r].token, req[r].chat)
            BY <1>1, <3>1 DEF Inv, Admitted, Working
        <3>3. effects'[r] = Append(<<>>, target[r])
            BY <1>3, <3>1 DEF Inv, TypeOK
        <3>4. QED
            BY <3>1, <3>2, <3>3, AccessIsPermitted
    <2>6. TypeOK' /\ DOMAIN req' = Callers
        BY <1>1, <1>3, <2>2, <2>4 DEF Inv, TypeOK
    <2>7. CacheSound' /\ WarmWaits' /\ NamesChat' /\ TargetSound' /\ PagesSound'
        BY <1>1, <1>3, <2>2, Sets DEF Inv, TypeOK, CacheSound, WarmWaits, NamesChat,
           TargetSound, PagesSound, Working
    <2>8. \A s \in Callers \ {r} : effects'[s] = effects[s] /\ answer'[s] = answer[s] /\ pc'[s] = pc[s]
        BY <1>3, <2>2 DEF Inv, TypeOK
    <2>9. Admitted' /\ UntitledHasTwin' /\ PagesOfLists'
        BY <1>1, <1>3, <2>2, <2>8, Sets DEF Inv, TypeOK, Admitted, UntitledHasTwin,
           PagesOfLists, Working
    <2>10. EffectsAuthorized'
        <3>1. r \in Requests => page[r] = {}
            BY <1>1 DEF Inv, PagesOfLists
        <3>2. ASSUME r \in Requests
              PROVE  /\ \A i \in 1..Len(effects'[r]) : peerToChatID(effects'[r][i]) = req[r].chat
                     /\ Permitted(req[r].token, req[r].chat)
            BY <2>3, <2>5, <3>2
        <3>3. QED
            BY <1>1, <1>3, <2>8, <3>1, <3>2, Sets DEF Inv, EffectsAuthorized
    <2>11. AtMostOnce'
        <3>1. answer'[r] \in {200, 500, 502}
            BY <2>2 DEF Inv, TypeOK
        <3>2. r \in Requests => Len(effects'[r]) = 1
            BY <2>5
        <3>3. QED
            BY <1>3, <2>8, <3>1, <3>2, Sets DEF Inv, AtMostOnce
    <2>12. QED
        BY <2>6, <2>7, <2>9, <2>10, <2>11 DEF Inv
<1>4. QED
    BY <1>2, <1>3 DEF Call

\* Every step keeps the invariant.
LEMMA NextInv ==
    ASSUME Inv, [Next]_vars
    PROVE  Inv'
<1>1. CASE Login
    BY <1>1, LoginInv
<1>2. CASE \E r \in Requests, q \in Queries, fault \in {"no", "path", "body"} : Arrive(r, q, fault)
    BY <1>2, ArriveInv
<1>3. ASSUME NEW r \in Callers, Serve(r)
      PROVE  Inv'
    <2>1. CASE Lookup(r)
        BY <2>1, LookupInv
    <2>2. CASE GetDialogs(r)
        BY <2>2, GetDialogsInv
    <2>3. CASE DialogsFail(r)
        BY <2>3, FailInv DEF DialogsFail, Working
    <2>4. CASE cachePeer(r)
        BY <2>4, CachePeerInv
    <2>5. CASE ListReturns(r)
        BY <2>5, ListReturnsInv
    <2>6. CASE Call(r)
        BY <2>6, CallInv
    <2>7. QED
        BY <1>3, <2>1, <2>2, <2>3, <2>4, <2>5, <2>6 DEF Serve
<1>4. CASE UNCHANGED vars
    BY <1>4 DEF vars, localVars, Inv, TypeOK, CacheSound, WarmWaits, NamesChat, TargetSound,
       Admitted, PagesSound, PagesOfLists, EffectsAuthorized, AtMostOnce, UntitledHasTwin
<1>5. QED
    BY <1>1, <1>2, <1>3, <1>4 DEF Next

\* A list that is answered has nothing left to cache.
LEMMA TitledInv == Inv => TitledResolves
<1> SUFFICES ASSUME Inv, NEW r \in Requests, answer[r] = 200, NEW e \in page[r], e.titled
             PROVE  peerCache[peerToChatID(e.peer)] = e.peer
    BY DEF TitledResolves
<1>1. pc[r] # "caching"
    BY DEF Inv, Admitted, Working
<1>2. QED
    BY <1>1, Sets DEF Inv, PagesSound

-----------------------------------------------------------------------------
(* What holds for any number of requests, peers and clients. *)

\* The invariant of the request handlers and the cache they share (Peers.Spec).
THEOREM PeersInvariant == Spec => []Inv
<1>1. Init => Inv
    BY InitInv
<1>2. Inv /\ [Next]_vars => Inv'
    BY NextInv
<1>3. QED
    BY <1>1, <1>2, PTL DEF Spec

\* The variables keep their types.
THEOREM PeersTypeOK == Spec => []TypeOK
<1>1. Inv => TypeOK
    BY DEF Inv
<1>2. QED
    BY <1>1, PeersInvariant, PTL

\* Every read, send and mark goes to the chat that the request names and that the
\* allowlist of its own client permits (resolvePeer, clientCanAccess).
THEOREM PeersEffectsAuthorized == Spec => []EffectsAuthorized
<1>1. Inv => EffectsAuthorized
    BY DEF Inv
<1>2. QED
    BY <1>1, PeersInvariant, PTL

\* No request takes effect twice, and its answer does not belie what it did
\* (SendText and MarkRead "fail fast").
THEOREM PeersAtMostOnce == Spec => []AtMostOnce
<1>1. Inv => AtMostOnce
    BY DEF Inv
<1>2. QED
    BY <1>1, PeersInvariant, PTL

\* A titled chat of an answered list is in the cache (ListChats, cachePeer): the
\* answer comes after the last entry, and no other request overwrites one.
THEOREM PeersTitledResolves == Spec => []TitledResolves
BY PeersInvariant, TitledInv, PTL

\* A chat that loses its title loses it to a group of the other kind with its bare
\* id (the shared map of ListChats).
THEOREM PeersUntitledHasTwin == Spec => []UntitledHasTwin
<1>1. Inv => UntitledHasTwin
    BY DEF Inv
<1>2. QED
    BY <1>1, PeersInvariant, PTL
=============================================================================
