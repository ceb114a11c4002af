------------------------------- MODULE Peers -------------------------------
(***************************************************************************)
(* The chat requests of the HTTP API (internal/httpapi/chats.go), from the *)
(* bearer token to the call of Telegram, and the peer cache they share     *)
(* (internal/bridge/chats.go, send.go).                                    *)
(*                                                                         *)
(* A peer is a user, basic group ("chat") or channel with a bare id; two   *)
(* kinds may use the same bare id.  Devices name a chat by one integer.    *)
(* Names, texts and access hashes are left out: a chat is "titled" when    *)
(* its user or chat object was found, which is also when it is cached.     *)
(* SendText and MarkRead differ only in the call they make: "write" is     *)
(* either of them.                                                         *)
(***************************************************************************)
EXTENDS Integers, Sequences, FiniteSets

CONSTANTS REQUESTS,        \* how many HTTP requests come in
          Peers,           \* [kind, id] records: what the account may talk to
          NoPeer,
          Clients,         \* cfg.Clients, a sequence of [token, allowed]
          Tokens,          \* tokens that requests carry
          Limits,          \* limits that devices ask for
          CHANNEL_OFFSET,  \* 1000000000000
          MAX_LIMIT, WARM_LIMIT, DEFAULT_LIMIT  \* 200, 100 and 50 dialogs

Requests == 1..REQUESTS           \* in the order in which they come in
Warm     == 0                     \* the callback of Run, which warms the cache
Callers  == Requests \cup {Warm}
Kinds    == {"user", "chat", "channel"}

\* A configuration that main starts with has a client, and no empty token.
validate == Clients # <<>> /\ \A i \in 1..Len(Clients) : Clients[i].token # ""

\* Telegram's ids of basic groups do not reach the offset.
ASSUME PeersAssumption ==
    /\ REQUESTS \in Nat
    /\ CHANNEL_OFFSET \in Nat
    /\ Peers \subseteq [kind : Kinds, id : Nat \ {0}] /\ IsFiniteSet(Peers)
    /\ NoPeer \notin Peers
    /\ \A p \in Peers : p.kind = "chat" => p.id <= CHANNEL_OFFSET
    /\ Clients \in Seq([token : STRING, allowed : SUBSET Int]) /\ validate
    /\ {MAX_LIMIT, WARM_LIMIT, DEFAULT_LIMIT} \subseteq 1..MAX_LIMIT

peerToChatID(p) ==
    IF p.kind = "user" THEN p.id
    ELSE IF p.kind = "chat" THEN -p.id
    ELSE -CHANNEL_OFFSET - p.id

ChatIds == {peerToChatID(p) : p \in Peers}

VARIABLES
    self,       \* Bridge.self is set
    peerCache,  \* Bridge.peerCache
    pc,         \* control state of a request
    req,        \* its operation, token, chat id and limit
    todo,       \* peers its ListChats has still to cache
    page,       \* the chats its list shows; history: the objects that came
    target,     \* the peer it has resolved
    answer,     \* its HTTP status, 0 before
    effects     \* history: peers that Telegram has served a call of it for

localVars == <<req, todo, page, target>>
vars      == <<self, peerCache, pc, localVars, answer, effects>>

NoRequest == [op |-> "none", token |-> "none", chat |-> 0, limit |-> 0]

Init ==
    /\ self = FALSE
    /\ peerCache = [c \in ChatIds |-> NoPeer]
    /\ pc = [r \in Callers |-> "new"]
    /\ req = [r \in Callers |-> NoRequest]
    /\ todo = [r \in Callers |-> {}]
    /\ page = [r \in Callers |-> {}]
    /\ target = [r \in Callers |-> NoPeer]
    /\ answer = [r \in Callers |-> 0]
    /\ effects = [r \in Callers |-> <<>>]

Goto(r, label) == pc' = [pc EXCEPT ![r] = label]
FailCode(r) == IF req[r].op = "write" THEN 502 ELSE 500

\* The handler returns, and most of its locals are gone.
Answer(r, code) ==
    /\ Goto(r, "done")
    /\ answer' = [answer EXCEPT ![r] = code]
    /\ todo' = [todo EXCEPT ![r] = {}]
    /\ target' = [target EXCEPT ![r] = NoPeer]

\* It returns an error, with nothing done.
Fail(r) == Answer(r, FailCode(r)) /\ req' = [req EXCEPT ![r] = NoRequest]

-----------------------------------------------------------------------------
\* Run stores self and calls warmPeerCache.
Login ==
    /\ ~self /\ self' = TRUE
    /\ Goto(Warm, "dialogs")
    /\ req' = [req EXCEPT ![Warm] = [NoRequest EXCEPT !.op = "warm", !.limit = WARM_LIMIT]]
    /\ UNCHANGED <<peerCache, todo, page, target, answer, effects>>

-----------------------------------------------------------------------------
(* withAuth and the checks of the handlers *)

\* The index of the first client with the token, or 0.
TokenToClient(token) ==
    LET with == {i \in 1..Len(Clients) : Clients[i].token = token}
    IN  IF with = {} THEN 0 ELSE CHOOSE i \in with : \A j \in with : i <= j

\* A check against the list of the first client.
FirstCanAccess(token, chat) == Clients[1].allowed = {} \/ chat \in Clients[1].allowed

clientCanAccess(token, chat) ==
    LET allowed == Clients[TokenToClient(token)].allowed
    IN  allowed = {} \/ chat \in allowed

\* What the handler answers at once, or 0 when it goes on.  fault is "path" for a
\* malformed id and "body" for a malformed or empty body.
Verdict(q, fault) ==
    IF TokenToClient(q.token) = 0 THEN 401
    ELSE IF ~self THEN 503
    ELSE IF q.op = "list" THEN 0
    ELSE IF fault = "path" THEN 400
    ELSE IF ~clientCanAccess(q.token, q.chat) THEN 403
    ELSE IF fault = "body" /\ q.op = "write" THEN 400
    ELSE 0

\* A request comes in.
Arrive(r, q, fault) ==
    /\ pc[r] = "new" /\ \A s \in Requests : s < r => pc[s] # "new"
    /\ IF Verdict(q, fault) # 0
       THEN Answer(r, Verdict(q, fault)) /\ UNCHANGED req
       ELSE /\ Goto(r, IF q.op = "list" THEN "dialogs" ELSE "lookup")
            /\ req' = [req EXCEPT ![r] = q]
            /\ UNCHANGED <<todo, target, answer>>
    /\ UNCHANGED <<self, peerCache, page, effects>>

-----------------------------------------------------------------------------
(* resolvePeer *)

\* A lookup that refreshes until the chat is found.
LookupAgain(r) ==
    LET p == peerCache[req[r].chat]
    IN  /\ pc[r] \in {"lookup", "relookup"}
        /\ IF p # NoPeer THEN Goto(r, "call") ELSE Goto(r, "dialogs")
        /\ target' = [target EXCEPT ![r] = p]
        /\ UNCHANGED <<self, peerCache, req, todo, page, answer, effects>>

\* A lookup after the refresh that goes on without a peer.
LookupUnchecked(r) ==
    LET p == peerCache[req[r].chat]
    IN  /\ pc[r] \in {"lookup", "relookup"}
        /\ IF p = NoPeer /\ pc[r] = "lookup" THEN Goto(r, "dialogs") ELSE Goto(r, "call")
        /\ target' = [target EXCEPT ![r] = p]
        /\ UNCHANGED <<self, peerCache, req, todo, page, answer, effects>>

\* The lookups before and after the refresh; after it, an unknown chat is an error.
Lookup(r) ==
    LET p == peerCache[req[r].chat]
    IN  /\ \/ /\ pc[r] \in {"lookup", "relookup"} /\ p # NoPeer
              /\ Goto(r, "call")
              /\ target' = [target EXCEPT ![r] = p]
              /\ UNCHANGED <<req, todo, answer>>
           \/ /\ pc[r] = "lookup" /\ p = NoPeer
              /\ Goto(r, "dialogs")
              /\ UNCHANGED <<req, todo, target, answer>>
           \/ /\ pc[r] = "relookup" /\ p = NoPeer
              /\ Fail(r)
        /\ UNCHANGED <<self, peerCache, page, effects>>

-----------------------------------------------------------------------------
(* ListChats *)

\* resolvePeer asks for the most, a list request for what the device wants.
Limit(r) ==
    LET n == IF req[r].op \in {"list", "warm"} THEN req[r].limit ELSE MAX_LIMIT
    IN  IF n <= 0 \/ n > MAX_LIMIT THEN DEFAULT_LIMIT ELSE n

\* The maps by bare id of some objects; of two with one id the later stays.
Indexes(objects) ==
    {byID \in [{p.id : p \in objects} -> objects] : \A i \in DOMAIN byID : byID[i].id = i}

\* An index that forgets the channels.
IndexGroupsOnly(objects) == Indexes({p \in objects : p.kind = "chat"})

\* Groups and channels share a map.
indexChats(objects) == Indexes({p \in objects : p.kind # "user"})

\* What a dialog of p caches, as a set: the user or chat found under its bare id,
\* whatever kind the chat is.
FoundByID(p, objects, byID) ==
    IF p.kind = "user" THEN objects \cap {p}
    ELSE {byID[i] : i \in DOMAIN byID \cap {p.id}}

\* What a dialog of p caches, as a set: the user or chat found under its bare id,
\* if it is of p's kind.
Found(p, objects, byID) ==
    IF p.kind = "user" THEN objects \cap {p}
    ELSE {q \in {byID[i] : i \in DOMAIN byID \cap {p.id}} : q.kind = p.kind}

\* MessagesGetDialogs answers with up to Limit dialogs, and with the users and
\* chats of these or of others that their messages mention.  A chat that the
\* account was removed from is a dialog without an object.
GetDialogs(r) ==
    /\ pc[r] = "dialogs"
    /\ Goto(r, "caching")
    /\ UNCHANGED <<self, peerCache, req, target, answer, effects>>
    /\ \E S, objects \in SUBSET Peers :
          /\ Cardinality(S) <= Limit(r)
          /\ \E byID \in indexChats(objects) :
                /\ page' = [page EXCEPT ![r] =
                       {[peer   |-> p,
                         kinds  |-> {q.kind : q \in {o \in objects : o.id = p.id}},
                         titled |-> Found(p, objects, byID) # {}] :
                            p \in IF req[r].op = "list" THEN S ELSE {}}]
                /\ todo' = [todo EXCEPT ![r] =
                       UNION {{peerToChatID(p)} \X Found(p, objects, byID) : p \in S}]

\* The call fails, or the request is given up.
DialogsFail(r) ==
    /\ pc[r] = "dialogs"
    /\ Fail(r)
    /\ UNCHANGED <<self, peerCache, page, effects>>

\* cachePeer, for one dialog.
cachePeer(r) ==
    /\ pc[r] = "caching"
    /\ \E e \in todo[r] :
          /\ peerCache' = [peerCache EXCEPT ![e[1]] = e[2]]
          /\ todo' = [todo EXCEPT ![r] = @ \ {e}]
    /\ UNCHANGED <<self, pc, req, page, target, answer, effects>>

\* What the handler shows to its client.
Filtered(r) == {e \in page[r] : clientCanAccess(req[r].token, peerToChatID(e.peer))}

\* ListChats returns: to the handler, which filters the list by the client's own,
\* to Run, or to resolvePeer.
ListReturns(r) ==
    /\ pc[r] = "caching" /\ todo[r] = {}
    /\ \/ /\ req[r].op = "list"
          /\ page' = [page EXCEPT ![r] = Filtered(r)]
          /\ Answer(r, 200)
       \/ /\ req[r].op = "warm"
          /\ Answer(r, 200) /\ UNCHANGED page
       \/ /\ req[r].op \notin {"list", "warm"}
          /\ Goto(r, "relookup") /\ UNCHANGED <<todo, page, target, answer>>
    /\ UNCHANGED <<self, peerCache, req, effects>>

-----------------------------------------------------------------------------
(* GetMessages, SendText, MarkRead *)

\* A call that is repeated when its reply is lost.
CallWithRetry(r) ==
    /\ pc[r] = "call"
    /\ \/ /\ effects' = [effects EXCEPT ![r] = Append(@, target[r])]
          /\ Answer(r, 200) \/ (Len(effects[r]) < 2 /\ UNCHANGED <<pc, answer, todo, target>>)
          /\ UNCHANGED req
       \/ Fail(r) /\ UNCHANGED effects
    /\ UNCHANGED <<self, peerCache, page>>

\* The call of Telegram with the peer: it is served, perhaps with the reply lost,
\* or it fails.
Call(r) ==
    /\ pc[r] = "call"
    /\ \/ /\ effects' = [effects EXCEPT ![r] = Append(@, target[r])]
          /\ Answer(r, 200) \/ Answer(r, FailCode(r))
          /\ UNCHANGED req
       \/ Fail(r) /\ UNCHANGED effects
    /\ UNCHANGED <<self, peerCache, page>>

-----------------------------------------------------------------------------
Queries ==
    [op : {"list"}, token : Tokens, chat : {0}, limit : Limits]
    \cup [op : {"messages", "write"}, token : Tokens, chat : ChatIds, limit : {0}]

Serve(r) ==
    \/ Lookup(r) \/ GetDialogs(r) \/ DialogsFail(r) \/ cachePeer(r) \/ ListReturns(r) \/ Call(r)

Next ==
    \/ Login
    \/ \E r \in Requests, q \in Queries, fault \in {"no", "path", "body"} : Arrive(r, q, fault)
    \/ \E r \in Callers : Serve(r)

Spec == Init /\ [][Next]_vars

-----------------------------------------------------------------------------
\* Types of the variables.
TypeOK ==
    /\ self \in BOOLEAN
    /\ peerCache \in [ChatIds -> Peers \cup {NoPeer}]
    /\ pc \in [Callers -> {"new", "lookup", "dialogs", "caching", "relookup", "call",
                           "ready", "download", "serve", "done"}]
    /\ todo \in [Callers -> SUBSET (ChatIds \X Peers)]
    /\ page \in [Callers -> SUBSET [peer : Peers, kinds : SUBSET Kinds, titled : BOOLEAN]]
    /\ target \in [Callers -> Peers \cup {NoPeer}]
    /\ answer \in [Callers -> {0, 200, 400, 401, 403, 404, 500, 502, 503}]
    /\ effects \in [Callers -> Seq(Peers)]

\* The first client with the token, the one withAuth means, may access the chat.
Permitted(token, chat) ==
    \E i \in 1..Len(Clients) :
        /\ Clients[i].token = token /\ \A j \in 1..i - 1 : Clients[j].token # token
        /\ Clients[i].allowed = {} \/ chat \in Clients[i].allowed

\* What a request reads, sends or marks, it does in the chat it names and its own
\* client may access, whatever other requests put into the cache meanwhile; a list
\* shows only such chats.
EffectsAuthorized ==
    \A r \in Requests :
        /\ \A i \in 1..Len(effects[r]) :
              /\ peerToChatID(effects[r][i]) = req[r].chat
              /\ Permitted(req[r].token, req[r].chat)
        /\ answer[r] = 200 => \A e \in page[r] : Permitted(req[r].token, peerToChatID(e.peer))

\* "Fails fast: no retry queue": no request takes effect twice, one that is
\* answered with 200 took effect, one that is refused did not.
AtMostOnce ==
    \A r \in Requests :
        /\ Len(effects[r]) <= 1
        /\ answer[r] = 200 /\ req[r].op \in {"messages", "write"} => Len(effects[r]) = 1
        /\ answer[r] \in {400, 401, 403, 503} => effects[r] = <<>>

\* "subsequent send/fetch calls can resolve chat IDs without extra lookups": a
\* chat that a device was shown with its title is in the cache for good.
TitledResolves ==
    \A r \in Requests : answer[r] = 200 =>
        \A e \in page[r] : e.titled => peerCache[peerToChatID(e.peer)] = e.peer

\* A chat whose object came with the reply is shown without title, and not cached,
\* only if an object of the other kind of group came under the same bare id.
UntitledHasTwin ==
    \A r \in Requests : \A e \in page[r] :
        ~e.titled /\ e.peer.kind \in e.kinds => {"chat", "channel"} \subseteq e.kinds

=============================================================================
