------------------------------- MODULE Events -------------------------------
(***************************************************************************)
(* The event stream: Telegram updates are dispatched (dispatchMessage,     *)
(* internal/bridge/bridge.go), fanned out by the broker                    *)
(* (internal/bridge/updates.go) and written to WebSocket clients by one    *)
(* handler goroutine per connection (handleEvents, internal/httpapi/ws.go).*)
(*                                                                         *)
(* Publishers are the goroutines of the updates manager that call the      *)
(* update handlers; each calls them one update at a time.  A connection is *)
(* used once: a device that reconnects is another member of Conns.         *)
(***************************************************************************)
EXTENDS Integers, Sequences, FiniteSets

CONSTANTS Conns,         \* WebSocket requests, one handleEvents call each
          NoConn,        \* the absent channel of an unused subscription id
          Publishers,    \* goroutines that deliver updates
          Chats,         \* chat ids
          FirstAllowed,  \* cfg.Clients[0].AllowedChats
          Allowed,       \* AllowedChats of the client behind each connection
          BUF,           \* bufSize of the broker (64)
          MAX_MSG        \* bound on the events of one publisher

Ids == 1..Cardinality(Conns)

ASSUME EventsAssumption ==
    /\ IsFiniteSet(Conns)
    /\ NoConn \notin Conns
    /\ FirstAllowed \subseteq Chats
    /\ Allowed \in [Conns -> SUBSET Chats]
    /\ BUF \in Nat \ {0}
    /\ MAX_MSG \in Nat

VARIABLES
    ppc,        \* publisher: "idle", "rlock" (waits for the read lock), "publishing"
    cur,        \* the event a publisher is publishing
    todo,       \* subscription ids its range over subs has still to visit
    sent,       \* number of events a publisher has built
    discarded,  \* history: chats of incoming messages dropped by chatAllowed
    writer,     \* the goroutine that holds or waits for the broker's write lock
    nextID,     \* broker.nextID
    subs,       \* broker.subs: the connection whose channel an id maps to
    wpc,        \* control state of a handler
    sid,        \* the id its subscription got
    queue,      \* contents of its channel
    closed,     \* its channel was closed
    out,        \* the event it is writing
    cancelled,  \* its ctx was cancelled
    reader,     \* its reader goroutine is running
    peer,       \* the device: "up", "closed" (we are told), "silent" (we are not)
    delivered,  \* history: number of the last event of each publisher written
    heard       \* history: number of the last event of each publisher offered

brokerVars == <<writer, nextID, subs, closed>>
pubVars    == <<ppc, cur, todo, sent, discarded>>
connVars   == <<wpc, sid, out, cancelled, reader, peer, delivered>>
vars       == <<pubVars, brokerVars, connVars, queue, heard>>

Event   == [src : Publishers, n : 1..MAX_MSG, chat : Chats]
NoEvent == [src |-> "none"]

\* Handler states in which its subscription is in the map.
Registered == {"loop", "writing", "pinging", "leaving"}

\* An empty allow-list allows every chat.
Permits(list, chat) == list = {} \/ chat \in list

chatAllowed(chat) == Permits(FirstAllowed, chat)

\* A filter that lets every event through.
EveryEvent(c, ev) == TRUE

eventAllowed(c, ev) == Permits(Allowed[c], ev.chat)

\* Publishers inside the read lock.
Readers == {p \in Publishers : ppc[p] = "publishing"}

-----------------------------------------------------------------------------
Init ==
    /\ ppc = [p \in Publishers |-> "idle"]
    /\ cur = [p \in Publishers |-> NoEvent]
    /\ todo = [p \in Publishers |-> {}]
    /\ sent = [p \in Publishers |-> 0]
    /\ discarded = {}
    /\ writer = NoConn
    /\ nextID = 0
    /\ subs = [id \in Ids |-> NoConn]
    /\ wpc = [c \in Conns |-> "new"]
    /\ sid = [c \in Conns |-> 0]
    /\ queue = [c \in Conns |-> <<>>]
    /\ closed = [c \in Conns |-> FALSE]
    /\ out = [c \in Conns |-> NoEvent]
    /\ cancelled = [c \in Conns |-> FALSE]
    /\ reader = [c \in Conns |-> FALSE]
    /\ peer = [c \in Conns |-> "up"]
    /\ delivered = [c \in Conns |-> [p \in Publishers |-> 0]]
    /\ heard = [c \in Conns |-> [p \in Publishers |-> 0]]

-----------------------------------------------------------------------------
(* The updates manager and Publish *)

\* dispatchMessage on an update that is not an incoming message, or whose chat
\* the first client may not see.
Discard(p, chat, incoming) ==
    /\ ppc[p] = "idle"
    /\ incoming => ~chatAllowed(chat)
    /\ discarded' = IF incoming THEN discarded \cup {chat} ELSE discarded
    /\ UNCHANGED <<ppc, cur, todo, sent, brokerVars, connVars, queue, heard>>

\* dispatchMessage on an incoming message of an allowed chat: build the event
\* and call Publish, which asks for the read lock.
Dispatch(p, chat) ==
    /\ ppc[p] = "idle"
    /\ chatAllowed(chat)
    /\ sent[p] < MAX_MSG
    /\ sent' = [sent EXCEPT ![p] = @ + 1]
    /\ cur' = [cur EXCEPT ![p] = [src |-> p, n |-> sent[p] + 1, chat |-> chat]]
    /\ ppc' = [ppc EXCEPT ![p] = "rlock"]
    /\ UNCHANGED <<todo, discarded, brokerVars, connVars, queue, heard>>

\* RLock: a waiting writer keeps new readers out.
RLock(p) ==
    /\ ppc[p] = "rlock"
    /\ writer = NoConn
    /\ ppc' = [ppc EXCEPT ![p] = "publishing"]
    /\ todo' = [todo EXCEPT ![p] = {id \in Ids : subs[id] # NoConn}]
    /\ UNCHANGED <<cur, sent, discarded, brokerVars, connVars, queue, heard>>

\* A send that ignores the capacity of the channel.
AfterSendUnbounded(c, ev) == Append(queue[c], ev)

\* The channel of c after a non-blocking send.
AfterSend(c, ev) == IF Len(queue[c]) < BUF THEN Append(queue[c], ev) ELSE queue[c]

\* A Publish that gives up at the first subscriber whose buffer is full.
OfferOrReturn(p, id) ==
    LET c    == subs[id]
        full == Len(queue[c]) >= BUF
    IN  /\ ppc[p] = "publishing" /\ id \in todo[p]
        /\ todo' = [todo EXCEPT ![p] = IF full THEN {} ELSE @ \ {id}]
        /\ queue' = [queue EXCEPT ![c] = AfterSend(c, cur[p])]
        /\ heard' = [heard EXCEPT ![c][p] = cur[p].n]
        /\ UNCHANGED <<ppc, cur, sent, discarded, brokerVars, connVars>>

\* A Publish that waits for room in the channel.
OfferBlocking(p, id) ==
    /\ ppc[p] = "publishing" /\ id \in todo[p]
    /\ Len(queue[subs[id]]) < BUF
    /\ todo' = [todo EXCEPT ![p] = @ \ {id}]
    /\ queue' = [queue EXCEPT ![subs[id]] = Append(@, cur[p])]
    /\ heard' = [heard EXCEPT ![subs[id]][p] = cur[p].n]
    /\ UNCHANGED <<ppc, cur, sent, discarded, brokerVars, connVars>>

\* One iteration of the range over subs: send, or drop when the channel is full.
Offer(p, id) ==
    /\ ppc[p] = "publishing" /\ id \in todo[p]
    /\ todo' = [todo EXCEPT ![p] = @ \ {id}]
    /\ queue' = [queue EXCEPT ![subs[id]] = AfterSend(subs[id], cur[p])]
    /\ heard' = [heard EXCEPT ![subs[id]][p] = cur[p].n]
    /\ UNCHANGED <<ppc, cur, sent, discarded, brokerVars, connVars>>

RUnlock(p) ==
    /\ ppc[p] = "publishing" /\ todo[p] = {}
    /\ ppc' = [ppc EXCEPT ![p] = "idle"]
    /\ cur' = [cur EXCEPT ![p] = NoEvent]
    /\ UNCHANGED <<todo, sent, discarded, brokerVars, connVars, queue, heard>>

-----------------------------------------------------------------------------
(* handleEvents: subscription *)

Goto(c, label) == wpc' = [wpc EXCEPT ![c] = label]

\* websocket.Accept succeeds or fails.
Accept(c) ==
    /\ wpc[c] = "new"
    /\ Goto(c, "accepted") \/ Goto(c, "done")
    /\ UNCHANGED <<pubVars, brokerVars, sid, out, cancelled, reader, peer, delivered,
                   queue, heard>>

\* An id taken from the size of the map.
SizeAsID(c) ==
    /\ wpc[c] = "accepted"
    /\ sid' = [sid EXCEPT ![c] = Cardinality({id \in Ids : subs[id] # NoConn}) + 1]
    /\ Goto(c, "joining")
    /\ UNCHANGED <<pubVars, brokerVars, out, cancelled, reader, peer, delivered, queue, heard>>

\* nextID.Add(1), before the lock is taken.
TakeID(c) ==
    /\ wpc[c] = "accepted"
    /\ nextID' = nextID + 1
    /\ sid' = [sid EXCEPT ![c] = nextID + 1]
    /\ Goto(c, "joining")
    /\ UNCHANGED <<pubVars, writer, subs, closed, out, cancelled, reader, peer, delivered,
                   queue, heard>>

\* mu.Lock() is called: no reader gets in any more.
Lock(c) ==
    /\ wpc[c] \in {"joining", "leaving"}
    /\ writer = NoConn
    /\ writer' = c
    /\ UNCHANGED <<pubVars, nextID, subs, closed, connVars, queue, heard>>

\* The critical section of Subscribe, once the last reader has left; then the
\* handler starts its reader goroutine and enters its loop.
Subscribe(c) ==
    /\ wpc[c] = "joining" /\ writer = c /\ Readers = {}
    /\ subs' = [subs EXCEPT ![sid[c]] = c]
    /\ writer' = NoConn
    /\ reader' = [reader EXCEPT ![c] = TRUE]
    /\ heard' = [heard EXCEPT ![c] =
                    [p \in Publishers |-> IF ppc[p] = "rlock" THEN sent[p] - 1 ELSE sent[p]]]
    /\ Goto(c, "loop")
    /\ UNCHANGED <<pubVars, nextID, closed, sid, out, cancelled, peer, delivered, queue>>

-----------------------------------------------------------------------------
(* handleEvents: the select loop *)

CtxDone(c) ==
    /\ wpc[c] = "loop" /\ cancelled[c]
    /\ Goto(c, "leaving")
    /\ UNCHANGED <<pubVars, brokerVars, sid, out, cancelled, reader, peer, delivered,
                   queue, heard>>

\* A receive that leaves the event in the channel.
ReceivePeek(c) ==
    /\ wpc[c] = "loop" /\ queue[c] # <<>>
    /\ IF eventAllowed(c, Head(queue[c]))
       THEN Goto(c, "writing") /\ out' = [out EXCEPT ![c] = Head(queue[c])]
            /\ queue' = queue
       ELSE UNCHANGED <<wpc, out>> /\ queue' = [queue EXCEPT ![c] = Tail(@)]
    /\ UNCHANGED <<pubVars, brokerVars, sid, cancelled, reader, peer, delivered, heard>>

\* An event from the channel is written when the device may see it, else skipped.
Receive(c) ==
    /\ wpc[c] = "loop" /\ queue[c] # <<>>
    /\ queue' = [queue EXCEPT ![c] = Tail(@)]
    /\ IF eventAllowed(c, Head(queue[c]))
       THEN Goto(c, "writing") /\ out' = [out EXCEPT ![c] = Head(queue[c])]
       ELSE UNCHANGED <<wpc, out>>
    /\ UNCHANGED <<pubVars, brokerVars, sid, cancelled, reader, peer, delivered, heard>>

PingTick(c) ==
    /\ wpc[c] = "loop"
    /\ Goto(c, "pinging")
    /\ UNCHANGED <<pubVars, brokerVars, sid, out, cancelled, reader, peer, delivered,
                   queue, heard>>

\* writeEvent succeeds.  A device that is silent or gone is noticed only when buffers
\* fill up, and a write may get through before it sees that ctx has ended.
WriteDone(c) ==
    /\ wpc[c] = "writing"
    /\ delivered' = [delivered EXCEPT ![c][out[c].src] = out[c].n]
    /\ out' = [out EXCEPT ![c] = NoEvent]
    /\ Goto(c, "loop")
    /\ UNCHANGED <<pubVars, brokerVars, sid, cancelled, reader, peer, queue, heard>>

\* writeEvent fails: connection lost, ctx cancelled, or ten seconds have passed.
WriteFail(c) ==
    /\ wpc[c] = "writing"
    /\ out' = [out EXCEPT ![c] = NoEvent]
    /\ Goto(c, "leaving")
    /\ UNCHANGED <<pubVars, brokerVars, sid, cancelled, reader, peer, delivered, queue, heard>>

Pong(c) ==
    /\ wpc[c] = "pinging" /\ peer[c] = "up" /\ ~cancelled[c]
    /\ Goto(c, "loop")
    /\ UNCHANGED <<pubVars, brokerVars, sid, out, cancelled, reader, peer, delivered,
                   queue, heard>>

\* A failed ping that is only logged.
PingIgnored(c) ==
    /\ wpc[c] = "pinging"
    /\ Goto(c, "loop")
    /\ UNCHANGED <<pubVars, brokerVars, sid, out, cancelled, reader, peer, delivered,
                   queue, heard>>

\* No pong within ten seconds.
PingFail(c) ==
    /\ wpc[c] = "pinging"
    /\ Goto(c, "leaving")
    /\ UNCHANGED <<pubVars, brokerVars, sid, out, cancelled, reader, peer, delivered,
                   queue, heard>>

-----------------------------------------------------------------------------
(* handleEvents: the way out *)

\* What the critical section of the unsubscribe function does for id.
RemoveAndClose(c) ==
    IF subs[sid[c]] # NoConn
    THEN /\ subs' = [subs EXCEPT ![sid[c]] = NoConn]
         /\ closed' = [closed EXCEPT ![subs[sid[c]]] = TRUE]
    ELSE UNCHANGED <<subs, closed>>

\* An unsubscribe that does not take the lock.
UnsubscribeUnlocked(c) ==
    /\ wpc[c] = "leaving"
    /\ RemoveAndClose(c)
    /\ Goto(c, "unsubscribed")
    /\ writer' = IF writer = c THEN NoConn ELSE writer
    /\ UNCHANGED <<pubVars, nextID, sid, out, cancelled, reader, peer, delivered, queue, heard>>

\* The deferred unsub().
Unsubscribe(c) ==
    /\ wpc[c] = "leaving" /\ writer = c /\ Readers = {}
    /\ RemoveAndClose(c)
    /\ Goto(c, "unsubscribed")
    /\ writer' = NoConn
    /\ UNCHANGED <<pubVars, nextID, sid, out, cancelled, reader, peer, delivered, queue, heard>>

\* The deferred cancel() and conn.CloseNow().
Return(c) ==
    /\ wpc[c] = "unsubscribed"
    /\ cancelled' = [cancelled EXCEPT ![c] = TRUE]
    /\ peer' = [peer EXCEPT ![c] = "closed"]
    /\ Goto(c, "done")
    /\ UNCHANGED <<pubVars, brokerVars, sid, out, reader, delivered, queue, heard>>

\* The reader goroutine: conn.Read fails, it cancels the ctx and ends.
ReadFail(c) ==
    /\ reader[c]
    /\ peer[c] = "closed" \/ cancelled[c]
    /\ cancelled' = [cancelled EXCEPT ![c] = TRUE]
    /\ reader' = [reader EXCEPT ![c] = FALSE]
    /\ UNCHANGED <<pubVars, brokerVars, wpc, sid, out, peer, delivered, queue, heard>>

\* The device closes the connection, or vanishes without a word.
PeerLost(c, how) ==
    /\ wpc[c] \notin {"new", "done"} /\ peer[c] = "up"
    /\ peer' = [peer EXCEPT ![c] = how]
    /\ UNCHANGED <<pubVars, brokerVars, wpc, sid, out, cancelled, reader, delivered,
                   queue, heard>>

-----------------------------------------------------------------------------
Publish(p) == RLock(p) \/ (\E id \in Ids : Offer(p, id)) \/ RUnlock(p)

Handler(c) ==
    \/ Accept(c) \/ TakeID(c) \/ Lock(c) \/ Subscribe(c)
    \/ CtxDone(c) \/ Receive(c) \/ PingTick(c)
    \/ WriteDone(c) \/ WriteFail(c) \/ Pong(c) \/ PingFail(c)
    \/ Unsubscribe(c) \/ Return(c)

Next ==
    \/ \E p \in Publishers, chat \in Chats, incoming \in BOOLEAN : Discard(p, chat, incoming)
    \/ \E p \in Publishers, chat \in Chats : Dispatch(p, chat)
    \/ \E p \in Publishers : Publish(p)
    \/ \E c \in Conns : Handler(c) \/ ReadFail(c)
    \/ \E c \in Conns, how \in {"closed", "silent"} : PeerLost(c, how)

Spec == Init /\ [][Next]_vars

(***************************************************************************)
(* Goroutines that can run do run; select picks at random among its ready  *)
(* cases, so neither a cancelled ctx nor a due ping is passed over for     *)
(* ever.  Nothing is assumed of devices and of Telegram.                   *)
(***************************************************************************)
Fairness ==
    /\ \A p \in Publishers : WF_vars(Publish(p))
    /\ \A c \in Conns :
          /\ WF_vars(Handler(c))
          /\ WF_vars(ReadFail(c))
          /\ SF_vars(CtxDone(c))
          /\ SF_vars(PingTick(c))

FairSpec == Spec /\ Fairness

-----------------------------------------------------------------------------
\* Types of the variables; in particular no channel holds more than its capacity.
TypeOK ==
    /\ ppc \in [Publishers -> {"idle", "rlock", "publishing"}]
    /\ cur \in [Publishers -> Event \cup {NoEvent}]
    /\ todo \in [Publishers -> SUBSET Ids]
    /\ sent \in [Publishers -> 0..MAX_MSG]
    /\ discarded \subseteq Chats
    /\ writer \in Conns \cup {NoConn}
    /\ nextID \in 0..Cardinality(Conns)
    /\ subs \in [Ids -> Conns \cup {NoConn}]
    /\ wpc \in [Conns -> Registered \cup {"new", "accepted", "joining", "unsubscribed", "done"}]
    /\ sid \in [Conns -> Ids \cup {0}]
    /\ queue \in [Conns -> Seq(Event)]
    /\ \A c \in Conns : Len(queue[c]) <= BUF
    /\ closed \in [Conns -> BOOLEAN]
    /\ out \in [Conns -> Event \cup {NoEvent}]
    /\ cancelled \in [Conns -> BOOLEAN]
    /\ reader \in [Conns -> BOOLEAN]
    /\ peer \in [Conns -> {"up", "closed", "silent"}]
    /\ delivered \in [Conns -> [Publishers -> 0..MAX_MSG]]
    /\ heard \in [Conns -> [Publishers -> 0..MAX_MSG]]

\* Publish never sends on a closed channel, which would panic and take the
\* daemon down: whatever id a running range has still to visit is still in the
\* map and its channel is open.
NoSendOnClosed ==
    \A p \in Publishers : \A id \in todo[p] : subs[id] # NoConn /\ ~closed[subs[id]]

\* The map holds the subscriptions of the running handlers and nothing else:
\* nobody takes over another's id, no handler is left without its channel (the
\* !ok branch of its select is dead), none leaves its channel behind.
SubscriptionsMatchHandlers ==
    /\ \A c \in Conns : wpc[c] \in Registered => subs[sid[c]] = c /\ ~closed[c]
    /\ \A id \in Ids : subs[id] # NoConn => wpc[subs[id]] \in Registered /\ sid[subs[id]] = id

\* The number of the last event of p that Publish has finished with, as far as
\* the subscription id is concerned.
Finished(p, id) ==
    IF ppc[p] = "rlock" \/ (ppc[p] = "publishing" /\ id \in todo[p])
    THEN sent[p] - 1 ELSE sent[p]

\* A slow device costs no other device an event: every event published since a
\* handler subscribed was offered to its channel, so only its own full buffer can
\* have lost it one.
SlowCostsNobodyElse ==
    \A c \in Conns, p \in Publishers :
        wpc[c] \in Registered => heard[c][p] = Finished(p, sid[c])

\* The events of one publisher reach a device in the order they were published
\* and at most once.
InOrder ==
    \A c \in Conns :
        /\ \A i, j \in 1..Len(queue[c]) :
              i < j /\ queue[c][i].src = queue[c][j].src => queue[c][i].n < queue[c][j].n
        /\ \A i \in 1..Len(queue[c]) :
              LET e == queue[c][i]
              IN  /\ delivered[c][e.src] < e.n
                  /\ out[c] # NoEvent /\ out[c].src = e.src => out[c].n < e.n
        /\ out[c] # NoEvent => delivered[c][out[c].src] < out[c].n

\* A device is sent events only of chats that both the first client's list (in
\* dispatchMessage) and its own list (in handleEvents) permit.
WrittenIsAllowed ==
    \A c \in Conns : out[c] # NoEvent =>
        Permits(FirstAllowed, out[c].chat) /\ Permits(Allowed[c], out[c].chat)

\* Publish always returns, whatever the devices do: it "drops events for slow
\* consumers rather than blocking the telegram update loop".
PublishReturns == \A p \in Publishers : ppc[p] # "idle" ~> ppc[p] = "idle"

\* A device that is gone, even without a word, is eventually unsubscribed, so
\* the broker does not collect dead subscribers.
GoneIsUnsubscribed ==
    \A c \in Conns : wpc[c] # "new" /\ peer[c] # "up" ~> wpc[c] = "done"

\* "WebSocket event stream with per-device allow-lists" (README.md, Status): an
\* incoming message of a chat that some device's own list permits is not
\* discarded before that device's list is consulted.
PerDeviceAllowLists ==
    \A c \in Conns, chat \in discarded : ~Permits(Allowed[c], chat)

-----------------------------------------------------------------------------
(* The broadcast that the broker and the handlers implement. *)

Standing(c) ==
    IF wpc[c] = "leaving" THEN "failing"
    ELSE IF wpc[c] \in Registered THEN "in"
    ELSE IF wpc[c] \in {"unsubscribed", "done"} /\ sid[c] # 0 THEN "gone"
    ELSE "out"

\* The event that is being written, and those in the channel.
Waiting(c) ==
    IF wpc[c] \notin Registered THEN <<>>
    ELSE IF out[c] = NoEvent THEN queue[c] ELSE <<out[c]>> \o queue[c]

Begun   == [p \in Publishers |-> ppc[p] = "publishing"]
Owed    == [p \in Publishers |-> {subs[id] : id \in todo[p]}]
Joined  == [c \in Conns |-> Standing(c)]
Boxes   == [c \in Conns |-> Waiting(c)]
Visible ==
    [c \in Conns |-> {chat \in Chats : Permits(FirstAllowed, chat) /\ Permits(Allowed[c], chat)}]

Abstract == INSTANCE Broadcast WITH
    Devices <- Conns, Sources <- Publishers, CAPACITY <- BUF,
    emitted <- sent, current <- cur, begun <- Begun, owed <- Owed,
    joined  <- Joined, box <- Boxes, last <- delivered

\* The stream is a best-effort broadcast (Broadcast): an event is put once before
\* everybody who is subscribed when Publish takes the lock, and lost to a device
\* only by its own full channel; what waits is written in order, once, and skipped
\* only if it is not for the device, until the connection fails.
ImplementsBroadcast == Abstract!Spec

=============================================================================
