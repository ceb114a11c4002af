---------------------------- MODULE EventsProofs ----------------------------
(***************************************************************************)
(* The broker's map agrees with the handlers, and Publish never sends on a *)
(* closed channel, for any set of connections, publishers and chats.       *)
(***************************************************************************)
EXTENDS Events, FiniteSetTheorems, TLAPS

\* Types of the variables that the broker's safety depends on.
BrokerTypes ==
    /\ ppc \in [Publishers -> {"idle", "rlock", "publishing"}]
    /\ todo \in [Publishers -> SUBSET Ids]
    /\ nextID \in Nat
    /\ subs \in [Ids -> Conns \cup {NoConn}]
    /\ wpc \in [Conns -> Registered \cup {"new", "accepted", "joining", "unsubscribed", "done"}]
    /\ sid \in [Conns -> Nat]
    /\ closed \in [Conns -> BOOLEAN]

\* Connections that have taken an id.
Numbered == {c \in Conns : sid[c] # 0}

\* Ids are handed out in turn and never twice: nextID counts the handlers that
\* have one.
IdsAreUnique ==
    /\ nextID = Cardinality(Numbered)
    /\ \A c \in Conns : sid[c] <= nextID
    /\ \A c, d \in Conns : sid[c] = sid[d] /\ sid[c] # 0 => c = d
    /\ \A c \in Conns : wpc[c] \in {"new", "accepted"} => sid[c] = 0
    /\ \A c \in Conns : wpc[c] \in Registered \cup {"joining"} => sid[c] # 0

\* Only unsubscribe closes a channel.
ClosedOnWayOut == \A c \in Conns : closed[c] => wpc[c] \in {"unsubscribed", "done"}

\* A range over subs is under way only inside the read lock.
RangesHoldLock == \A p \in Publishers : todo[p] # {} => ppc[p] = "publishing"

Inv ==
    /\ BrokerTypes
    /\ IdsAreUnique
    /\ ClosedOnWayOut
    /\ RangesHoldLock
    /\ SubscriptionsMatchHandlers
    /\ NoSendOnClosed

\* There is an id for every connection, so that the map has a place for each.
LEMMA IdsSuffice ==
    ASSUME Inv
    PROVE  /\ Cardinality(Conns) \in Nat
           /\ nextID <= Cardinality(Conns)
           /\ \A c \in Conns : sid[c] # 0 => sid[c] \in Ids
<1>1. IsFiniteSet(Conns) /\ Cardinality(Conns) \in Nat
    BY EventsAssumption, FS_CardinalityType
<1>2. Numbered \subseteq Conns
    BY DEF Numbered
<1>3. Cardinality(Numbered) <= Cardinality(Conns)
    BY <1>1, <1>2, FS_Subset
<1>4. QED
    BY <1>1, <1>3 DEF Inv, IdsAreUnique, BrokerTypes, Ids

\* No handler has an id, and the map is empty, before the first request.
LEMMA InitInv == Init => Inv
<1> SUFFICES ASSUME Init
             PROVE  Inv
    OBVIOUS
<1>1. BrokerTypes
    BY DEF Init, BrokerTypes
<1>2. IdsAreUnique
    <2>1. Numbered = {}
        BY DEF Init, Numbered
    <2>2. Cardinality(Numbered) = 0
        BY <2>1, FS_EmptySet
    <2>3. QED
        BY <2>2 DEF Init, IdsAreUnique, Registered
<1>3. ClosedOnWayOut /\ RangesHoldLock
    BY DEF Init, ClosedOnWayOut, RangesHoldLock
<1>4. SubscriptionsMatchHandlers /\ NoSendOnClosed
    BY DEF Init, SubscriptionsMatchHandlers, NoSendOnClosed, Registered
<1>5. QED
    BY <1>1, <1>2, <1>3, <1>4 DEF Inv

\* What a publisher does reaches neither the map nor the handlers, and it starts a
\* range only over what the map holds.
LEMMA PublisherInv ==
    ASSUME Inv, NEW p \in Publishers,
           UNCHANGED <<brokerVars, wpc, sid>>,
           ppc' \in [Publishers -> {"idle", "rlock", "publishing"}],
           \/ UNCHANGED todo /\ todo[p] = {}
           \/ /\ ppc[p] = "rlock" /\ ppc'[p] = "publishing"
              /\ todo' = [todo EXCEPT ![p] = {id \in Ids : subs[id] # NoConn}]
           \/ \E id \in Ids : todo' = [todo EXCEPT ![p] = @ \ {id}] /\ UNCHANGED ppc,
           \A q \in Publishers \ {p} : ppc'[q] = ppc[q]
    PROVE  Inv'
<1>1. BrokerTypes'
    BY DEF Inv, BrokerTypes, brokerVars
<1>2. IdsAreUnique'
    BY DEF Inv, IdsAreUnique, brokerVars, Numbered
<1>3. ClosedOnWayOut'
    BY DEF Inv, ClosedOnWayOut, brokerVars
<1>4. RangesHoldLock'
    BY DEF Inv, RangesHoldLock, BrokerTypes
<1>5. SubscriptionsMatchHandlers'
    BY DEF Inv, SubscriptionsMatchHandlers, brokerVars
<1>6. \A id \in Ids : subs[id] # NoConn => ~closed[subs[id]]
    BY DEF Inv, SubscriptionsMatchHandlers, BrokerTypes
<1>7. NoSendOnClosed'
    BY <1>6 DEF Inv, NoSendOnClosed, brokerVars, BrokerTypes
<1>8. QED
    BY <1>1, <1>2, <1>3, <1>4, <1>5, <1>7 DEF Inv

\* A handler that goes from one state to another of the same standing, towards the
\* broker, leaves the invariant alone.
LEMMA MoveInv ==
    ASSUME Inv, NEW c \in Conns, NEW label,
           UNCHANGED <<ppc, todo, nextID, subs, closed, sid>>, Goto(c, label),
           \/ wpc[c] \in Registered /\ label \in Registered
           \/ wpc[c] = "new" /\ label \in {"accepted", "done"}
           \/ wpc[c] = "unsubscribed" /\ label = "done"
    PROVE  Inv'
<1>1. BrokerTypes'
    BY DEF Inv, BrokerTypes, Goto, Registered
<1>2. IdsAreUnique'
    BY DEF Inv, BrokerTypes, IdsAreUnique, Goto, Numbered, Registered
<1>3. ClosedOnWayOut'
    BY DEF Inv, BrokerTypes, ClosedOnWayOut, Goto, Registered
<1>4. RangesHoldLock' /\ NoSendOnClosed'
    BY DEF Inv, RangesHoldLock, NoSendOnClosed
<1>5. SubscriptionsMatchHandlers'
    BY DEF Inv, BrokerTypes, SubscriptionsMatchHandlers, Goto, Registered
<1>6. QED
    BY <1>1, <1>2, <1>3, <1>4, <1>5 DEF Inv

\* A step that touches none of these variables.
LEMMA FrameInv ==
    ASSUME Inv, UNCHANGED <<ppc, todo, nextID, subs, closed, wpc, sid>>
    PROVE  Inv'
BY DEF Inv, BrokerTypes, IdsAreUnique, Numbered, ClosedOnWayOut, RangesHoldLock,
       SubscriptionsMatchHandlers, NoSendOnClosed

\* nextID.Add(1) gives c an id that nobody has.
LEMMA TakeIDInv ==
    ASSUME Inv, NEW c \in Conns, TakeID(c)
    PROVE  Inv'
<1>1. sid[c] = 0 /\ wpc[c] = "accepted" /\ c \notin Numbered
    BY DEF Inv, IdsAreUnique, TakeID, Numbered
<1>2. BrokerTypes'
    BY DEF Inv, BrokerTypes, TakeID, Goto, pubVars, Registered
<1>3. IdsAreUnique'
    <2>1. Numbered' = Numbered \cup {c}
        BY DEF Inv, BrokerTypes, Numbered, TakeID
    <2>2. IsFiniteSet(Numbered)
        BY EventsAssumption, FS_Subset DEF Numbered
    <2>3. Cardinality(Numbered') = Cardinality(Numbered) + 1
        BY <1>1, <2>1, <2>2, FS_AddElement
    <2>4. (nextID = Cardinality(Numbered))'
        BY <2>3 DEF Inv, IdsAreUnique, TakeID
    <2>5. \A d \in Conns : d # c => sid'[d] = sid[d] /\ wpc'[d] = wpc[d]
        BY DEF Inv, BrokerTypes, TakeID, Goto
    <2>6. sid'[c] = nextID + 1 /\ wpc'[c] = "joining" /\ nextID' = nextID + 1
        BY DEF Inv, BrokerTypes, TakeID, Goto
    <2>7. \A d \in Conns : sid'[d] <= nextID'
        BY <2>5, <2>6 DEF Inv, BrokerTypes, IdsAreUnique
    <2>8. \A d, e \in Conns : sid'[d] = sid'[e] /\ sid'[d] # 0 => d = e
        BY <2>5, <2>6 DEF Inv, BrokerTypes, IdsAreUnique
    <2>9. \A d \in Conns : wpc'[d] \in {"new", "accepted"} => sid'[d] = 0
        BY <2>5, <2>6 DEF Inv, BrokerTypes, IdsAreUnique
    <2>10. \A d \in Conns : wpc'[d] \in Registered \cup {"joining"} => sid'[d] # 0
        BY <2>5, <2>6 DEF Inv, BrokerTypes, IdsAreUnique
    <2>11. QED
        BY <2>4, <2>7, <2>8, <2>9, <2>10, Zenon DEF IdsAreUnique
<1>4. ClosedOnWayOut'
    BY <1>1 DEF Inv, BrokerTypes, ClosedOnWayOut, TakeID, Goto
<1>5. RangesHoldLock' /\ NoSendOnClosed'
    BY DEF Inv, RangesHoldLock, NoSendOnClosed, TakeID, pubVars
<1>6. SubscriptionsMatchHandlers'
    BY <1>1 DEF Inv, BrokerTypes, SubscriptionsMatchHandlers, TakeID, Goto, Registered
<1>7. QED
    BY <1>2, <1>3, <1>4, <1>5, <1>6 DEF Inv

\* The critical section of Subscribe runs while no range is under way.
LEMMA SubscribeInv ==
    ASSUME Inv, NEW c \in Conns, Subscribe(c)
    PROVE  Inv'
<1>1. sid[c] \in Ids /\ wpc[c] = "joining" /\ ~closed[c]
    BY IdsSuffice DEF Inv, IdsAreUnique, ClosedOnWayOut, Subscribe
<1>2. \A p \in Publishers : todo'[p] = {}
    BY DEF Inv, RangesHoldLock, Subscribe, Readers, pubVars
<1>3. BrokerTypes'
    BY DEF Inv, BrokerTypes, Subscribe, Goto, pubVars, Registered
<1>4. IdsAreUnique'
    BY <1>1 DEF Inv, BrokerTypes, IdsAreUnique, Numbered, Subscribe, Goto, Registered
<1>5. ClosedOnWayOut'
    BY <1>1 DEF Inv, BrokerTypes, ClosedOnWayOut, Subscribe, Goto
<1>6. RangesHoldLock' /\ NoSendOnClosed'
    BY <1>2 DEF RangesHoldLock, NoSendOnClosed
<1>7. SubscriptionsMatchHandlers'
    <2>1. \A d \in Conns : d # c => wpc'[d] = wpc[d]
        BY DEF Inv, BrokerTypes, Subscribe, Goto
    <2>2. wpc'[c] = "loop" /\ UNCHANGED <<sid, closed>>
        BY DEF Inv, BrokerTypes, Subscribe, Goto
    <2>3. subs'[sid[c]] = c /\ \A id \in Ids : id # sid[c] => subs'[id] = subs[id]
        BY <1>1 DEF Inv, BrokerTypes, Subscribe
    <2>4. \A d \in Conns : d # c /\ wpc[d] \in Registered => sid[d] \in Ids /\ sid[d] # sid[c]
        BY <1>1, IdsSuffice DEF Inv, IdsAreUnique
    <2>5. \A d \in Conns : wpc'[d] \in Registered => subs'[sid'[d]] = d /\ ~closed'[d]
        BY <1>1, <2>1, <2>2, <2>3, <2>4 DEF Inv, SubscriptionsMatchHandlers
    <2>6. \A id \in Ids : subs[id] # NoConn => subs[id] \in Conns /\ subs[id] # c
        BY <1>1 DEF Inv, BrokerTypes, SubscriptionsMatchHandlers, Registered
    <2>7. \A id \in Ids : subs'[id] # NoConn =>
                wpc'[subs'[id]] \in Registered /\ sid'[subs'[id]] = id
        <3> SUFFICES ASSUME NEW id \in Ids, subs'[id] # NoConn
                     PROVE  wpc'[subs'[id]] \in Registered /\ sid'[subs'[id]] = id
            OBVIOUS
        <3>1. CASE id = sid[c]
            BY <2>2, <2>3, <3>1 DEF Registered
        <3>2. CASE id # sid[c]
            BY <2>1, <2>2, <2>3, <2>6, <3>2 DEF Inv, SubscriptionsMatchHandlers
        <3>3. QED
            BY <3>1, <3>2
    <2>8. QED
        BY <2>5, <2>7 DEF SubscriptionsMatchHandlers
<1>8. QED
    BY <1>3, <1>4, <1>5, <1>6, <1>7 DEF Inv

\* So does that of unsubscribe, which closes the handler's own channel only.
LEMMA UnsubscribeInv ==
    ASSUME Inv, NEW c \in Conns, Unsubscribe(c)
    PROVE  Inv'
<1>1. sid[c] \in Ids /\ wpc[c] = "leaving" /\ subs[sid[c]] = c /\ c # NoConn
    BY IdsSuffice, EventsAssumption
    DEF Inv, IdsAreUnique, SubscriptionsMatchHandlers, Unsubscribe, Registered
<1>2. /\ subs' = [subs EXCEPT ![sid[c]] = NoConn]
      /\ closed' = [closed EXCEPT ![c] = TRUE]
      /\ wpc' = [wpc EXCEPT ![c] = "unsubscribed"]
      /\ UNCHANGED <<sid, nextID, todo, ppc>>
    BY <1>1 DEF Unsubscribe, RemoveAndClose, Goto, pubVars
<1>3. \A p \in Publishers : todo'[p] = {}
    BY DEF Inv, RangesHoldLock, Unsubscribe, Readers, pubVars
<1>4. BrokerTypes'
    BY <1>2 DEF Inv, BrokerTypes, Registered
<1>5. IdsAreUnique'
    BY <1>2 DEF Inv, BrokerTypes, IdsAreUnique, Numbered, Registered
<1>6. ClosedOnWayOut'
    BY <1>2 DEF Inv, BrokerTypes, ClosedOnWayOut
<1>7. RangesHoldLock' /\ NoSendOnClosed'
    BY <1>3 DEF RangesHoldLock, NoSendOnClosed
<1>8. SubscriptionsMatchHandlers'
    <2>1. \A d \in Conns : d # c /\ wpc[d] \in Registered => sid[d] \in Ids /\ sid[d] # sid[c]
        BY <1>1, IdsSuffice DEF Inv, IdsAreUnique, Registered
    <2>2. \A d \in Conns : wpc'[d] \in Registered => subs'[sid'[d]] = d /\ ~closed'[d]
        BY <1>2, <2>1 DEF Inv, BrokerTypes, SubscriptionsMatchHandlers, Registered
    <2>3. \A id \in Ids : subs'[id] # NoConn =>
                wpc'[subs'[id]] \in Registered /\ sid'[subs'[id]] = id
        BY <1>1, <1>2 DEF Inv, BrokerTypes, SubscriptionsMatchHandlers
    <2>4. QED
        BY <2>2, <2>3 DEF SubscriptionsMatchHandlers
<1>9. QED
    BY <1>4, <1>5, <1>6, <1>7, <1>8 DEF Inv

\* Every step of a publisher, a handler or a device keeps the invariant.
LEMMA NextInv == Inv /\ [Next]_vars => Inv'
<1> SUFFICES ASSUME Inv, [Next]_vars
             PROVE  Inv'
    OBVIOUS
<1> USE DEF brokerVars, pubVars, connVars
<1>1. ASSUME NEW p \in Publishers, NEW chat \in Chats, NEW incoming \in BOOLEAN,
             Discard(p, chat, incoming)
      PROVE  Inv'
    BY <1>1, FrameInv DEF Discard
<1>2. ASSUME NEW p \in Publishers, NEW chat \in Chats, Dispatch(p, chat)
      PROVE  Inv'
    <2>1. todo[p] = {}
        BY <1>2 DEF Inv, RangesHoldLock, Dispatch
    <2>2. \A q \in Publishers \ {p} : ppc'[q] = ppc[q]
        BY <1>2 DEF Inv, BrokerTypes, Dispatch
    <2>3. ppc' \in [Publishers -> {"idle", "rlock", "publishing"}]
        BY <1>2 DEF Inv, BrokerTypes, Dispatch
    <2>4. QED
        BY <1>2, <2>1, <2>2, <2>3, PublisherInv DEF Dispatch
<1>3. ASSUME NEW p \in Publishers, Publish(p)
      PROVE  Inv'
    <2> ppc \in [Publishers -> {"idle", "rlock", "publishing"}]
        BY DEF Inv, BrokerTypes
    <2>1. CASE RLock(p)
        <3>1. /\ ppc'[p] = "publishing"
              /\ \A q \in Publishers \ {p} : ppc'[q] = ppc[q]
              /\ ppc' \in [Publishers -> {"idle", "rlock", "publishing"}]
            BY <2>1 DEF RLock
        <3>2. QED
            BY <2>1, <3>1, PublisherInv DEF RLock
    <2>2. CASE \E id \in Ids : Offer(p, id)
        BY <2>2, PublisherInv DEF Offer
    <2>3. CASE RUnlock(p)
        <3>1. /\ \A q \in Publishers \ {p} : ppc'[q] = ppc[q]
              /\ ppc' \in [Publishers -> {"idle", "rlock", "publishing"}]
            BY <2>3 DEF RUnlock
        <3>2. QED
            BY <2>3, <3>1, PublisherInv DEF RUnlock
    <2>4. QED
        BY <1>3, <2>1, <2>2, <2>3 DEF Publish
<1>4. ASSUME NEW c \in Conns, Handler(c)
      PROVE  Inv'
    <2>1. CASE Accept(c)
        BY <2>1, MoveInv DEF Accept
    <2>2. CASE TakeID(c)
        BY <2>2, TakeIDInv
    <2>3. CASE Lock(c)
        BY <2>3, FrameInv DEF Lock
    <2>4. CASE Subscribe(c)
        BY <2>4, SubscribeInv
    <2>5. CASE CtxDone(c) \/ PingTick(c) \/ Pong(c) \/ PingFail(c)
        BY <2>5, MoveInv DEF CtxDone, PingTick, Pong, PingFail, Registered
    <2>6. CASE Receive(c)
        BY <2>6, MoveInv, FrameInv DEF Receive, Registered
    <2>7. CASE WriteDone(c) \/ WriteFail(c)
        BY <2>7, MoveInv DEF WriteDone, WriteFail, Registered
    <2>8. CASE Unsubscribe(c)
        BY <2>8, UnsubscribeInv
    <2>9. CASE Return(c)
        BY <2>9, MoveInv DEF Return
    <2>10. QED
        BY <1>4, <2>1, <2>2, <2>3, <2>4, <2>5, <2>6, <2>7, <2>8, <2>9 DEF Handler
<1>5. ASSUME NEW c \in Conns, ReadFail(c)
      PROVE  Inv'
    BY <1>5, FrameInv DEF ReadFail
<1>6. ASSUME NEW c \in Conns, NEW how, PeerLost(c, how)
      PROVE  Inv'
    BY <1>6, FrameInv DEF PeerLost
<1>7. CASE UNCHANGED vars
    BY <1>7, FrameInv DEF vars
<1>8. QED
    BY <1>1, <1>2, <1>3, <1>4, <1>5, <1>6, <1>7 DEF Next

\* The broker's map, the ids and the locks stay consistent in every interleaving.
THEOREM EventsInvariant == Spec => []Inv
BY InitInv, NextInv, PTL DEF Spec

\* Publish never panics on a channel that a leaving handler has closed.
THEOREM EventsNoSendOnClosed == Spec => []NoSendOnClosed
<1>1. Inv => NoSendOnClosed
    BY DEF Inv
<1>2. QED
    BY <1>1, EventsInvariant, PTL

\* Each running handler, and nobody else, owns the entry of the map under its id.
THEOREM EventsSubscriptionsMatchHandlers == Spec => []SubscriptionsMatchHandlers
<1>1. Inv => SubscriptionsMatchHandlers
    BY DEF Inv
<1>2. QED
    BY <1>1, EventsInvariant, PTL

=============================================================================
