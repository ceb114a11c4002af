---------------------------- MODULE StreamProofs ----------------------------
(***************************************************************************)
(* The event stream is the best-effort broadcast of Broadcast, for any set *)
(* of connections, publishers, chats, allow-lists and any capacity.        *)
(***************************************************************************)
EXTENDS EventsProofs

\* Types of the variables that hold events or count them.
StreamTypes ==
    /\ cur \in [Publishers -> Event \cup {NoEvent}]
    /\ sent \in [Publishers -> Nat]
    /\ queue \in [Conns -> Seq(Event)]
    /\ \A c \in Conns : Len(queue[c]) <= BUF
    /\ out \in [Conns -> Event \cup {NoEvent}]
    /\ delivered \in [Conns -> [Publishers -> Nat]]
    /\ heard \in [Conns -> [Publishers -> Nat]]

\* A publisher that is not idle publishes the last event it has built.
Speaking ==
    \A p \in Publishers :
        IF ppc[p] = "idle" THEN cur[p] = NoEvent
        ELSE /\ cur[p] \in Event
             /\ cur[p].src = p /\ cur[p].n = sent[p] /\ chatAllowed(cur[p].chat)

\* A handler holds an event only while it writes it.
Writing ==
    \A c \in Conns :
        IF wpc[c] = "writing"
        THEN out[c] \in Event /\ chatAllowed(out[c].chat) /\ eventAllowed(c, out[c])
        ELSE out[c] = NoEvent

\* A channel that is not subscribed yet is empty, and the device knows of nothing.
Fresh ==
    \A c \in Conns : wpc[c] \in {"new", "accepted", "joining"} =>
        queue[c] = <<>> /\ \A p \in Publishers : delivered[c][p] = 0

\* The first client may see what is in a channel.
QueuedIsAllowed ==
    \A c \in Conns : \A i \in 1..Len(queue[c]) : chatAllowed(queue[c][i].chat)

\* What a device has or is to get was offered to it.
WithinHeard ==
    \A c \in Conns :
        /\ \A i \in 1..Len(queue[c]) : queue[c][i].n <= heard[c][queue[c][i].src]
        /\ wpc[c] = "writing" => out[c].n <= heard[c][out[c].src]
        /\ \A p \in Publishers : delivered[c][p] <= heard[c][p]

\* The same order as InOrder, one part per pair of places an event can be in.
QueueSorted ==
    \A c \in Conns : \A i, j \in 1..Len(queue[c]) :
        i < j /\ queue[c][i].src = queue[c][j].src => queue[c][i].n < queue[c][j].n
QueueAfterDelivered ==
    \A c \in Conns : \A i \in 1..Len(queue[c]) :
        delivered[c][queue[c][i].src] < queue[c][i].n
QueueAfterOut ==
    \A c \in Conns : wpc[c] = "writing" => \A i \in 1..Len(queue[c]) :
        out[c].src = queue[c][i].src => out[c].n < queue[c][i].n
OutAfterDelivered ==
    \A c \in Conns : wpc[c] = "writing" => delivered[c][out[c].src] < out[c].n

Order == QueueSorted /\ QueueAfterDelivered /\ QueueAfterOut /\ OutAfterDelivered

SInv ==
    /\ StreamTypes
    /\ Speaking
    /\ Writing
    /\ Fresh
    /\ QueuedIsAllowed
    /\ SlowCostsNobodyElse
    /\ WithinHeard
    /\ Order

\* No event is the absent one.
LEMMA EventIsNot == \A e \in Event : e # NoEvent
<1> SUFFICES ASSUME NEW e \in Event, e = NoEvent
             PROVE  FALSE
    OBVIOUS
<1>1. DOMAIN e = {"src", "n", "chat"}
    BY DEF Event
<1>2. DOMAIN NoEvent = {"src"}
    BY DEF NoEvent
<1>3. QED
    BY <1>1, <1>2

\* The parts of an event.
LEMMA EventParts ==
    ASSUME NEW e \in Event
    PROVE  e.src \in Publishers /\ e.n \in Nat /\ e.n > 0 /\ e.chat \in Chats
BY EventsAssumption DEF Event

\* Before the first update.
LEMMA InitSInv == Init => SInv
<1> SUFFICES ASSUME Init
             PROVE  SInv
    OBVIOUS
<1>1. StreamTypes
    <2>1. <<>> \in Seq(Event) /\ Len(<<>>) = 0
        OBVIOUS
    <2>2. QED
        BY <2>1, EventsAssumption DEF Init, StreamTypes
<1>2. Speaking /\ Writing /\ Fresh /\ QueuedIsAllowed /\ WithinHeard
    BY DEF Init, Speaking, Writing, Fresh, QueuedIsAllowed, WithinHeard
<1>3. SlowCostsNobodyElse
    BY DEF Init, SlowCostsNobodyElse, Registered
<1>4. Order
    BY DEF Init, Order, QueueSorted, QueueAfterDelivered, QueueAfterOut, OutAfterDelivered
<1>5. QED
    BY <1>1, <1>2, <1>3, <1>4 DEF SInv

\* A step that touches none of these variables.
LEMMA FrameSInv ==
    ASSUME SInv,
           UNCHANGED <<ppc, cur, todo, sent, wpc, sid, queue, out, delivered, heard>>
    PROVE  SInv'
<1>1. StreamTypes' /\ Speaking' /\ Writing' /\ Fresh' /\ QueuedIsAllowed' /\ WithinHeard'
    BY DEF SInv, StreamTypes, Speaking, Writing, Fresh, QueuedIsAllowed, WithinHeard
<1>2. SlowCostsNobodyElse'
    BY DEF SInv, SlowCostsNobodyElse, Finished
<1>3. Order'
    BY DEF SInv, Order, QueueSorted, QueueAfterDelivered, QueueAfterOut, OutAfterDelivered
<1>4. QED
    BY <1>1, <1>2, <1>3 DEF SInv

\* A handler that neither starts nor ends to write or to be subscribed.
LEMMA MoveSInv ==
    ASSUME Inv, SInv, NEW c \in Conns, NEW label, Goto(c, label),
           UNCHANGED <<ppc, cur, todo, sent, queue, out, delivered, heard>>,
           wpc[c] # "writing", label # "writing",
           label \in Registered => wpc[c] \in Registered /\ UNCHANGED sid,
           label \in {"new", "accepted", "joining"} => wpc[c] \in {"new", "accepted", "joining"},
           \A d \in Conns \ {c} : sid'[d] = sid[d]
    PROVE  SInv'
<1>1. wpc'[c] = label /\ \A d \in Conns \ {c} : wpc'[d] = wpc[d]
    BY DEF Inv, BrokerTypes, Goto
<1>2. StreamTypes' /\ Speaking' /\ QueuedIsAllowed'
    BY DEF SInv, StreamTypes, Speaking, QueuedIsAllowed
<1>3. Writing' /\ Fresh' /\ WithinHeard'
    BY <1>1 DEF SInv, Writing, Fresh, WithinHeard, eventAllowed
<1>4. SlowCostsNobodyElse'
    BY <1>1 DEF SInv, SlowCostsNobodyElse, Finished
<1>5. Order'
    BY <1>1 DEF SInv, Order, QueueSorted, QueueAfterDelivered, QueueAfterOut, OutAfterDelivered
<1>6. QED
    BY <1>2, <1>3, <1>4, <1>5 DEF SInv

-----------------------------------------------------------------------------
(* The steps of a publisher. *)

\* The next event of p is built; it is not finished with.
LEMMA DispatchSInv ==
    ASSUME Inv, SInv, NEW p \in Publishers, NEW chat \in Chats, Dispatch(p, chat)
    PROVE  SInv'
<1> DEFINE e == [src |-> p, n |-> sent[p] + 1, chat |-> chat]
<1>1. e \in Event /\ chatAllowed(e.chat)
    BY EventsAssumption DEF SInv, StreamTypes, Dispatch, Event
<1>2. /\ ppc[p] = "idle" /\ ppc'[p] = "rlock" /\ cur'[p] = e /\ sent'[p] = sent[p] + 1
      /\ \A q \in Publishers \ {p} : ppc'[q] = ppc[q] /\ cur'[q] = cur[q] /\ sent'[q] = sent[q]
      /\ UNCHANGED <<todo, wpc, sid, queue, out, delivered, heard>>
    BY DEF Inv, BrokerTypes, SInv, StreamTypes, Dispatch, connVars
<1>3. StreamTypes'
    BY <1>1, <1>2 DEF SInv, StreamTypes, Dispatch
<1>4. Speaking'
    BY <1>1, <1>2 DEF SInv, Speaking
<1>5. Writing' /\ Fresh' /\ QueuedIsAllowed' /\ WithinHeard'
    BY <1>2 DEF SInv, Writing, Fresh, QueuedIsAllowed, WithinHeard
<1>6. SlowCostsNobodyElse'
    <2> SUFFICES ASSUME NEW c \in Conns, NEW q \in Publishers, wpc[c] \in Registered
                 PROVE  heard[c][q] = Finished(q, sid[c])'
        BY <1>2 DEF SlowCostsNobodyElse
    <2>1. heard[c][q] = Finished(q, sid[c]) /\ sent[q] \in Nat
        BY DEF SInv, StreamTypes, SlowCostsNobodyElse
    <2>2. CASE q = p
        BY <1>2, <2>1, <2>2 DEF Finished
    <2>3. CASE q # p
        BY <1>2, <2>1, <2>3 DEF Finished
    <2>4. QED
        BY <2>2, <2>3
<1>7. Order'
    BY <1>2 DEF SInv, Order, QueueSorted, QueueAfterDelivered, QueueAfterOut, OutAfterDelivered
<1>8. QED
    BY <1>3, <1>4, <1>5, <1>6, <1>7 DEF SInv

\* The range that starts has every subscriber before it.
LEMMA RLockSInv ==
    ASSUME Inv, SInv, NEW p \in Publishers, RLock(p)
    PROVE  SInv'
<1>1. /\ ppc[p] = "rlock" /\ ppc'[p] = "publishing"
      /\ todo'[p] = {id \in Ids : subs[id] # NoConn}
      /\ \A q \in Publishers \ {p} : ppc'[q] = ppc[q] /\ todo'[q] = todo[q]
      /\ UNCHANGED <<cur, sent, wpc, sid, queue, out, delivered, heard>>
    BY DEF Inv, BrokerTypes, RLock, connVars
<1>2. \A c \in Conns : wpc[c] \in Registered => sid[c] \in todo'[p]
    BY <1>1, IdsSuffice, EventsAssumption DEF Inv, IdsAreUnique, SubscriptionsMatchHandlers
<1>3. StreamTypes' /\ Speaking' /\ Writing' /\ Fresh' /\ QueuedIsAllowed' /\ WithinHeard'
    BY <1>1, ZenonT(60)
    DEF SInv, StreamTypes, Speaking, Writing, Fresh, QueuedIsAllowed, WithinHeard
<1>4. SlowCostsNobodyElse'
    <2> SUFFICES ASSUME NEW c \in Conns, NEW q \in Publishers, wpc[c] \in Registered
                 PROVE  heard[c][q] = Finished(q, sid[c])'
        BY <1>1 DEF SlowCostsNobodyElse
    <2>1. heard[c][q] = Finished(q, sid[c])
        BY DEF SInv, SlowCostsNobodyElse
    <2>2. CASE q = p
        BY <1>1, <1>2, <2>1, <2>2 DEF Finished
    <2>3. CASE q # p
        BY <1>1, <2>1, <2>3 DEF Finished
    <2>4. QED
        BY <2>2, <2>3
<1>5. Order'
    BY <1>1 DEF SInv, Order, QueueSorted, QueueAfterDelivered, QueueAfterOut, OutAfterDelivered
<1>6. QED
    BY <1>3, <1>4, <1>5 DEF SInv

\* The range that ends has none left.
LEMMA RUnlockSInv ==
    ASSUME Inv, SInv, NEW p \in Publishers, RUnlock(p)
    PROVE  SInv'
<1>1. /\ ppc[p] = "publishing" /\ todo[p] = {} /\ ppc'[p] = "idle" /\ cur'[p] = NoEvent
      /\ \A q \in Publishers \ {p} : ppc'[q] = ppc[q] /\ cur'[q] = cur[q]
      /\ UNCHANGED <<todo, sent, wpc, sid, queue, out, delivered, heard>>
    BY DEF Inv, BrokerTypes, SInv, StreamTypes, RUnlock, connVars
<1>2. StreamTypes'
    BY <1>1 DEF SInv, StreamTypes, RUnlock
<1>3. Speaking'
    BY <1>1 DEF SInv, Speaking
<1>4. Writing' /\ Fresh' /\ QueuedIsAllowed' /\ WithinHeard'
    BY <1>1 DEF SInv, Writing, Fresh, QueuedIsAllowed, WithinHeard
<1>5. SlowCostsNobodyElse'
    BY <1>1 DEF SInv, SlowCostsNobodyElse, Finished
<1>6. Order'
    BY <1>1 DEF SInv, Order, QueueSorted, QueueAfterDelivered, QueueAfterOut, OutAfterDelivered
<1>7. QED
    BY <1>2, <1>3, <1>4, <1>5, <1>6 DEF SInv

\* The subscription that a range visits is that of a running handler.
LEMMA Visited ==
    ASSUME Inv, NEW p \in Publishers, NEW id \in todo[p]
    PROVE  id \in Ids /\ subs[id] \in Conns /\ wpc[subs[id]] \in Registered /\ sid[subs[id]] = id
BY DEF Inv, BrokerTypes, NoSendOnClosed, SubscriptionsMatchHandlers

\* What a non-blocking send leaves in the channel.
LEMMA AfterSendIs ==
    ASSUME SInv, NEW c \in Conns, NEW e \in Event
    PROVE  /\ AfterSend(c, e) \in Seq(Event) /\ Len(AfterSend(c, e)) <= BUF
           /\ \A i \in 1..Len(AfterSend(c, e)) :
                 \/ i \in 1..Len(queue[c]) /\ AfterSend(c, e)[i] = queue[c][i]
                 \/ i = Len(queue[c]) + 1 /\ AfterSend(c, e)[i] = e
BY EventsAssumption DEF SInv, StreamTypes, AfterSend

\* The event that is offered is later than what the device heard of.
LEMMA OfferSInv ==
    ASSUME Inv, SInv, NEW p \in Publishers, NEW id \in Ids, Offer(p, id)
    PROVE  SInv'
<1> DEFINE c == subs[id]
           e == cur[p]
<1>1. ppc[p] = "publishing" /\ id \in todo[p]
    BY DEF Offer
<1>2. c \in Conns /\ wpc[c] \in Registered /\ sid[c] = id
    BY <1>1, Visited
<1>3. e \in Event /\ e.src = p /\ e.n = sent[p] /\ chatAllowed(e.chat)
    BY <1>1 DEF SInv, Speaking
<1>4. heard[c][p] = sent[p] - 1 /\ sent[p] \in Nat
    BY <1>1, <1>2 DEF SInv, StreamTypes, SlowCostsNobodyElse, Finished
<1> HIDE DEF c, e
<1>5. /\ todo'[p] = todo[p] \ {id}
      /\ \A q \in Publishers \ {p} : todo'[q] = todo[q]
      /\ queue'[c] = AfterSend(c, e)
      /\ \A d \in Conns \ {c} : queue'[d] = queue[d] /\ heard'[d] = heard[d]
      /\ heard'[c][p] = sent[p] /\ \A q \in Publishers \ {p} : heard'[c][q] = heard[c][q]
      /\ UNCHANGED <<ppc, cur, sent, wpc, sid, out, delivered>>
    BY <1>2, <1>3 DEF Inv, BrokerTypes, SInv, StreamTypes, Offer, connVars, c, e
<1>6. /\ queue'[c] \in Seq(Event) /\ Len(queue'[c]) <= BUF
      /\ \A i \in 1..Len(queue'[c]) :
            \/ i \in 1..Len(queue[c]) /\ queue'[c][i] = queue[c][i]
            \/ i = Len(queue[c]) + 1 /\ queue'[c][i] = e
    BY <1>2, <1>3, <1>5, AfterSendIs
<1>7. StreamTypes'
    BY <1>2, <1>3, <1>4, <1>5, <1>6 DEF SInv, StreamTypes, Offer, c, e
<1>8. Speaking' /\ Writing' /\ Fresh'
    BY <1>2, <1>5 DEF SInv, Speaking, Writing, Fresh, Registered
<1>9. QueuedIsAllowed'
    BY <1>3, <1>5, <1>6 DEF SInv, QueuedIsAllowed
<1>10. SlowCostsNobodyElse'
    BY <1>1, <1>2, <1>3, <1>4, <1>5 DEF SInv, SlowCostsNobodyElse, Finished, Inv, IdsAreUnique
<1>11. \A i \in 1..Len(queue[c]) :
           LET f == queue[c][i]
           IN  f.src \in Publishers /\ f.n \in Nat /\ f.n <= heard[c][f.src]
    BY <1>2, EventParts DEF SInv, StreamTypes, WithinHeard
<1>12. \A q \in Publishers : heard[c][q] <= heard'[c][q] /\ heard[c][q] \in Nat
    <2> TAKE q \in Publishers
    <2>1. heard[c][q] \in Nat
        BY <1>2 DEF SInv, StreamTypes
    <2>2. q # p => heard'[c][q] = heard[c][q]
        BY <1>5
    <2>3. heard[c][p] <= heard'[c][p]
        BY <1>4, <1>5
    <2>4. QED
        BY <2>1, <2>2, <2>3
<1>13. \A d \in Conns : d # c =>
           queue'[d] = queue[d] /\ heard'[d] = heard[d] /\ out'[d] = out[d]
           /\ delivered'[d] = delivered[d] /\ wpc'[d] = wpc[d]
    BY <1>5
<1>14. wpc[c] = "writing" => out[c].src \in Publishers /\ out[c].n \in Nat
    BY <1>2, EventParts DEF SInv, Writing
<1>15. WithinHeard'
    <2>1. \A i \in 1..Len(queue'[c]) : queue'[c][i].n <= heard'[c][queue'[c][i].src]
        <3> TAKE i \in 1..Len(queue'[c])
        <3>1. heard'[c] \in [Publishers -> Nat]
            BY <1>2, <1>7 DEF StreamTypes
        <3>2. CASE i \in 1..Len(queue[c]) /\ queue'[c][i] = queue[c][i]
            <4> DEFINE f == queue[c][i]
            <4>1. f.src \in Publishers /\ f.n \in Nat /\ f.n <= heard[c][f.src]
                BY <1>11, <3>2
            <4>2. heard[c][f.src] <= heard'[c][f.src] /\ heard[c][f.src] \in Nat
                  /\ heard'[c][f.src] \in Nat
                BY <1>12, <3>1, <4>1
            <4>3. queue'[c][i] = f
                BY <3>2
            <4> HIDE DEF f
            <4>4. QED
                BY <4>1, <4>2, <4>3
        <3>3. CASE queue'[c][i] = e
            BY <1>3, <1>4, <1>5, <3>3
        <3>4. QED
            BY <1>6, <3>2, <3>3
    <2>2. /\ wpc[c] = "writing" => out[c].n <= heard'[c][out[c].src]
          /\ \A q \in Publishers : delivered[c][q] <= heard'[c][q]
        <3>1. heard'[c] \in [Publishers -> Nat] /\ delivered[c] \in [Publishers -> Nat]
            BY <1>2, <1>7 DEF StreamTypes, SInv
        <3>2. QED
            BY <1>2, <1>12, <1>14, <3>1, SMTT(30) DEF SInv, WithinHeard
    <2>3. QED
        BY <1>5, <1>13, <2>1, <2>2 DEF SInv, WithinHeard
<1>16. \A i \in 1..Len(queue'[c]) :
           \/ i \in 1..Len(queue[c]) /\ queue'[c][i] = queue[c][i]
           \/ /\ i = Len(queue[c]) + 1 /\ queue'[c][i] = e
              /\ \A j \in 1..Len(queue[c]) : queue[c][j].src = p => queue[c][j].n < e.n
              /\ delivered[c][p] < e.n
              /\ wpc[c] = "writing" /\ out[c].src = p => out[c].n < e.n
    <2>1. \A j \in 1..Len(queue[c]) : queue[c][j].src = p => queue[c][j].n < e.n
        BY <1>3, <1>4, <1>11
    <2>2. delivered[c][p] < e.n
        BY <1>2, <1>3, <1>4 DEF SInv, StreamTypes, WithinHeard
    <2>3. wpc[c] = "writing" /\ out[c].src = p => out[c].n < e.n
        BY <1>2, <1>3, <1>4, <1>14 DEF SInv, WithinHeard
    <2>4. QED
        BY <1>6, <2>1, <2>2, <2>3
<1>17. Order'
    <2>1. Len(queue[c]) \in Nat
        BY <1>2 DEF SInv, StreamTypes
    <2>2. \A i, j \in 1..Len(queue'[c]) : i < j /\ queue'[c][i].src = queue'[c][j].src =>
              queue'[c][i].n < queue'[c][j].n
        <3> SUFFICES ASSUME NEW i \in 1..Len(queue'[c]), NEW j \in 1..Len(queue'[c]), i < j,
                            queue'[c][i].src = queue'[c][j].src
                     PROVE  queue'[c][i].n < queue'[c][j].n
            OBVIOUS
        <3>1. i \in 1..Len(queue[c]) /\ queue'[c][i] = queue[c][i]
            BY <1>6, <2>1
        <3>2. CASE j \in 1..Len(queue[c]) /\ queue'[c][j] = queue[c][j]
            BY <1>2, <3>1, <3>2 DEF SInv, Order, QueueSorted
        <3>3. CASE queue'[c][j] = e /\ j = Len(queue[c]) + 1
            <4>1. queue[c][i].n \in Nat /\ queue[c][i].n <= heard[c][queue[c][i].src]
                BY <1>11, <3>1
            <4>2. queue[c][i].src = p
                BY <1>3, <3>1, <3>3
            <4>3. queue[c][i].n < e.n
                BY <1>3, <1>4, <4>1, <4>2
            <4>4. QED
                BY <3>1, <3>3, <4>3
        <3>4. QED
            BY <1>6, <3>2, <3>3
    <2>3. QueueSorted'
        BY <1>13, <2>2 DEF SInv, Order, QueueSorted
    <2>4. \A i \in 1..Len(queue'[c]) :
              /\ delivered[c][queue'[c][i].src] < queue'[c][i].n
              /\ wpc[c] = "writing" /\ out[c].src = queue'[c][i].src => out[c].n < queue'[c][i].n
        BY <1>2, <1>3, <1>16 DEF SInv, Order, QueueAfterDelivered, QueueAfterOut
    <2>5. QueueAfterDelivered' /\ QueueAfterOut'
        BY <1>5, <1>13, <2>4, SMTT(30) DEF SInv, Order, QueueAfterDelivered, QueueAfterOut
    <2>6. OutAfterDelivered'
        BY <1>5 DEF SInv, Order, OutAfterDelivered
    <2>7. QED
        BY <2>3, <2>5, <2>6 DEF Order
<1>18. QED
    BY <1>7, <1>8, <1>9, <1>10, <1>15, <1>17 DEF SInv

-----------------------------------------------------------------------------
(* The steps of a handler. *)

\* What a publisher has finished with was not offered to a new subscriber.
LEMMA SubscribeSInv ==
    ASSUME Inv, SInv, NEW c \in Conns, Subscribe(c)
    PROVE  SInv'
<1>1. /\ wpc[c] = "joining" /\ wpc'[c] = "loop" /\ queue[c] = <<>>
      /\ \A p \in Publishers : ppc[p] # "publishing" /\ delivered[c][p] = 0
      /\ \A d \in Conns \ {c} : wpc'[d] = wpc[d] /\ heard'[d] = heard[d]
      /\ UNCHANGED <<ppc, cur, todo, sent, sid, queue, out, delivered>>
    BY DEF Inv, BrokerTypes, SInv, StreamTypes, Fresh, Subscribe, Goto, pubVars, Readers
<1>2. \A p \in Publishers : heard'[c][p] = IF ppc[p] = "rlock" THEN sent[p] - 1 ELSE sent[p]
    BY DEF SInv, StreamTypes, Subscribe
<1>3. \A p \in Publishers : heard'[c][p] \in Nat
    <2> TAKE p \in Publishers
    <2>1. ppc[p] = "rlock" => cur[p] \in Event /\ cur[p].n = sent[p]
        BY DEF SInv, Speaking
    <2>2. sent[p] \in Nat /\ (ppc[p] = "rlock" => sent[p] > 0)
        BY <2>1, EventParts DEF SInv, StreamTypes
    <2>3. QED
        BY <1>2, <2>2
<1>4. StreamTypes'
    <2>1. heard' = [heard EXCEPT ![c] = [p \in Publishers |-> heard'[c][p]]]
        BY <1>2 DEF SInv, StreamTypes, Subscribe
    <2>2. heard' \in [Conns -> [Publishers -> Nat]]
        BY <1>3, <2>1 DEF SInv, StreamTypes
    <2>3. QED
        BY <1>1, <2>2 DEF SInv, StreamTypes
<1>5. Speaking' /\ Writing' /\ Fresh' /\ QueuedIsAllowed'
    BY <1>1 DEF SInv, Speaking, Writing, Fresh, QueuedIsAllowed, eventAllowed
<1>6. WithinHeard'
    <2>1. \A p \in Publishers : delivered[c][p] <= heard'[c][p]
        BY <1>1, <1>3
    <2>2. QED
        BY <1>1, <2>1 DEF SInv, WithinHeard
<1>7. SlowCostsNobodyElse'
    <2> SUFFICES ASSUME NEW d \in Conns, NEW q \in Publishers, wpc'[d] \in Registered
                 PROVE  heard'[d][q] = Finished(q, sid[d])'
        BY <1>1 DEF SlowCostsNobodyElse
    <2>1. CASE d = c
        BY <1>1, <1>2, <2>1 DEF Finished
    <2>2. CASE d # c
        BY <1>1, <2>2 DEF SInv, SlowCostsNobodyElse, Finished
    <2>3. QED
        BY <2>1, <2>2
<1>8. Order'
    BY <1>1 DEF SInv, Order, QueueSorted, QueueAfterDelivered, QueueAfterOut, OutAfterDelivered
<1>9. QED
    BY <1>4, <1>5, <1>6, <1>7, <1>8 DEF SInv

\* The first event of a channel and the rest of it.
LEMMA FirstAndRest ==
    ASSUME SInv, NEW c \in Conns, queue[c] # <<>>
    PROVE  /\ Head(queue[c]) = queue[c][1] /\ queue[c][1] \in Event
           /\ Tail(queue[c]) \in Seq(Event) /\ Len(Tail(queue[c])) = Len(queue[c]) - 1
           /\ Len(queue[c]) \in Nat \ {0}
           /\ \A i \in 1..Len(Tail(queue[c])) :
                 i + 1 \in 1..Len(queue[c]) /\ Tail(queue[c])[i] = queue[c][i + 1]
BY DEF SInv, StreamTypes

\* The first event leaves the channel, to be written or not.
LEMMA ReceiveSInv ==
    ASSUME Inv, SInv, NEW c \in Conns, Receive(c)
    PROVE  SInv'
<1> DEFINE e == queue[c][1]
<1>1. /\ wpc[c] = "loop" /\ queue'[c] = Tail(queue[c]) /\ out[c] = NoEvent
      /\ \/ /\ eventAllowed(c, e) /\ wpc'[c] = "writing" /\ out'[c] = e
         \/ wpc'[c] = "loop" /\ out'[c] = NoEvent
      /\ \A d \in Conns \ {c} : wpc'[d] = wpc[d] /\ out'[d] = out[d] /\ queue'[d] = queue[d]
      /\ UNCHANGED <<ppc, cur, todo, sent, sid, delivered, heard>>
    BY FirstAndRest DEF Inv, BrokerTypes, SInv, StreamTypes, Writing, Receive, Goto, pubVars
<1>2. /\ e \in Event /\ e = queue[c][1] /\ 1 \in 1..Len(queue[c]) /\ chatAllowed(e.chat)
      /\ queue'[c] \in Seq(Event) /\ Len(queue'[c]) = Len(queue[c]) - 1
      /\ \A i \in 1..Len(queue'[c]) :
            i + 1 \in 1..Len(queue[c]) /\ queue'[c][i] = queue[c][i + 1]
    <2>1. /\ e \in Event /\ Len(queue[c]) \in Nat \ {0}
          /\ Tail(queue[c]) \in Seq(Event) /\ Len(Tail(queue[c])) = Len(queue[c]) - 1
          /\ \A i \in 1..Len(Tail(queue[c])) :
                i + 1 \in 1..Len(queue[c]) /\ Tail(queue[c])[i] = queue[c][i + 1]
        BY FirstAndRest DEF Receive
    <2>2. 1 \in 1..Len(queue[c])
        BY <2>1
    <2>3. chatAllowed(e.chat)
        BY <2>2 DEF SInv, QueuedIsAllowed
    <2> HIDE DEF e
    <2>4. QED
        BY <1>1, <2>1, <2>2, <2>3 DEF e
<1>3. StreamTypes'
    <2>1. queue' \in [Conns -> Seq(Event)] /\ out' \in [Conns -> Event \cup {NoEvent}]
        <3>1. queue' = [queue EXCEPT ![c] = queue'[c]] /\ out' = [out EXCEPT ![c] = out'[c]]
            BY <1>1 DEF SInv, StreamTypes, Receive
        <3>2. out'[c] \in Event \cup {NoEvent}
            BY <1>1, <1>2
        <3>3. QED
            BY <1>2, <3>1, <3>2 DEF SInv, StreamTypes
    <2>2. \A d \in Conns : Len(queue'[d]) <= BUF
        BY <1>1, <1>2, EventsAssumption DEF SInv, StreamTypes
    <2>3. QED
        BY <1>1, <2>1, <2>2 DEF SInv, StreamTypes
<1> HIDE DEF e
<1>4. Speaking' /\ Fresh'
    BY <1>1 DEF SInv, Speaking, Fresh
<1>5. Writing' /\ QueuedIsAllowed'
    <2>1. Writing'
        BY <1>1, <1>2 DEF SInv, Writing, eventAllowed
    <2>2. \A i \in 1..Len(queue'[c]) : chatAllowed(queue'[c][i].chat)
        BY <1>2 DEF SInv, QueuedIsAllowed
    <2>3. QED
        BY <1>1, <2>1, <2>2 DEF SInv, QueuedIsAllowed
<1>6. SlowCostsNobodyElse'
    BY <1>1 DEF SInv, SlowCostsNobodyElse, Finished, Registered
<1>7. WithinHeard'
    <2>1. /\ e.n <= heard[c][e.src]
          /\ \A i \in 1..Len(queue'[c]) : queue'[c][i].n <= heard[c][queue'[c][i].src]
        BY <1>2 DEF SInv, WithinHeard
    <2>2. wpc'[c] = "writing" => out'[c] = e
        BY <1>1
    <2>3. QED
        BY <1>1, <2>1, <2>2, ZenonT(60) DEF SInv, WithinHeard
<1>8. Order'
    <2> Len(queue[c]) \in Nat
        BY DEF SInv, StreamTypes
    <2>1. QueueSorted'
        <3>1. \A i, j \in 1..Len(queue'[c]) : i < j /\ queue'[c][i].src = queue'[c][j].src =>
                  queue'[c][i].n < queue'[c][j].n
            <4> SUFFICES ASSUME NEW i \in 1..Len(queue'[c]), NEW j \in 1..Len(queue'[c]),
                                i < j, queue'[c][i].src = queue'[c][j].src
                         PROVE  queue'[c][i].n < queue'[c][j].n
                OBVIOUS
            <4>1. /\ i + 1 \in 1..Len(queue[c]) /\ queue'[c][i] = queue[c][i + 1]
                  /\ j + 1 \in 1..Len(queue[c]) /\ queue'[c][j] = queue[c][j + 1]
                BY <1>2
            <4>2. i + 1 < j + 1
                BY <1>2
            <4>3. QED
                BY <4>1, <4>2 DEF SInv, Order, QueueSorted
        <3>2. QED
            BY <1>1, <3>1, ZenonT(60) DEF SInv, Order, QueueSorted
    <2>2. QueueAfterDelivered' /\ OutAfterDelivered'
        <3>1. /\ delivered[c][e.src] < e.n
              /\ \A i \in 1..Len(queue'[c]) : delivered[c][queue'[c][i].src] < queue'[c][i].n
            BY <1>2 DEF SInv, Order, QueueAfterDelivered
        <3>2. wpc'[c] = "writing" => out'[c] = e
            BY <1>1
        <3>3. QED
            BY <1>1, <3>1, <3>2 DEF SInv, Order, QueueAfterDelivered, OutAfterDelivered
    <2>3. \A i \in 1..Len(queue'[c]) : e.src = queue'[c][i].src => e.n < queue'[c][i].n
        <3> TAKE i \in 1..Len(queue'[c])
        <3>1. i + 1 \in 1..Len(queue[c]) /\ queue'[c][i] = queue[c][i + 1] /\ 1 < i + 1
            BY <1>2
        <3>2. QED
            BY <1>2, <3>1 DEF SInv, Order, QueueSorted
    <2>4. QueueAfterOut'
        BY <1>1, <2>3 DEF SInv, Order, QueueAfterOut
    <2>5. QED
        BY <2>1, <2>2, <2>4 DEF Order
<1>9. QED
    BY <1>3, <1>4, <1>5, <1>6, <1>7, <1>8 DEF SInv

\* The event is delivered, and the device knows of it.
LEMMA WriteDoneSInv ==
    ASSUME Inv, SInv, NEW c \in Conns, WriteDone(c)
    PROVE  SInv'
<1> DEFINE e == out[c]
<1>1. e \in Event /\ e.src \in Publishers /\ e.n \in Nat
    BY EventParts DEF SInv, Writing, WriteDone
<1> HIDE DEF e
<1>2. /\ wpc[c] = "writing" /\ wpc'[c] = "loop" /\ out'[c] = NoEvent
      /\ delivered'[c] = [delivered[c] EXCEPT ![e.src] = e.n]
      /\ \A d \in Conns \ {c} :
            wpc'[d] = wpc[d] /\ out'[d] = out[d] /\ delivered'[d] = delivered[d]
      /\ UNCHANGED <<ppc, cur, todo, sent, sid, queue, heard>>
    BY <1>1 DEF Inv, BrokerTypes, SInv, StreamTypes, WriteDone, Goto, pubVars, e
<1>3. delivered[c] \in [Publishers -> Nat]
    BY DEF SInv, StreamTypes
<1>4. delivered'[c][e.src] = e.n
      /\ \A p \in Publishers \ {e.src} : delivered'[c][p] = delivered[c][p]
    BY <1>1, <1>2, <1>3
<1>5. StreamTypes'
    <2>1. delivered' = [delivered EXCEPT ![c] = [delivered[c] EXCEPT ![e.src] = e.n]]
        BY DEF SInv, StreamTypes, WriteDone, e
    <2>2. delivered' \in [Conns -> [Publishers -> Nat]]
        BY <1>1, <1>3, <2>1 DEF SInv, StreamTypes
    <2>3. QED
        BY <1>2, <2>2 DEF SInv, StreamTypes, WriteDone
<1>6. Speaking' /\ Writing' /\ Fresh' /\ QueuedIsAllowed'
    BY <1>2 DEF SInv, Speaking, Writing, Fresh, QueuedIsAllowed, eventAllowed
<1>7. SlowCostsNobodyElse'
    BY <1>2 DEF SInv, SlowCostsNobodyElse, Finished, Registered
<1>8. WithinHeard'
    BY <1>1, <1>2, <1>4, ZenonT(60) DEF SInv, WithinHeard, e
<1>9. Order'
    <2>1. \A i \in 1..Len(queue[c]) : delivered'[c][queue[c][i].src] < queue[c][i].n
        <3> TAKE i \in 1..Len(queue[c])
        <3>1. queue[c][i].src \in Publishers
            BY EventParts DEF SInv, StreamTypes
        <3>2. CASE queue[c][i].src = e.src
            BY <1>2, <1>4, <3>2 DEF SInv, Order, QueueAfterOut, e
        <3>3. CASE queue[c][i].src # e.src
            BY <1>4, <3>1, <3>3 DEF SInv, Order, QueueAfterDelivered
        <3>4. QED
            BY <3>2, <3>3
    <2>2. QueueSorted'
        BY <1>2 DEF SInv, Order, QueueSorted
    <2>3. QueueAfterDelivered'
        BY <1>2, <2>1 DEF SInv, Order, QueueAfterDelivered
    <2>4. QueueAfterOut' /\ OutAfterDelivered'
        BY <1>2 DEF SInv, Order, QueueAfterOut, OutAfterDelivered
    <2>5. QED
        BY <2>2, <2>3, <2>4 DEF Order
<1>10. QED
    BY <1>5, <1>6, <1>7, <1>8, <1>9 DEF SInv

\* The event is lost with the connection.
LEMMA WriteFailSInv ==
    ASSUME Inv, SInv, NEW c \in Conns, WriteFail(c)
    PROVE  SInv'
<1>1. /\ wpc[c] = "writing" /\ wpc'[c] = "leaving" /\ out'[c] = NoEvent
      /\ \A d \in Conns \ {c} : wpc'[d] = wpc[d] /\ out'[d] = out[d]
      /\ UNCHANGED <<ppc, cur, todo, sent, sid, queue, delivered, heard>>
    BY DEF Inv, BrokerTypes, SInv, StreamTypes, WriteFail, Goto, pubVars
<1>2. StreamTypes' /\ Speaking' /\ Writing' /\ Fresh' /\ QueuedIsAllowed' /\ WithinHeard'
    <2>1. StreamTypes' /\ Speaking' /\ QueuedIsAllowed'
        BY <1>1 DEF SInv, StreamTypes, Speaking, QueuedIsAllowed, WriteFail
    <2>2. Writing' /\ Fresh' /\ WithinHeard'
        BY <1>1 DEF SInv, Writing, Fresh, WithinHeard, eventAllowed
    <2>3. QED
        BY <2>1, <2>2
<1>3. SlowCostsNobodyElse'
    BY <1>1 DEF SInv, SlowCostsNobodyElse, Finished, Registered
<1>4. Order'
    BY <1>1 DEF SInv, Order, QueueSorted, QueueAfterDelivered, QueueAfterOut, OutAfterDelivered
<1>5. QED
    BY <1>2, <1>3, <1>4 DEF SInv

-----------------------------------------------------------------------------
(* Every step. *)

\* Every step of a publisher, a handler or a device keeps the invariant.
LEMMA NextSInv ==
    ASSUME Inv, SInv, [Next]_vars
    PROVE  SInv'
<1> USE DEF brokerVars, pubVars, connVars
<1>1. ASSUME NEW p \in Publishers, NEW chat \in Chats, NEW incoming \in BOOLEAN,
             Discard(p, chat, incoming)
      PROVE  SInv'
    BY <1>1, FrameSInv DEF Discard
<1>2. ASSUME NEW p \in Publishers, NEW chat \in Chats, Dispatch(p, chat)
      PROVE  SInv'
    BY <1>2, DispatchSInv
<1>3. ASSUME NEW p \in Publishers, Publish(p)
      PROVE  SInv'
    BY <1>3, RLockSInv, OfferSInv, RUnlockSInv DEF Publish
<1>4. ASSUME NEW c \in Conns, Handler(c)
      PROVE  SInv'
    <2>1. CASE Accept(c)
        BY <2>1, MoveSInv DEF Accept, Registered
    <2>2. CASE TakeID(c)
        <3>1. \A d \in Conns \ {c} : sid'[d] = sid[d]
            BY <2>2 DEF TakeID, Inv, BrokerTypes
        <3>2. QED
            BY <2>2, <3>1, MoveSInv DEF TakeID, Registered
    <2>3. CASE Lock(c)
        BY <2>3, FrameSInv DEF Lock
    <2>4. CASE Subscribe(c)
        BY <2>4, SubscribeSInv
    <2>5. CASE CtxDone(c) \/ PingTick(c) \/ Pong(c) \/ PingFail(c)
        BY <2>5, MoveSInv DEF CtxDone, PingTick, Pong, PingFail, Registered
    <2>6. CASE Receive(c)
        BY <2>6, ReceiveSInv
    <2>7. CASE WriteDone(c) \/ WriteFail(c)
        BY <2>7, WriteDoneSInv, WriteFailSInv
    <2>8. CASE Unsubscribe(c)
        BY <2>8, MoveSInv DEF Unsubscribe, Registered
    <2>9. CASE Return(c)
        BY <2>9, MoveSInv DEF Return, Registered
    <2>10. QED
        BY <1>4, <2>1, <2>2, <2>3, <2>4, <2>5, <2>6, <2>7, <2>8, <2>9 DEF Handler
<1>5. ASSUME NEW c \in Conns, ReadFail(c)
      PROVE  SInv'
    BY <1>5, FrameSInv DEF ReadFail
<1>6. ASSUME NEW c \in Conns, NEW how, PeerLost(c, how)
      PROVE  SInv'
    BY <1>6, FrameSInv DEF PeerLost
<1>7. CASE UNCHANGED vars
    BY <1>7, FrameSInv DEF vars
<1>8. QED
    BY <1>1, <1>2, <1>3, <1>4, <1>5, <1>6, <1>7 DEF Next

\* The stream's invariant, with that of the broker it rests on (Events.Spec).
THEOREM StreamInvariant == Spec => [](Inv /\ SInv)
<1>1. Init => Inv /\ SInv
    BY InitInv, InitSInv
<1>2. Inv /\ SInv /\ [Next]_vars => (Inv /\ SInv)'
    BY NextInv, NextSInv
<1>3. QED
    BY <1>1, <1>2, PTL DEF Spec

\* Every event published since a handler subscribed was offered to its channel
\* (Publish): only its own full buffer can have lost it one.
THEOREM EventsSlowCostsNobodyElse == Spec => []SlowCostsNobodyElse
<1>1. SInv => SlowCostsNobodyElse
    BY DEF SInv
<1>2. QED
    BY <1>1, StreamInvariant, PTL

\* What is written to a device passed the list of the first client in
\* dispatchMessage and its own in handleEvents.
THEOREM EventsWrittenIsAllowed == Spec => []WrittenIsAllowed
<1>1. SInv => WrittenIsAllowed
    BY DEF SInv, Writing, WrittenIsAllowed, chatAllowed, eventAllowed
<1>2. QED
    BY <1>1, StreamInvariant, PTL

\* The events of a publisher reach a device in order and at most once (Publish,
\* handleEvents).
THEOREM EventsInOrder == Spec => []InOrder
<1>1. SInv => InOrder
    BY DEF SInv, Writing, Order, QueueSorted, QueueAfterDelivered, QueueAfterOut,
       OutAfterDelivered, InOrder
<1>2. QED
    BY <1>1, StreamInvariant, PTL

\* Types and bounds that no other property needs.
RestTypes ==
    /\ discarded \subseteq Chats
    /\ writer \in Conns \cup {NoConn}
    /\ cancelled \in [Conns -> BOOLEAN]
    /\ reader \in [Conns -> BOOLEAN]
    /\ peer \in [Conns -> {"up", "closed", "silent"}]
    /\ \A p \in Publishers : sent[p] <= MAX_MSG
    /\ \A c \in Conns : \A p \in Publishers : heard[c][p] <= MAX_MSG

\* Every step keeps them.
LEMMA NextRestTypes ==
    ASSUME Inv, SInv, RestTypes, [Next]_vars
    PROVE  RestTypes'
<1> USE DEF brokerVars, pubVars, connVars
<1>1. ASSUME NEW p \in Publishers, NEW chat \in Chats, NEW incoming \in BOOLEAN,
             Discard(p, chat, incoming)
      PROVE  RestTypes'
    BY <1>1 DEF Discard, RestTypes
<1>2. ASSUME NEW p \in Publishers, NEW chat \in Chats, Dispatch(p, chat)
      PROVE  RestTypes'
    <2>1. \A q \in Publishers : sent'[q] <= MAX_MSG
        BY <1>2, EventsAssumption DEF Dispatch, RestTypes, SInv, StreamTypes
    <2>2. QED
        BY <1>2, <2>1 DEF Dispatch, RestTypes
<1>3. ASSUME NEW p \in Publishers, Publish(p)
      PROVE  RestTypes'
    <2>1. CASE RLock(p) \/ RUnlock(p)
        BY <2>1 DEF RLock, RUnlock, RestTypes
    <2>2. ASSUME NEW id \in Ids, Offer(p, id)
          PROVE  RestTypes'
        <3>1. cur[p].n = sent[p] /\ subs[id] \in Conns
            BY <2>2, Visited DEF Offer, SInv, Speaking
        <3>2. heard' = [heard EXCEPT ![subs[id]][p] = sent[p]]
            BY <2>2, <3>1 DEF Offer
        <3>3. \A c \in Conns : \A q \in Publishers : heard'[c][q] <= MAX_MSG
            BY <3>1, <3>2 DEF RestTypes, SInv, StreamTypes
        <3>4. QED
            BY <2>2, <3>3 DEF Offer, RestTypes
    <2>3. QED
        BY <1>3, <2>1, <2>2 DEF Publish
<1>4. ASSUME NEW c \in Conns, Handler(c)
      PROVE  RestTypes'
    <2>1. CASE Accept(c) \/ TakeID(c) \/ CtxDone(c) \/ Receive(c) \/ PingTick(c)
        BY <2>1 DEF Accept, TakeID, CtxDone, Receive, PingTick, RestTypes
    <2>2. CASE WriteDone(c) \/ WriteFail(c) \/ Pong(c) \/ PingFail(c)
        BY <2>2 DEF WriteDone, WriteFail, Pong, PingFail, RestTypes
    <2>3. CASE Lock(c) \/ Unsubscribe(c) \/ Return(c)
        BY <2>3 DEF Lock, Unsubscribe, Return, RestTypes
    <2>4. CASE Subscribe(c)
        <3>1. \A d \in Conns : \A q \in Publishers : heard'[d][q] <= MAX_MSG
            BY <2>4, EventsAssumption DEF Subscribe, RestTypes, SInv, StreamTypes
        <3>2. QED
            BY <2>4, <3>1 DEF Subscribe, RestTypes
    <2>5. QED
        BY <1>4, <2>1, <2>2, <2>3, <2>4 DEF Handler
<1>5. ASSUME NEW c \in Conns, ReadFail(c)
      PROVE  RestTypes'
    BY <1>5 DEF ReadFail, RestTypes
<1>6. ASSUME NEW c \in Conns, NEW how \in {"closed", "silent"}, PeerLost(c, how)
      PROVE  RestTypes'
    BY <1>6 DEF PeerLost, RestTypes
<1>7. CASE UNCHANGED vars
    BY <1>7 DEF vars, RestTypes
<1>8. QED
    BY <1>1, <1>2, <1>3, <1>4, <1>5, <1>6, <1>7 DEF Next

\* No channel ever holds more than its capacity (broker.Publish), and the other
\* variables of Events keep their types.
THEOREM EventsTypeOK == Spec => []TypeOK
<1>1. Init => RestTypes
    BY EventsAssumption DEF Init, RestTypes
<1>2. Inv /\ SInv /\ RestTypes /\ [Next]_vars => RestTypes'
    BY NextRestTypes
<1>3. Inv /\ SInv /\ RestTypes => TypeOK
    <2> SUFFICES ASSUME Inv, SInv, RestTypes
                 PROVE  TypeOK
        OBVIOUS
    <2>1. MAX_MSG \in Nat
        BY EventsAssumption
    <2>2. sent \in [Publishers -> 0..MAX_MSG]
        BY <2>1 DEF SInv, StreamTypes, RestTypes
    <2>3. \A c \in Conns : \A p \in Publishers :
              heard[c][p] \in 0..MAX_MSG /\ delivered[c][p] \in 0..MAX_MSG
        BY <2>1 DEF SInv, StreamTypes, RestTypes, WithinHeard
    <2>4. delivered \in [Conns -> [Publishers -> 0..MAX_MSG]]
          /\ heard \in [Conns -> [Publishers -> 0..MAX_MSG]]
        BY <2>3 DEF SInv, StreamTypes
    <2>5. nextID \in 0..Cardinality(Conns) /\ sid \in [Conns -> Ids \cup {0}]
        BY IdsSuffice DEF Inv, BrokerTypes
    <2>6. QED
        BY <2>2, <2>4, <2>5 DEF Inv, BrokerTypes, SInv, StreamTypes, RestTypes, TypeOK
<1>4. QED
    BY <1>1, <1>2, <1>3, StreamInvariant, PTL DEF Spec

-----------------------------------------------------------------------------
(* The refinement of Broadcast: each step is one of the broadcast, or none. *)

\* The refinement mapping, where a handler's standing changes nothing else.
LEMMA SameBoxes ==
    ASSUME SInv, UNCHANGED <<queue, out>>,
           \A c \in Conns : wpc'[c] \in Registered <=> wpc[c] \in Registered
    PROVE  Boxes' = Boxes
BY DEF Boxes, Waiting

\* The debt of a range over the same map.
LEMMA SameOwed ==
    ASSUME UNCHANGED <<todo, subs>>
    PROVE  Owed' = Owed
BY DEF Owed

\* The debts are a function of the publishers, before and after a step.
LEMMA OwedIsFunction ==
    /\ Owed = [q \in Publishers |-> Owed[q]]
    /\ Owed' = [q \in Publishers |-> Owed'[q]]
BY DEF Owed

\* An element before a sequence.
LEMMA OneBefore ==
    ASSUME NEW S, NEW o \in S, NEW q \in Seq(S)
    PROVE  /\ <<o>> \o q \in Seq(S) /\ <<o>> \o q # <<>>
           /\ Len(<<o>> \o q) = Len(q) + 1
           /\ Head(<<o>> \o q) = o
           /\ Tail(<<o>> \o q) = q
           /\ \A x \in S : Append(<<o>> \o q, x) = <<o>> \o Append(q, x)
<1>1. <<o>> \o q \in Seq(S) /\ Len(<<o>> \o q) = Len(q) + 1 /\ <<o>> \o q # <<>>
    OBVIOUS
<1>2. Head(<<o>> \o q) = o
    OBVIOUS
<1>3. Tail(<<o>> \o q) = q
    OBVIOUS
<1>4. \A x \in S : Append(<<o>> \o q, x) = <<o>> \o Append(q, x)
    OBVIOUS
<1>5. QED
    BY <1>1, <1>2, <1>3, <1>4

\* Nobody's standing changes with the publishers.
LEMMA SameJoined ==
    ASSUME UNCHANGED <<wpc, sid>>
    PROVE  Joined' = Joined
BY DEF Joined, Standing

\* Nothing has begun, and nobody is in.
LEMMA InitRefines == Init => Abstract!Init
<1> SUFFICES ASSUME Init
             PROVE  Abstract!Init
    OBVIOUS
<1>1. Begun = [p \in Publishers |-> FALSE] /\ Owed = [p \in Publishers |-> {}]
    BY DEF Init, Begun, Owed
<1>2. Joined = [c \in Conns |-> "out"] /\ Boxes = [c \in Conns |-> <<>>]
    BY DEF Init, Joined, Standing, Boxes, Waiting, Registered
<1>3. QED
    BY <1>1, <1>2 DEF Init, Abstract!Init

\* dispatchMessage emits an event.
LEMMA DispatchRefines ==
    ASSUME Inv, SInv, NEW p \in Publishers, NEW chat \in Chats, Dispatch(p, chat)
    PROVE  Abstract!Emit(p, chat)
<1>1. Owed' = Owed /\ Joined' = Joined /\ Boxes' = Boxes
    BY SameOwed, SameJoined, SameBoxes DEF Dispatch, brokerVars, connVars
<1>2. Begun' = Begun
    BY DEF Begun, Dispatch, Inv, BrokerTypes
<1>3. cur[p] = NoEvent
    BY DEF SInv, Speaking, Dispatch
<1>4. QED
    BY <1>1, <1>2, <1>3 DEF Dispatch, Abstract!Emit, connVars

\* The read lock is where the broadcast begins: the map holds who is subscribed.
LEMMA RLockRefines ==
    ASSUME Inv, SInv, NEW p \in Publishers, RLock(p)
    PROVE  Abstract!Begin(p)
<1>1. Joined' = Joined /\ Boxes' = Boxes
    BY SameJoined, SameBoxes DEF RLock, connVars
<1>2. Begun' = [Begun EXCEPT ![p] = TRUE] /\ ~Begun[p]
    BY DEF Begun, RLock, Inv, BrokerTypes
<1>3. cur[p] # NoEvent
    BY EventIsNot DEF SInv, Speaking, RLock
<1>4. {subs[id] : id \in {i \in Ids : subs[i] # NoConn}}
      = {c \in Conns : Joined[c] \in {"in", "failing"}}
    <2>1. \A c \in Conns : Joined[c] \in {"in", "failing"} <=> wpc[c] \in Registered
        BY DEF Joined, Standing, Registered
    <2>2. \A id \in Ids : subs[id] # NoConn => subs[id] \in Conns /\ wpc[subs[id]] \in Registered
        BY DEF Inv, BrokerTypes, SubscriptionsMatchHandlers
    <2>3. \A c \in Conns : wpc[c] \in Registered =>
              sid[c] \in Ids /\ subs[sid[c]] = c /\ c # NoConn
        BY IdsSuffice, EventsAssumption DEF Inv, IdsAreUnique, SubscriptionsMatchHandlers
    <2>4. QED
        BY <2>1, <2>2, <2>3
<1>5. Owed' = [Owed EXCEPT ![p] = {c \in Conns : Joined[c] \in {"in", "failing"}}]
    <2>1. /\ todo'[p] = {id \in Ids : subs[id] # NoConn} /\ subs' = subs
          /\ \A q \in Publishers \ {p} : todo'[q] = todo[q]
        BY DEF Inv, BrokerTypes, RLock, brokerVars
    <2>2. \A q \in Publishers \ {p} : Owed'[q] = Owed[q]
        BY <2>1 DEF Owed
    <2>3. Owed'[p] = {subs[id] : id \in {i \in Ids : subs[i] # NoConn}}
        BY <2>1 DEF Owed
    <2>4. QED
        BY <1>4, <2>2, <2>3, OwedIsFunction
<1>6. QED
    BY <1>1, <1>2, <1>3, <1>5 DEF RLock, Abstract!Begin, connVars

\* What waits in the channel of a running handler.
LEMMA BoxOf ==
    ASSUME SInv, NEW c \in Conns, wpc[c] \in Registered
    PROVE  Boxes[c] = IF wpc[c] = "writing" THEN <<out[c]>> \o queue[c] ELSE queue[c]
BY EventIsNot DEF SInv, Writing, Boxes, Waiting

\* An iteration of the range puts the event into the box, or finds it full.
LEMMA OfferRefines ==
    ASSUME Inv, SInv, NEW p \in Publishers, NEW id \in Ids, Offer(p, id)
    PROVE  Abstract!Put(p, subs[id]) \/ Abstract!Overflow(p, subs[id])
<1> DEFINE c == subs[id]
           e == cur[p]
<1>1. ppc[p] = "publishing" /\ id \in todo[p]
    BY DEF Offer
<1>2. c \in Conns /\ wpc[c] \in Registered /\ sid[c] = id
    BY <1>1, Visited
<1>3. e \in Event /\ Len(queue[c]) \in Nat /\ Len(queue[c]) <= BUF /\ queue[c] \in Seq(Event)
    BY <1>1, <1>2 DEF SInv, StreamTypes, Speaking
<1>4. Joined' = Joined /\ Begun' = Begun /\ UNCHANGED <<sent, cur, delivered, wpc, out, subs>>
    BY SameJoined DEF Offer, Begun, connVars, brokerVars
<1>5. c \in Owed[p] /\ Owed' = [Owed EXCEPT ![p] = @ \ {c}]
    <2>1. \A i \in todo[p] : subs[i] = c => i = id
        BY <1>2, Visited
    <2>2. {subs[i] : i \in todo[p] \ {id}} = {subs[i] : i \in todo[p]} \ {c}
        BY <1>1, <2>1
    <2>3. /\ todo'[p] = todo[p] \ {id} /\ subs' = subs
          /\ \A q \in Publishers \ {p} : todo'[q] = todo[q]
        BY DEF Inv, BrokerTypes, Offer, brokerVars
    <2> HIDE DEF c
    <2>4. Owed[p] = {subs[i] : i \in todo[p]} /\ Owed'[p] = {subs[i] : i \in todo[p] \ {id}}
        BY <2>3 DEF Owed
    <2>5. \A q \in Publishers \ {p} : Owed'[q] = Owed[q]
        BY <2>3 DEF Owed
    <2>6. c \in Owed[p]
        BY <1>1, <2>4 DEF c
    <2>7. QED
        BY <2>2, <2>4, <2>5, <2>6, OwedIsFunction
<1>6. Boxes[c] = IF wpc[c] = "writing" THEN <<out[c]>> \o queue[c] ELSE queue[c]
    BY <1>2, BoxOf
<1>7. wpc[c] = "writing" => out[c] \in Event
    BY <1>2 DEF SInv, Writing
<1> HIDE DEF c, e
<1>8. queue' = [queue EXCEPT ![c] = AfterSend(c, e)]
    BY DEF Offer, c, e
<1>9. Len(Boxes[c]) = Len(queue[c]) \/ Len(Boxes[c]) = Len(queue[c]) + 1
    BY <1>3, <1>6, <1>7, OneBefore
<1>10. \A d \in Conns \ {c} : Boxes'[d] = Boxes[d]
    BY <1>4, <1>8 DEF SInv, StreamTypes, Boxes, Waiting
<1>11. CASE Len(queue[c]) < BUF
    <2>1. queue'[c] = Append(queue[c], e)
        BY <1>2, <1>8, <1>11 DEF SInv, StreamTypes, AfterSend
    <2>2. Boxes'[c] = IF wpc[c] = "writing" THEN <<out[c]>> \o Append(queue[c], e)
                      ELSE Append(queue[c], e)
        BY <1>2, <1>4, <2>1, EventIsNot DEF SInv, Writing, Boxes, Waiting
    <2>3. wpc[c] = "writing" =>
              <<out[c]>> \o Append(queue[c], e) = Append(<<out[c]>> \o queue[c], e)
        BY <1>3, <1>7, OneBefore
    <2>4. Boxes'[c] = Append(Boxes[c], e)
        BY <1>6, <2>2, <2>3
    <2>5. Boxes' = [Boxes EXCEPT ![c] = Append(@, e)]
        BY <1>2, <1>10, <2>4 DEF Boxes
    <2>6. Len(Boxes[c]) <= BUF
        BY <1>3, <1>9, <1>11, EventsAssumption
    <2>7. QED
        BY <1>4, <1>5, <2>5, <2>6 DEF Abstract!Put, c, e
<1>12. CASE Len(queue[c]) >= BUF
    <2>1. queue' = queue
        BY <1>3, <1>8, <1>12, EventsAssumption DEF SInv, StreamTypes, AfterSend
    <2>2. Boxes' = Boxes
        BY <1>4, <2>1 DEF Boxes, Waiting
    <2>3. Len(Boxes[c]) >= BUF
        BY <1>3, <1>9, <1>12, EventsAssumption
    <2>4. QED
        BY <1>4, <1>5, <2>2, <2>3 DEF Abstract!Overflow, c
<1>13. QED
    BY <1>3, <1>11, <1>12, EventsAssumption

\* The read lock is released when the range is done.
LEMMA RUnlockRefines ==
    ASSUME Inv, SInv, NEW p \in Publishers, RUnlock(p)
    PROVE  Abstract!End(p)
<1>1. Owed' = Owed /\ Joined' = Joined /\ Boxes' = Boxes
    BY SameOwed, SameJoined, SameBoxes DEF RUnlock, brokerVars, connVars
<1>2. Begun' = [Begun EXCEPT ![p] = FALSE] /\ Begun[p] /\ Owed[p] = {}
    BY DEF Begun, Owed, RUnlock, Inv, BrokerTypes
<1>3. QED
    BY <1>1, <1>2 DEF RUnlock, Abstract!End, connVars

\* A step that the broadcast does not see.
LEMMA QuietRefines ==
    ASSUME UNCHANGED <<ppc, cur, todo, sent, subs, delivered>>, Joined' = Joined, Boxes' = Boxes
    PROVE  UNCHANGED Abstract!vars
<1>1. Begun' = Begun /\ Owed' = Owed
    BY SameOwed DEF Begun
<1>2. QED
    BY <1>1 DEF Abstract!vars

\* A handler's step changes at most its own standing and box.
LEMMA OnlyOwn ==
    ASSUME Inv, SInv, NEW c \in Conns,
           \A d \in Conns \ {c} :
               wpc'[d] = wpc[d] /\ sid'[d] = sid[d] /\ out'[d] = out[d] /\ queue'[d] = queue[d]
    PROVE  /\ Joined' = [Joined EXCEPT ![c] = Standing(c)']
           /\ Boxes' = [Boxes EXCEPT ![c] = Waiting(c)']
           /\ Joined[c] = Standing(c) /\ Boxes[c] = Waiting(c)
           /\ Standing(c)' = Standing(c) => Joined' = Joined
           /\ Waiting(c)' = Waiting(c) => Boxes' = Boxes
<1>1. \A d \in Conns \ {c} : Standing(d)' = Standing(d)
    BY DEF Standing
<1>2. \A d \in Conns \ {c} : Waiting(d)' = Waiting(d)
    BY DEF Waiting
<1>3. /\ Joined = [d \in Conns |-> Standing(d)] /\ Joined' = [d \in Conns |-> Standing(d)']
      /\ Boxes = [d \in Conns |-> Waiting(d)] /\ Boxes' = [d \in Conns |-> Waiting(d)']
    BY DEF Joined, Boxes
<1>4. QED
    BY <1>1, <1>2, <1>3

\* What SInv says of the standing and the box of a handler in each state.
LEMMA Own ==
    ASSUME SInv, NEW c \in Conns
    PROVE  /\ wpc[c] \in {"loop", "pinging", "writing"} => Standing(c) = "in"
           /\ wpc[c] = "leaving" => Standing(c) = "failing"
           /\ wpc[c] \in {"new", "accepted", "joining"} => Standing(c) = "out"
           /\ wpc[c] \in {"loop", "pinging", "leaving"} => Waiting(c) = queue[c]
           /\ wpc[c] = "writing" => Waiting(c) = <<out[c]>> \o queue[c]
           /\ wpc[c] \notin Registered => Waiting(c) = <<>>
BY EventIsNot DEF SInv, Writing, Standing, Waiting, Registered

\* A new subscriber is in, with an empty box, and no broadcast is under way.
LEMMA SubscribeRefines ==
    ASSUME Inv, SInv, SInv', NEW c \in Conns, Subscribe(c)
    PROVE  Abstract!Join(c)
<1>1. /\ wpc[c] = "joining" /\ wpc'[c] = "loop" /\ queue[c] = <<>>
      /\ \A d \in Conns \ {c} : wpc'[d] = wpc[d]
      /\ UNCHANGED <<ppc, cur, todo, sent, sid, queue, out, delivered>>
    BY DEF Inv, BrokerTypes, SInv, Fresh, Subscribe, Goto, pubVars
<1>2. Owed' = Owed
    <2>1. \A p \in Publishers : todo[p] = {}
        BY DEF Inv, RangesHoldLock, Subscribe, Readers
    <2>2. QED
        BY <1>1, <2>1 DEF Owed
<1>3. Standing(c) = "out" /\ Standing(c)' = "in" /\ Waiting(c) = <<>> /\ Waiting(c)' = <<>>
    BY <1>1, Own DEF Registered, Standing, Waiting, SInv, Writing
<1>4. Joined[c] = "out" /\ Joined' = [Joined EXCEPT ![c] = "in"] /\ Boxes' = Boxes
    BY <1>1, <1>3, OnlyOwn
<1>5. QED
    BY <1>1, <1>2, <1>4 DEF Abstract!Join, Begun

\* An event leaves the channel: it is on its way out, or skipped.
LEMMA ReceiveRefines ==
    ASSUME Inv, SInv, SInv', NEW c \in Conns, Receive(c)
    PROVE  Abstract!Skip(c) \/ UNCHANGED Abstract!vars
<1> DEFINE e == Head(queue[c])
<1>1. /\ wpc[c] = "loop" /\ queue[c] # <<>> /\ queue'[c] = Tail(queue[c]) /\ out[c] = NoEvent
      /\ \/ eventAllowed(c, e) /\ wpc'[c] = "writing" /\ out'[c] = e
         \/ ~eventAllowed(c, e) /\ wpc'[c] = "loop" /\ out'[c] = NoEvent
      /\ \A d \in Conns \ {c} :
            wpc'[d] = wpc[d] /\ out'[d] = out[d] /\ queue'[d] = queue[d] /\ sid'[d] = sid[d]
      /\ UNCHANGED <<ppc, cur, todo, sent, subs, delivered>>
    BY DEF Inv, BrokerTypes, SInv, StreamTypes, Writing, Receive, Goto, pubVars, brokerVars
<1>2. Standing(c) = "in" /\ Standing(c)' = "in" /\ Waiting(c) = queue[c]
    BY <1>1, Own DEF Standing, Registered
<1>3. Joined[c] = "in" /\ Joined' = Joined /\ Boxes[c] = queue[c]
    BY <1>1, <1>2, OnlyOwn
<1>4. e \in Event /\ queue[c] = <<e>> \o Tail(queue[c])
    BY <1>1 DEF SInv, StreamTypes
<1> HIDE DEF e
<1>5. CASE eventAllowed(c, e) /\ wpc'[c] = "writing" /\ out'[c] = e
    <2>1. Waiting(c)' = <<e>> \o Tail(queue[c])
        BY <1>1, <1>4, <1>5, EventIsNot DEF Waiting, Registered
    <2>2. Boxes' = Boxes
        BY <1>1, <1>2, <1>4, <2>1, OnlyOwn
    <2>3. QED
        BY <1>1, <1>3, <2>2, QuietRefines
<1>6. CASE ~eventAllowed(c, e) /\ wpc'[c] = "loop" /\ out'[c] = NoEvent
    <2>1. Waiting(c)' = Tail(queue[c])
        BY <1>1, <1>6 DEF Waiting, Registered
    <2>2. Boxes' = [Boxes EXCEPT ![c] = Tail(Boxes[c])]
        BY <1>1, <1>3, <2>1, OnlyOwn
    <2>3. e.chat \notin Visible[c]
        BY <1>6 DEF Visible, eventAllowed
    <2>4. Begun' = Begun /\ Owed' = Owed
        BY <1>1, SameOwed DEF Begun
    <2>5. QED
        BY <1>1, <1>3, <2>2, <2>3, <2>4 DEF Abstract!Skip, e
<1>7. QED
    BY <1>1, <1>5, <1>6

\* The event on its way out is delivered.
LEMMA WriteDoneRefines ==
    ASSUME Inv, SInv, NEW c \in Conns, WriteDone(c)
    PROVE  Abstract!Deliver(c)
<1> DEFINE e == out[c]
<1>1. /\ wpc[c] = "writing" /\ wpc'[c] = "loop" /\ out'[c] = NoEvent
      /\ \A d \in Conns \ {c} :
            wpc'[d] = wpc[d] /\ out'[d] = out[d] /\ queue'[d] = queue[d] /\ sid'[d] = sid[d]
      /\ UNCHANGED <<ppc, cur, todo, sent, subs, queue>>
    BY DEF Inv, BrokerTypes, SInv, StreamTypes, WriteDone, Goto, pubVars, brokerVars
<1>2. e \in Event /\ e.chat \in Visible[c] /\ queue[c] \in Seq(Event)
    BY <1>1, EventParts DEF SInv, StreamTypes, Writing, Visible, chatAllowed, eventAllowed
<1>3. Standing(c) = "in" /\ Standing(c)' = "in" /\ Waiting(c) = <<e>> \o queue[c]
      /\ Waiting(c)' = queue[c]
    BY <1>1, Own DEF Standing, Waiting, Registered
<1>4. Joined[c] = "in" /\ Joined' = Joined /\ Boxes[c] = <<e>> \o queue[c]
      /\ Boxes' = [Boxes EXCEPT ![c] = queue[c]]
    BY <1>1, <1>3, OnlyOwn
<1>5. Boxes[c] # <<>> /\ Head(Boxes[c]) = e /\ Tail(Boxes[c]) = queue[c]
    BY <1>2, <1>4, OneBefore
<1>6. Begun' = Begun /\ Owed' = Owed
    BY <1>1, SameOwed DEF Begun
<1>7. delivered' = [delivered EXCEPT ![c][e.src] = e.n]
    BY DEF WriteDone
<1> HIDE DEF e
<1>8. QED
    BY <1>1, <1>2, <1>4, <1>5, <1>6, <1>7 DEF Abstract!Deliver

\* A connection fails between two events or under one.
LEMMA LeavingRefines ==
    ASSUME Inv, SInv, NEW c \in Conns, CtxDone(c) \/ PingFail(c) \/ WriteFail(c)
    PROVE  Abstract!Fail(c)
<1>1. /\ wpc[c] \in {"loop", "pinging", "writing"} /\ wpc'[c] = "leaving" /\ out'[c] = NoEvent
      /\ \A d \in Conns \ {c} :
            wpc'[d] = wpc[d] /\ out'[d] = out[d] /\ queue'[d] = queue[d] /\ sid'[d] = sid[d]
      /\ UNCHANGED <<ppc, cur, todo, sent, subs, queue, delivered>>
    BY DEF Inv, BrokerTypes, SInv, StreamTypes, Writing, CtxDone, PingFail, WriteFail, Goto,
       pubVars, brokerVars
<1>2. Standing(c) = "in" /\ Standing(c)' = "failing" /\ Waiting(c)' = queue[c]
    BY <1>1, Own DEF Standing, Waiting, Registered
<1>3. Joined[c] = "in" /\ Joined' = [Joined EXCEPT ![c] = "failing"] /\ Boxes[c] = Waiting(c)
      /\ Boxes' = [Boxes EXCEPT ![c] = queue[c]]
    BY <1>1, <1>2, OnlyOwn
<1>4. Boxes' = Boxes \/ (Boxes[c] # <<>> /\ Boxes' = [Boxes EXCEPT ![c] = Tail(Boxes[c])])
    <2>1. CASE wpc[c] = "writing"
        <3>1. out[c] \in Event /\ queue[c] \in Seq(Event) /\ Boxes[c] = <<out[c]>> \o queue[c]
            BY <1>3, <2>1, Own DEF SInv, StreamTypes, Writing
        <3>2. Boxes[c] # <<>> /\ Tail(Boxes[c]) = queue[c]
            BY <3>1, OneBefore
        <3>3. QED
            BY <1>3, <3>2
    <2>2. CASE wpc[c] # "writing"
        BY <1>1, <1>2, <2>2, Own, OnlyOwn
    <2>3. QED
        BY <2>1, <2>2
<1>5. Begun' = Begun /\ Owed' = Owed
    BY <1>1, SameOwed DEF Begun
<1>6. QED
    BY <1>1, <1>3, <1>4, <1>5 DEF Abstract!Fail

\* An unsubscribe waits for the ranges, so nobody owes the device anything.
LEMMA UnsubscribeRefines ==
    ASSUME Inv, SInv, NEW c \in Conns, Unsubscribe(c)
    PROVE  Abstract!Leave(c)
<1>1. /\ wpc[c] = "leaving" /\ wpc'[c] = "unsubscribed" /\ sid[c] # 0
      /\ \A d \in Conns \ {c} : wpc'[d] = wpc[d]
      /\ UNCHANGED <<ppc, cur, todo, sent, queue, out, sid, delivered>>
    BY DEF Inv, BrokerTypes, IdsAreUnique, Unsubscribe, Goto, pubVars, Registered
<1>2. \A p \in Publishers : todo[p] = {}
    BY DEF Inv, RangesHoldLock, Unsubscribe, Readers
<1>3. Owed' = Owed /\ \A p \in Publishers : c \notin Owed[p]
    BY <1>1, <1>2 DEF Owed
<1>4. Standing(c) = "failing" /\ Standing(c)' = "gone" /\ Waiting(c)' = <<>>
    BY <1>1, Own DEF Standing, Waiting, Registered
<1>5. Joined[c] = "failing" /\ Joined' = [Joined EXCEPT ![c] = "gone"]
      /\ Boxes' = [Boxes EXCEPT ![c] = <<>>]
    BY <1>1, <1>4, OnlyOwn
<1>6. QED
    BY <1>1, <1>3, <1>5 DEF Abstract!Leave, Begun

\* The steps of a handler that change neither its standing nor its box.
LEMMA QuietHandler ==
    ASSUME Inv, SInv, NEW c \in Conns,
           Accept(c) \/ TakeID(c) \/ PingTick(c) \/ Pong(c) \/ Return(c)
    PROVE  UNCHANGED Abstract!vars
<1>1. /\ \A d \in Conns \ {c} :
            wpc'[d] = wpc[d] /\ out'[d] = out[d] /\ queue'[d] = queue[d] /\ sid'[d] = sid[d]
      /\ UNCHANGED <<ppc, cur, todo, sent, subs, queue, out, delivered>>
    BY DEF Inv, BrokerTypes, Accept, TakeID, PingTick, Pong, Return, Goto, pubVars, brokerVars
<1>2. \/ wpc[c] = "new" /\ wpc'[c] \in {"accepted", "done"} /\ sid'[c] = 0 /\ sid[c] = 0
      \/ wpc[c] = "accepted" /\ wpc'[c] = "joining"
      \/ wpc[c] = "loop" /\ wpc'[c] = "pinging"
      \/ wpc[c] = "pinging" /\ wpc'[c] = "loop"
      \/ wpc[c] = "unsubscribed" /\ wpc'[c] = "done" /\ sid'[c] = sid[c]
    BY DEF Inv, BrokerTypes, IdsAreUnique, Accept, TakeID, PingTick, Pong, Return, Goto
<1>3. Standing(c)' = Standing(c)
    BY <1>2 DEF Standing, Registered
<1>4. Waiting(c)' = Waiting(c)
    BY <1>1, <1>2 DEF Waiting, Registered
<1>5. QED
    BY <1>1, <1>3, <1>4, OnlyOwn, QuietRefines

\* Every step is a step of the broadcast or invisible to it.
LEMMA NextRefines ==
    ASSUME Inv, SInv, SInv', [Next]_vars
    PROVE  [Abstract!Next]_(Abstract!vars)
<1>1. ASSUME UNCHANGED <<ppc, cur, todo, sent, subs, delivered, wpc, sid, queue, out>>
      PROVE  UNCHANGED Abstract!vars
    BY <1>1, SameJoined, SameBoxes, QuietRefines
<1>2. ASSUME NEW p \in Publishers, NEW chat \in Chats, NEW incoming \in BOOLEAN,
             Discard(p, chat, incoming)
      PROVE  UNCHANGED Abstract!vars
    BY <1>1, <1>2 DEF Discard, brokerVars, connVars
<1>3. ASSUME NEW p \in Publishers, NEW chat \in Chats, Dispatch(p, chat)
      PROVE  Abstract!Next
    BY <1>3, DispatchRefines DEF Abstract!Next
<1>4. ASSUME NEW p \in Publishers, Publish(p)
      PROVE  Abstract!Next
    <2>1. CASE RLock(p)
        BY <2>1, RLockRefines DEF Abstract!Next
    <2>2. ASSUME NEW id \in Ids, Offer(p, id)
          PROVE  Abstract!Next
        <3>1. subs[id] \in Conns
            BY <2>2, Visited DEF Offer
        <3>2. QED
            BY <2>2, <3>1, OfferRefines DEF Abstract!Next
    <2>3. CASE RUnlock(p)
        BY <2>3, RUnlockRefines DEF Abstract!Next
    <2>4. QED
        BY <1>4, <2>1, <2>2, <2>3 DEF Publish
<1>5. ASSUME NEW c \in Conns, Handler(c)
      PROVE  Abstract!Next \/ UNCHANGED Abstract!vars
    <2>1. CASE Accept(c) \/ TakeID(c) \/ PingTick(c) \/ Pong(c) \/ Return(c)
        BY <2>1, QuietHandler
    <2>2. CASE Lock(c)
        BY <1>1, <2>2 DEF Lock, pubVars, connVars
    <2>3. CASE Subscribe(c)
        BY <2>3, SubscribeRefines DEF Abstract!Next
    <2>4. CASE Receive(c)
        BY <2>4, ReceiveRefines DEF Abstract!Next
    <2>5. CASE WriteDone(c)
        BY <2>5, WriteDoneRefines DEF Abstract!Next
    <2>6. CASE CtxDone(c) \/ PingFail(c) \/ WriteFail(c)
        BY <2>6, LeavingRefines DEF Abstract!Next
    <2>7. CASE Unsubscribe(c)
        BY <2>7, UnsubscribeRefines DEF Abstract!Next
    <2>8. QED
        BY <1>5, <2>1, <2>2, <2>3, <2>4, <2>5, <2>6, <2>7 DEF Handler
<1>6. ASSUME NEW c \in Conns, ReadFail(c)
      PROVE  UNCHANGED Abstract!vars
    BY <1>1, <1>6 DEF ReadFail, pubVars, brokerVars
<1>7. ASSUME NEW c \in Conns, NEW how, PeerLost(c, how)
      PROVE  UNCHANGED Abstract!vars
    BY <1>1, <1>7 DEF PeerLost, pubVars, brokerVars
<1>8. CASE UNCHANGED vars
    BY <1>1, <1>8 DEF vars, pubVars, brokerVars, connVars
<1>9. QED
    BY <1>2, <1>3, <1>4, <1>5, <1>6, <1>7, <1>8 DEF Next

\* The event stream (dispatchMessage, broker, handleEvents) implements the
\* best-effort broadcast of Broadcast.
THEOREM EventsImplementBroadcast == Spec => ImplementsBroadcast
<1>1. Init => Abstract!Init
    BY InitRefines
<1>2. Inv /\ SInv /\ (Inv /\ SInv)' /\ [Next]_vars => [Abstract!Next]_(Abstract!vars)
    BY NextRefines
<1>3. QED
    BY <1>1, <1>2, StreamInvariant, PTL DEF Spec, ImplementsBroadcast, Abstract!Spec

=============================================================================
