----------------------------- MODULE Broadcast -----------------------------
(***************************************************************************)
(* What the event stream promises its devices, without ids, locks, maps or *)
(* channels: a best-effort broadcast.  An event goes once to everybody who *)
(* is subscribed when its broadcast begins, unless CAPACITY events wait    *)
(* for the subscriber already.  What waits is delivered in order, except   *)
(* what the device may not see, until the connection fails.                *)
(***************************************************************************)
EXTENDS Integers, Sequences

CONSTANTS Devices,
          Sources,   \* of events; each broadcasts one event at a time
          Chats,
          Visible,   \* the chats that a device may see
          NoEvent,
          CAPACITY

VARIABLES
    emitted,  \* number of events of a source
    current,  \* the event a source is broadcasting, or NoEvent
    begun,    \* its broadcast has begun
    owed,     \* devices that it has still to reach
    joined,   \* a device is "out", "in", "failing" (still subscribed) or "gone"
    box,      \* events that wait for a device
    last      \* number of the last event of each source delivered to a device

vars == <<emitted, current, begun, owed, joined, box, last>>

Init ==
    /\ emitted = [s \in Sources |-> 0]
    /\ current = [s \in Sources |-> NoEvent]
    /\ begun = [s \in Sources |-> FALSE]
    /\ owed = [s \in Sources |-> {}]
    /\ joined = [d \in Devices |-> "out"]
    /\ box = [d \in Devices |-> <<>>]
    /\ last = [d \in Devices |-> [s \in Sources |-> 0]]

Emit(s, chat) ==
    /\ current[s] = NoEvent
    /\ emitted' = [emitted EXCEPT ![s] = @ + 1]
    /\ current' = [current EXCEPT ![s] = [src |-> s, n |-> emitted[s] + 1, chat |-> chat]]
    /\ UNCHANGED <<begun, owed, joined, box, last>>

\* The broadcast begins: from now on it is owed to everybody who is subscribed.
Begin(s) ==
    /\ current[s] # NoEvent /\ ~begun[s]
    /\ begun' = [begun EXCEPT ![s] = TRUE]
    /\ owed' = [owed EXCEPT ![s] = {d \in Devices : joined[d] \in {"in", "failing"}}]
    /\ UNCHANGED <<emitted, current, joined, box, last>>

\* One event may be on its way to the device, outside of the channel.
Put(s, d) ==
    /\ d \in owed[s] /\ Len(box[d]) <= CAPACITY
    /\ owed' = [owed EXCEPT ![s] = @ \ {d}]
    /\ box' = [box EXCEPT ![d] = Append(@, current[s])]
    /\ UNCHANGED <<emitted, current, begun, joined, last>>

\* The only way to lose an event on its way into the box.
Overflow(s, d) ==
    /\ d \in owed[s] /\ Len(box[d]) >= CAPACITY
    /\ owed' = [owed EXCEPT ![s] = @ \ {d}]
    /\ UNCHANGED <<emitted, current, begun, joined, box, last>>

End(s) ==
    /\ begun[s] /\ owed[s] = {}
    /\ begun' = [begun EXCEPT ![s] = FALSE]
    /\ current' = [current EXCEPT ![s] = NoEvent]
    /\ UNCHANGED <<emitted, owed, joined, box, last>>

Join(d) ==
    /\ joined[d] = "out"
    /\ joined' = [joined EXCEPT ![d] = "in"]
    /\ UNCHANGED <<emitted, current, begun, owed, box, last>>

\* The first event that waits is delivered.
Deliver(d) ==
    /\ joined[d] = "in" /\ box[d] # <<>> /\ Head(box[d]).chat \in Visible[d]
    /\ last' = [last EXCEPT ![d][Head(box[d]).src] = Head(box[d]).n]
    /\ box' = [box EXCEPT ![d] = Tail(@)]
    /\ UNCHANGED <<emitted, current, begun, owed, joined>>

\* It is not for this device.
Skip(d) ==
    /\ joined[d] = "in" /\ box[d] # <<>> /\ Head(box[d]).chat \notin Visible[d]
    /\ box' = [box EXCEPT ![d] = Tail(@)]
    /\ UNCHANGED <<emitted, current, begun, owed, joined, last>>

\* The connection fails, perhaps under an event: nothing is delivered any more.
Fail(d) ==
    /\ joined[d] = "in"
    /\ joined' = [joined EXCEPT ![d] = "failing"]
    /\ \/ UNCHANGED box
       \/ box[d] # <<>> /\ box' = [box EXCEPT ![d] = Tail(@)]
    /\ UNCHANGED <<emitted, current, begun, owed, last>>

\* No broadcast is left with a debt to a device that is gone.
Leave(d) ==
    /\ joined[d] = "failing" /\ \A s \in Sources : d \notin owed[s]
    /\ joined' = [joined EXCEPT ![d] = "gone"]
    /\ box' = [box EXCEPT ![d] = <<>>]
    /\ UNCHANGED <<emitted, current, begun, owed, last>>

Next ==
    \/ \E s \in Sources : Begin(s) \/ End(s) \/ \E chat \in Chats : Emit(s, chat)
    \/ \E s \in Sources, d \in Devices : Put(s, d) \/ Overflow(s, d)
    \/ \E d \in Devices : Join(d) \/ Deliver(d) \/ Skip(d) \/ Fail(d) \/ Leave(d)

Spec == Init /\ [][Next]_vars

=============================================================================
