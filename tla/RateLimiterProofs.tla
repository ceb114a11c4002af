-------------------------- MODULE RateLimiterProofs --------------------------
(***************************************************************************)
(* The token bucket is safe for every set of IPs, every token cost, burst, *)
(* map bound and length of run.  The window bound is not inductive: it     *)
(* says nothing of the units still in the bucket.  The strengthening adds  *)
(* them, as they would be after a refill now (Reserve).                    *)
(***************************************************************************)
EXTENDS RateLimiter, FiniteSetTheorems, TLAPS

\* Neither a bucket nor a window comes from the future.
ClockOrder == \A ip \in IPs : last[ip] <= now /\ since[ip] <= now

\* An IP without a bucket has nothing on its account.
NoBucketNoSpending == \A ip \in IPs \ buckets : spent[ip] = 0

\* What was granted in the window and what the bucket could grant now come out
\* of one burst and the refill of the window.
Reserve == \A ip \in buckets : spent[ip] + Refilled(ip) <= BURST + (now - since[ip])

IInv == TypeOK /\ ClockOrder /\ NoBucketNoSpending /\ Reserve

\* Refilled is a number of units between 0 and BURST (the clamp in allow).
LEMMA RefilledType ==
    ASSUME TypeOK, ClockOrder, NEW ip \in IPs
    PROVE  Refilled(ip) \in 0..BURST
BY LimiterAssumption DEF TypeOK, ClockOrder, Refilled, Smaller

\* No bucket exists at start.
LEMMA InitIInv == Init => IInv
BY LimiterAssumption
   DEF Init, IInv, TypeOK, ClockOrder, NoBucketNoSpending, Reserve, Refilled, Smaller

\* Time adds one unit to each side of Reserve, and to the left only below BURST.
LEMMA TickIInv == IInv /\ Tick => IInv'
<1> SUFFICES ASSUME IInv, Tick
             PROVE  IInv'
    OBVIOUS
<1> USE LimiterAssumption DEF IInv, TypeOK
<1>1. TypeOK' /\ ClockOrder' /\ NoBucketNoSpending'
    BY DEF Tick, ClockOrder, NoBucketNoSpending
<1>2. ASSUME NEW ip \in buckets
      PROVE  spent[ip] + Refilled(ip)' <= BURST + (now' - since[ip])
    BY DEF Tick, ClockOrder, Reserve, Refilled, Smaller
<1>3. QED
    BY <1>1, <1>2 DEF Tick, Reserve

\* A call of allow moves at most what the bucket holds to the account of its IP.
LEMMA AllowIInv == ASSUME NEW ip \in IPs
                   PROVE  IInv /\ allow(ip) => IInv'
<1> SUFFICES ASSUME IInv, allow(ip)
             PROVE  IInv'
    OBVIOUS
<1> USE LimiterAssumption DEF IInv
<1> DEFINE fresh == ip \notin buckets
           have  == IF fresh THEN BURST ELSE Refilled(ip)
           cost  == IF have >= TOKEN THEN TOKEN ELSE 0
<1>1. have \in 0..BURST
    BY RefilledType
<1>2. Charged(have) \in 0..BURST /\ Charged(have) + cost = have /\ cost \in Nat
    BY <1>1 DEF Charged
<1>3. PICK gone \in Evictions(ip) :
            /\ buckets' = (buckets \ gone) \cup {ip}
            /\ tokens' = Set(tokens, gone, ip, Charged(have))
            /\ last' = Set(last, gone, ip, now)
            /\ since' = Set(since, gone, ip, IF fresh THEN now ELSE since[ip])
            /\ spent' = Set(spent, gone, ip, spent[ip] + cost)
            /\ now' = now
    BY DEF allow
<1>4. gone \subseteq buckets /\ ip \notin gone
    BY <1>3 DEF Evictions
<1> HIDE DEF fresh, have, cost
<1>5. TypeOK'
    BY <1>2, <1>3 DEF TypeOK, Set
<1>6. ClockOrder'
    BY <1>3 DEF TypeOK, ClockOrder, Set
<1>7. NoBucketNoSpending'
    BY <1>3, <1>4 DEF TypeOK, NoBucketNoSpending, Set
<1>8. Reserve'
    <2> SUFFICES ASSUME NEW j \in buckets'
                 PROVE  spent'[j] + Refilled(j)' <= BURST + (now' - since'[j])
        BY DEF Reserve
    <2>1. j \in IPs
        BY <1>5 DEF TypeOK
    <2>2. CASE j # ip
        <3>1. j \in buckets /\ j \notin gone
            BY <1>3, <2>2
        <3>2. /\ tokens'[j] = tokens[j] /\ last'[j] = last[j]
              /\ since'[j] = since[j] /\ spent'[j] = spent[j]
            BY <1>3, <2>1, <2>2, <3>1 DEF Set
        <3>3. Refilled(j)' = Refilled(j)
            BY <1>3, <3>2 DEF Refilled
        <3>4. QED
            BY <1>3, <3>1, <3>2, <3>3 DEF Reserve
    <2>3. CASE j = ip
        <3>1. /\ tokens'[ip] = Charged(have) /\ last'[ip] = now
              /\ spent'[ip] = spent[ip] + cost
              /\ since'[ip] = IF fresh THEN now ELSE since[ip]
            BY <1>3 DEF Set
        <3>2. Refilled(ip)' = Charged(have)
            BY <1>2, <1>3, <3>1 DEF Refilled, Smaller, TypeOK
        <3>3. spent[ip] + have <= BURST + (now - since'[ip])
            <4>1. CASE fresh
                BY <4>1, <3>1 DEF fresh, have, NoBucketNoSpending, TypeOK
            <4>2. CASE ~fresh
                BY <4>2, <3>1 DEF fresh, have, Reserve
            <4>3. QED
                BY <4>1, <4>2
        <3>4. spent[ip] \in Nat
            BY DEF TypeOK
        <3>5. QED
            BY <1>1, <1>2, <1>3, <2>3, <3>1, <3>2, <3>3, <3>4
    <2>4. QED
        BY <2>2, <2>3
<1>9. QED
    BY <1>5, <1>6, <1>7, <1>8

\* A window that opens now starts from a bucket of at most BURST units.
LEMMA OpenWindowIInv == ASSUME NEW ip \in IPs
                        PROVE  IInv /\ OpenWindow(ip) => IInv'
<1> SUFFICES ASSUME IInv, OpenWindow(ip)
             PROVE  IInv'
    OBVIOUS
<1> USE LimiterAssumption DEF IInv
<1>1. TypeOK' /\ ClockOrder' /\ NoBucketNoSpending'
    BY DEF OpenWindow, TypeOK, ClockOrder, NoBucketNoSpending
<1>2. ASSUME NEW j \in buckets
      PROVE  spent'[j] + Refilled(j) <= BURST + (now - since'[j])
    <2>1. Refilled(j) \in 0..BURST
        BY RefilledType DEF TypeOK
    <2>2. QED
        BY <2>1 DEF OpenWindow, TypeOK, Reserve
<1>3. QED
    BY <1>1, <1>2 DEF OpenWindow, Reserve, Refilled

\* The strengthened invariant holds in every reachable state.
THEOREM LimiterInvariant == Spec => []IInv
<1>1. IInv /\ [Next]_vars => IInv'
    <2> SUFFICES ASSUME IInv, [Next]_vars
                 PROVE  IInv'
        OBVIOUS
    <2>1. CASE Tick
        BY <2>1, TickIInv
    <2>2. ASSUME NEW ip \in IPs, allow(ip)
          PROVE  IInv'
        BY <2>2, AllowIInv
    <2>3. ASSUME NEW ip \in IPs, OpenWindow(ip)
          PROVE  IInv'
        BY <2>3, OpenWindowIInv
    <2>4. CASE UNCHANGED vars
        BY <2>4 DEF vars, IInv, TypeOK, ClockOrder, NoBucketNoSpending, Reserve,
                    Refilled, Smaller
    <2>5. QED
        BY <2>1, <2>2, <2>3, <2>4 DEF Next
<1>2. QED
    BY InitIInv, <1>1, PTL DEF Spec

\* For every window of every run, whatever the constants: allow grants an IP at
\* most one burst plus the refill of the window.
THEOREM LimiterWindowBound == Spec => []WindowBound
<1>1. IInv => WindowBound
    <2> SUFFICES ASSUME IInv, NEW ip \in buckets
                 PROVE  spent[ip] <= BURST + (now - since[ip])
        BY DEF WindowBound
    <2>1. Refilled(ip) \in 0..BURST
        BY RefilledType DEF IInv, TypeOK
    <2>2. QED
        BY <2>1, LimiterAssumption DEF IInv, TypeOK, Reserve
<1>2. QED
    BY LimiterInvariant, <1>1, PTL

\* A client that lets one token period pass after its last request is never
\* refused by allow.
THEOREM LimiterSpacedRequestsPass == Spec => SpacedRequestsPass
<1> DEFINE Refusal(ip) == /\ ip \in buckets'
                          /\ last'[ip] # last[ip]
                          /\ spent'[ip] = spent[ip]
           Excused(ip) == ip \in buckets /\ now - last[ip] < TOKEN
<1>1. ASSUME IInv, [Next]_vars, NEW ip \in IPs, Refusal(ip)
      PROVE  Excused(ip)
    <2> USE LimiterAssumption DEF IInv, TypeOK
    <2>1. PICK j \in IPs : allow(j)
        BY <1>1 DEF Next, Tick, OpenWindow, vars
    <2> DEFINE have == IF j \notin buckets THEN BURST ELSE Refilled(j)
               cost == IF have >= TOKEN THEN TOKEN ELSE 0
    <2>2. PICK gone \in Evictions(j) :
                /\ buckets' = (buckets \ gone) \cup {j}
                /\ last' = Set(last, gone, j, now)
                /\ spent' = Set(spent, gone, j, spent[j] + cost)
        BY <2>1 DEF allow
    <2>3. ip = j
        BY <1>1, <2>2 DEF Set
    <2>4. spent'[ip] = spent[ip] + cost
        BY <2>2, <2>3 DEF Set
    <2>5. ~(have >= TOKEN)
        BY <1>1, <2>4
    <2>6. QED
        BY <1>1, <2>3, <2>5 DEF ClockOrder, Refilled, Smaller
<1>2. IInv /\ [Next]_vars => [\A ip \in IPs : Refusal(ip) => Excused(ip)]_vars
    BY <1>1
<1>3. QED
    BY LimiterInvariant, <1>2, PTL DEF Spec, SpacedRequestsPass

\* Clock, buckets and tokens keep their types; no bucket holds more than BURST.
THEOREM LimiterTypeOK == Spec => []TypeOK
<1>1. IInv => TypeOK
    BY DEF IInv
<1>2. QED
    BY LimiterInvariant, <1>1, PTL

\* The map of buckets is finite and never more than one entry over its limit.
THEOREM LimiterBucketsBounded == Spec => []BucketsBounded
<1> DEFINE Bounded == IsFiniteSet(buckets) /\ BucketsBounded
<1> USE LimiterAssumption DEF BucketsBounded
<1>1. Init => Bounded
    BY FS_EmptySet DEF Init
<1>2. Bounded /\ [Next]_vars => Bounded'
    <2> SUFFICES ASSUME Bounded, [Next]_vars
                 PROVE  Bounded'
        OBVIOUS
    <2>1. CASE UNCHANGED buckets
        BY <2>1
    <2>2. ASSUME NEW ip \in IPs, allow(ip)
          PROVE  Bounded'
        <3>1. PICK gone \in Evictions(ip) : buckets' = (buckets \ gone) \cup {ip}
            BY <2>2 DEF allow
        <3>2. Cardinality(buckets) \in Nat
            BY FS_CardinalityType
        <3>3. CASE ip \in buckets
            <4>1. buckets' = buckets
                BY <3>1, <3>3 DEF Evictions
            <4>2. QED
                BY <4>1
        <3>4. CASE ip \notin buckets /\ Cardinality(buckets) > MAX_BUCKETS
            <4>1. PICK k \in buckets : gone = {k}
                BY <3>1, <3>4 DEF Evictions
            <4>2. /\ IsFiniteSet(buckets \ {k})
                  /\ Cardinality(buckets \ {k}) = Cardinality(buckets) - 1
                BY <4>1, FS_RemoveElement
            <4>3. ip \notin buckets \ {k}
                BY <3>4
            <4>4. /\ IsFiniteSet((buckets \ {k}) \cup {ip})
                  /\ Cardinality((buckets \ {k}) \cup {ip}) = Cardinality(buckets \ {k}) + 1
                BY <4>2, <4>3, FS_AddElement
            <4>5. QED
                BY <3>1, <3>2, <4>1, <4>2, <4>4
        <3>5. CASE ip \notin buckets /\ ~(Cardinality(buckets) > MAX_BUCKETS)
            <4>1. buckets' = buckets \cup {ip}
                BY <3>1, <3>5 DEF Evictions
            <4>2. /\ IsFiniteSet(buckets \cup {ip})
                  /\ Cardinality(buckets \cup {ip}) = Cardinality(buckets) + 1
                BY <3>5, FS_AddElement
            <4>3. QED
                BY <3>2, <3>5, <4>1, <4>2
        <3>6. QED
            BY <3>3, <3>4, <3>5
    <2>3. QED
        BY <2>1, <2>2 DEF Next, Tick, OpenWindow, vars
<1>3. QED
    BY <1>1, <1>2, PTL DEF Spec

=============================================================================
