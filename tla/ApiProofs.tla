----------------------------- MODULE ApiProofs -----------------------------
(***************************************************************************)
(* Theorems about the HTTP API as a whole, for any photos, clients, number *)
(* of requests and files left by earlier runs: the photo that an id is     *)
(* answered with is the one that was shown with it, downloaded or cached,  *)
(* the thumbnail is the smallest there is, and photo requests change       *)
(* nothing of what PeersProofs shows of chat requests.                     *)
(***************************************************************************)
EXTENDS Api, PeersProofs

-----------------------------------------------------------------------------
\* The thumbnail.  What the loop of pickSmallestPhotoSize computes is shown without
\* induction: of the sets of indexes it would be wrong for, one would be smallest.

\* Among subsets of a finite set there is one that no other is part of.
LEMMA SmallestSet ==
    ASSUME NEW K, IsFiniteSet(K), NEW T \in SUBSET SUBSET K, T # {}
    PROVE  \E m \in T : \A s \in T : s \subseteq m => s = m
<1>1. T \subseteq FiniteSubsetsOf(K)
    BY FS_Subset DEF FiniteSubsetsOf
<1>2. IsWellFoundedOn(StrictSubsetOrdering(K), FiniteSubsetsOf(K))
    BY FS_StrictSubsetOrderingWellFounded
<1>3. PICK m \in T : \A s \in T : <<s, m>> \notin StrictSubsetOrdering(K)
    BY <1>1, <1>2, WFMin
<1>4. ASSUME NEW s \in T, s \subseteq m, s # m
      PROVE  FALSE
    <2>1. <<s, m>> \in StrictSubsetOrdering(K)
        BY <1>4 DEF StrictSubsetOrdering
    <2>2. QED
        BY <1>3, <2>1
<1>5. QED
    BY <1>4

\* A finite set of integers that is not empty has a last one.
LEMMA LastOf ==
    ASSUME NEW S, IsFiniteSet(S), S \subseteq Int, S # {}
    PROVE  Max(S) \in S
<1> DEFINE T == {{y \in S : y > x} : x \in S}
<1>0. IsFiniteSet(S)
    OBVIOUS
<1>1. T \in SUBSET SUBSET S /\ T # {}
    OBVIOUS
<1> HIDE DEF T
<1>2. PICK m \in T : \A s \in T : s \subseteq m => s = m
    BY ONLY <1>0, <1>1, SmallestSet
<1> USE DEF T
<1>3. PICK x \in S : m = {y \in S : y > x}
    BY <1>2
<1>4. ASSUME NEW z \in S, z > x
      PROVE  FALSE
    <2> DEFINE r == {y \in S : y > z}
    <2>1. z \in m /\ z \notin r
        BY <1>3, <1>4
    <2>2. \A y \in r : y \in m
        BY <1>3, <1>4
    <2>3. r \in T
        BY <1>4
    <2>4. QED
        BY <1>2, <2>1, <2>2, <2>3
<1>5. \E k \in S : \A y \in S : k >= y
    BY <1>3, <1>4
<1>6. QED
    BY <1>5 DEF Max

\* Finitely many indexes, of which any have a last one.
Positions(K) == IsFiniteSet(K) /\ \A s \in SUBSET K : s # {} => Max(s) \in s

\* A sequence has such indexes.
LEMMA PositionsOf == ASSUME NEW n \in Nat PROVE Positions(1..n)
<1>1. IsFiniteSet(1..n) /\ 1..n \subseteq Int
    BY FS_Interval
<1>2. \A s \in SUBSET (1..n) : IsFiniteSet(s)
    BY <1>1, FS_Subset
<1>3. \A s \in SUBSET (1..n) : s # {} => Max(s) \in s
    BY <1>1, <1>2, LastOf
<1>4. QED
    BY <1>1, <1>3 DEF Positions

\* The sizes of a photo.
Sizes == Seq([class : STRING, type : Seq(Nat), px : Nat, sizes : Seq(Nat)])

\* A function that the fold might choose for the indexes K, its value, and the
\* equation that is to be shown of the value.
PickOn(F, K, sizes) ==
    F = [s \in SUBSET K |->
            IF s = {} THEN NoThumb ELSE PickStep(F[s \ {Max(s)}], sizes[Max(s)])]
Best(sizes, K) == (CHOOSE F : PickOn(F, K, sizes))[K]
StepOf(sizes, s) ==
    Best(sizes, s) = IF s = {} THEN NoThumb
                     ELSE PickStep(Best(sizes, s \ {Max(s)}), sizes[Max(s)])

\* The loop is such a fold.
LEMMA PickIsBest ==
    ASSUME NEW sizes
    PROVE  pickSmallestPhotoSize(sizes) = Best(sizes, DOMAIN sizes)
BY DEF pickSmallestPhotoSize, FoldLeft, MapThenFoldSet, Best, PickOn

\* Two functions that the fold might choose agree.
LEMMA PickOnUnique ==
    ASSUME NEW K, Positions(K), NEW sizes,
           NEW F, NEW G, PickOn(F, K, sizes), PickOn(G, K, sizes)
    PROVE  F[K] = G[K]
<1> DEFINE T == {s \in SUBSET K : F[s] # G[s]}
<1>0. IsFiniteSet(K)
    BY DEF Positions
<1>1. ASSUME T # {}
      PROVE  FALSE
    <2>0. T \in SUBSET SUBSET K
        OBVIOUS
    <2> HIDE DEF T
    <2>1. PICK m \in T : \A s \in T : s \subseteq m => s = m
        BY <1>0, <1>1, <2>0, SmallestSet
    <2> USE DEF T
    <2>2. m # {} => Max(m) \in m /\ m \ {Max(m)} \in SUBSET K /\ m \ {Max(m)} \notin T
        BY <2>1 DEF Positions
    <2>3. F[m] = IF m = {} THEN NoThumb ELSE PickStep(F[m \ {Max(m)}], sizes[Max(m)])
        BY DEF PickOn
    <2>4. G[m] = IF m = {} THEN NoThumb ELSE PickStep(G[m \ {Max(m)}], sizes[Max(m)])
        BY DEF PickOn
    <2>5. QED
        BY <2>1, <2>2, <2>3, <2>4
<1>2. QED
    BY <1>1

\* The loop takes one index at a time, the last one last.
LEMMA BestStep ==
    ASSUME NEW K, Positions(K), NEW sizes
    PROVE  StepOf(sizes, K)
<1> DEFINE T == {s \in SUBSET K : ~StepOf(sizes, s)}
<1>0. IsFiniteSet(K)
    BY DEF Positions
<1>1. ASSUME T # {}
      PROVE  FALSE
    <2>0. T \in SUBSET SUBSET K
        OBVIOUS
    <2> HIDE DEF T
    <2>1. PICK m \in T : \A s \in T : s \subseteq m => s = m
        BY <1>0, <1>1, <2>0, SmallestSet
    <2> USE DEF T
    <2> DEFINE val == IF m = {} THEN NoThumb
                      ELSE PickStep(Best(sizes, m \ {Max(m)}), sizes[Max(m)])
               F == [s \in SUBSET m |-> IF s = m THEN val ELSE Best(sizes, s)]
    <2>2. \A s \in SUBSET m : s # m => StepOf(sizes, s)
        BY <2>1
    <2>3. \A s \in SUBSET m : s # {} => s \ {Max(s)} \in SUBSET m /\ s \ {Max(s)} # m
        BY <2>1 DEF Positions
    <2>4. ASSUME NEW s \in SUBSET m
          PROVE  F[s] = IF s = {} THEN NoThumb ELSE PickStep(F[s \ {Max(s)}], sizes[Max(s)])
        <3>1. s # {} => F[s \ {Max(s)}] = Best(sizes, s \ {Max(s)})
            BY <2>3
        <3>2. CASE s = m
            BY <3>1, <3>2
        <3>3. CASE s # m
            BY <2>2, <3>1, <3>3 DEF StepOf
        <3>4. QED
            BY <3>2, <3>3
    <2>5. F = [s \in SUBSET m |-> F[s]]
        OBVIOUS
    <2> HIDE DEF F
    <2>6. PickOn(F, m, sizes)
        BY <2>4, <2>5 DEF PickOn
    <2>6a. Positions(m)
        BY <2>1, FS_Subset DEF Positions
    <2>7. PickOn(CHOOSE G : PickOn(G, m, sizes), m, sizes)
        BY <2>6
    <2>8. Best(sizes, m) = F[m]
        BY <2>1, <2>6, <2>6a, <2>7, PickOnUnique DEF Best
    <2>9. F[m] = val
        BY DEF F
    <2>10. QED
        BY <2>1, <2>8, <2>9 DEF StepOf
<1>2. QED
    BY <1>1

\* What the best of the sizes at s is to be.
Smallest(best, sizes, s) ==
    LET fetch == {j \in s : Downloadable(sizes[j])}
    IN  /\ best.ok <=> fetch # {}
        /\ fetch = {} => best = NoThumb
        /\ best.type \in Seq(Nat)
        /\ fetch # {} => \E j \in fetch :
              /\ sizes[j].type = best.type /\ sizes[j].px = best.px
              /\ \A k \in fetch : sizes[j].px <= sizes[k].px
              /\ sizes[j].sizes # <<>> => best.bytes = sizes[j].sizes[1]

\* One iteration keeps the smallest of two.
LEMMA StepSmallest ==
    ASSUME NEW sizes \in Sizes, NEW s, s \subseteq 1..Len(sizes), NEW x \in s,
           NEW best, Smallest(best, sizes, s \ {x})
    PROVE  Smallest(PickStep(best, sizes[x]), sizes, s)
<1> DEFINE old == {j \in s \ {x} : Downloadable(sizes[j])}
           fetch == {j \in s : Downloadable(sizes[j])}
           z == sizes[x]
<1>1. \A j \in s : /\ sizes[j] \in [class : STRING, type : Seq(Nat), px : Nat, sizes : Seq(Nat)]
                    /\ sizes[j].type \in Seq(Nat) /\ sizes[j].px \in Nat
    <2> DEFINE A == [class : STRING, type : Seq(Nat), px : Nat, sizes : Seq(Nat)]
    <2>1. \A j \in 1..Len(sizes) : sizes[j] \in A
        <3>1. sizes \in Seq(A)
            BY DEF Sizes
        <3> HIDE DEF A
        <3>2. QED
            BY <3>1
    <2>2. QED
        BY <2>1
<1>2. CASE ~Downloadable(z)
    <2>1. fetch = old /\ PickStep(best, z) = best
        BY <1>2 DEF PickStep, Better
    <2>2. QED
        BY <2>1 DEF Smallest
<1>3. CASE Downloadable(z) /\ Better(best, z)
    <2> DEFINE new == PickStep(best, z)
    <2>1. new.px = z.px /\ new.type = z.type /\ new.ok = TRUE
          /\ (z.sizes # <<>> => new.bytes = z.sizes[1])
        BY <1>3 DEF PickStep
    <2>2. x \in fetch /\ fetch = old \cup {x}
        BY <1>3
    <2>3. \A k \in fetch : z.px <= sizes[k].px
        <3>1. z.px <= z.px /\ z.px \in Nat
            BY <1>1
        <3>2. ASSUME NEW k \in old
              PROVE  z.px <= sizes[k].px
            <4>1. PICK j \in old : sizes[j].px = best.px /\ sizes[j].px <= sizes[k].px
                BY <3>2 DEF Smallest
            <4>2. z.px < best.px
                BY <1>1, <1>3, <4>1 DEF Better
            <4>3. QED
                BY <1>1, <4>1, <4>2
        <3>3. QED
            BY <2>2, <3>1, <3>2
    <2>4. new.type \in Seq(Nat)
        BY <1>1, <2>1
    <2> HIDE DEF new
    <2>5. Smallest(new, sizes, s)
        BY <2>1, <2>2, <2>3, <2>4 DEF Smallest
    <2>6. QED
        BY <2>5 DEF new
<1>4. CASE Downloadable(z) /\ ~Better(best, z)
    <2>1. PickStep(best, z) = best
        BY <1>4 DEF PickStep
    <2>2. fetch = old \cup {x}
        BY <1>4
    <2>3. old # {}
        BY <1>4 DEF Better, Smallest, NoThumb
    <2>4. PICK j \in old : /\ sizes[j].type = best.type /\ sizes[j].px = best.px
                           /\ \A k \in old : sizes[j].px <= sizes[k].px
                           /\ sizes[j].sizes # <<>> => best.bytes = sizes[j].sizes[1]
        BY <2>3 DEF Smallest
    <2>5. sizes[j].px <= z.px
        BY <1>1, <1>4, <2>4 DEF Better
    <2>6. QED
        BY <2>1, <2>2, <2>3, <2>4, <2>5 DEF Smallest
<1>5. QED
    BY <1>2, <1>3, <1>4

\* The thumbnail is the smallest of all sizes that can be fetched.
LEMMA PickSmallest ==
    ASSUME NEW sizes \in Sizes
    PROVE  Smallest(pickSmallestPhotoSize(sizes), sizes, 1..Len(sizes))
<1> DEFINE K == 1..Len(sizes)
           T == {s \in SUBSET K : ~Smallest(Best(sizes, s), sizes, s)}
<1>0. Positions(K) /\ IsFiniteSet(K) /\ DOMAIN sizes = K
    BY PositionsOf DEF Sizes, Positions
<1> HIDE DEF K
<1>1. ASSUME T # {}
      PROVE  FALSE
    <2>0. T \in SUBSET SUBSET K
        OBVIOUS
    <2> HIDE DEF T
    <2>1. PICK m \in T : \A s \in T : s \subseteq m => s = m
        BY <1>0, <1>1, <2>0, SmallestSet
    <2> USE DEF T
    <2>2. Positions(m) /\ Positions({})
        BY <1>0, <2>1, FS_Subset DEF Positions
    <2>3. StepOf(sizes, m)
        BY <2>2, BestStep
    <2>4. m # {}
        <3>1. Best(sizes, {}) = NoThumb
            BY <2>2, BestStep DEF StepOf
        <3>2. Smallest(NoThumb, sizes, {})
            BY DEF Smallest, NoThumb
        <3>3. QED
            BY <2>1, <3>1, <3>2
    <2> DEFINE x == Max(m)
    <2>5. x \in m
        BY <2>2, <2>4 DEF Positions
    <2>6. m \ {x} \in SUBSET K /\ m \ {x} \notin T
        BY <2>1, <2>5
    <2>7. Best(sizes, m) = PickStep(Best(sizes, m \ {x}), sizes[x])
        BY <2>3, <2>4 DEF StepOf
    <2> HIDE DEF x
    <2>8. Smallest(Best(sizes, m \ {x}), sizes, m \ {x})
        BY <2>6
    <2>9. m \subseteq 1..Len(sizes)
        BY <2>1 DEF K
    <2>10. Smallest(Best(sizes, m), sizes, m)
        BY <2>5, <2>7, <2>8, <2>9, StepSmallest
    <2>11. QED
        BY <2>1, <2>10
<1>2. Smallest(Best(sizes, K), sizes, K)
    BY <1>1
<1>3. QED
    BY <1>0, <1>2, PickIsBest DEF K

-----------------------------------------------------------------------------
\* Media ids.

\* Two byte sequences, one after the other.
LEMMA Appended ==
    ASSUME NEW s \in Seq(Int), NEW t \in Seq(Int)
    PROVE  /\ s \o t \in Seq(Int) /\ Len(s \o t) = Len(s) + Len(t)
           /\ \A i \in 1..Len(s) : (s \o t)[i] = s[i]
           /\ \A i \in 1..Len(t) : (s \o t)[Len(s) + i] = t[i]
<1>1. /\ s \o t \in Seq(Int) /\ Len(s \o t) = Len(s) + Len(t)
      /\ \A i \in 1..Len(s) : (s \o t)[i] = s[i]
    OBVIOUS
<1>2. ASSUME NEW i \in 1..Len(t)
      PROVE  (s \o t)[Len(s) + i] = t[i]
    <2>1. Len(s) + i \in 1..Len(s) + Len(t) /\ Len(s) + i > Len(s) /\ (Len(s) + i) - Len(s) = i
        OBVIOUS
    <2>2. (s \o t)[Len(s) + i] = t[(Len(s) + i) - Len(s)]
        BY <2>1
    <2>3. QED
        BY <2>1, <2>2
<1>3. QED
    BY <1>1, <1>2

\* A slice of a byte sequence.
LEMMA Sliced ==
    ASSUME NEW s \in Seq(Int), NEW a \in Nat, NEW n \in Nat, a + n <= Len(s)
    PROVE  /\ SubSeq(s, a + 1, a + n) \in Seq(Int) /\ Len(SubSeq(s, a + 1, a + n)) = n
           /\ \A i \in 1..n : SubSeq(s, a + 1, a + n)[i] = s[a + i]
<1> DEFINE c == SubSeq(s, a + 1, a + n)
<1>1. c = [i \in 1..n |-> s[a + i]]
    <2>1. (a + n) - (a + 1) + 1 = n
        OBVIOUS
    <2>2. \A i \in 1..n : i + (a + 1) - 1 = a + i
        OBVIOUS
    <2>3. c = [i \in 1..n |-> s[i + (a + 1) - 1]]
        BY <2>1
    <2>4. QED
        BY <2>2, <2>3
<1> HIDE DEF c
<1>2. \A i \in 1..n : a + i \in 1..Len(s) /\ s[a + i] \in Int
    OBVIOUS
<1>3. c \in Seq(Int) /\ Len(c) = n
    BY <1>1, <1>2
<1>4. QED
    BY <1>1, <1>3 DEF c

\* Sequences with the same bytes are the same.
LEMMA SameSeq ==
    ASSUME NEW s \in Seq(Int), NEW t \in Seq(Int), Len(s) = Len(t),
           \A i \in 1..Len(t) : s[i] = t[i]
    PROVE  s = t
<1>1. s = [i \in 1..Len(s) |-> s[i]] /\ t = [i \in 1..Len(t) |-> t[i]]
    OBVIOUS
<1>2. QED
    BY <1>1

\* References as summarizeMedia makes them.
Refs == [kind : Int, id : Int, hash : Int, ref : Seq(Nat), thumb : Seq(Nat)]

\* The layout of a reference whose lengths fit.
LEMMA MarshalFacts ==
    ASSUME NEW r \in Refs, Fits(r)
    PROVE  LET b == marshalMediaRef(r)
               n == Len(r.ref)
               m == Len(r.thumb)
           IN  /\ b \in Seq(Int) /\ n \in Nat /\ m \in Nat
               /\ Len(b) = 5 + n + m
               /\ b[1] = r.kind /\ b[2] = r.id /\ b[3] = r.hash
               /\ b[4] = n /\ b[5 + n] = m
               /\ \A i \in 1..n : b[4 + i] = r.ref[i]
               /\ \A i \in 1..m : b[5 + n + i] = r.thumb[i]
<1> DEFINE n == Len(r.ref)
           m == Len(r.thumb)
           head == <<r.kind, r.id, r.hash, n % REF_MOD>>
           front == head \o r.ref
           part == front \o <<m % SIZE_MOD>>
           b == part \o r.thumb
<1>1. /\ r.kind \in Int /\ r.id \in Int /\ r.hash \in Int
      /\ r.ref \in Seq(Int) /\ r.thumb \in Seq(Int) /\ n \in Nat /\ m \in Nat
    BY DEF Refs
<1>2. n % REF_MOD = n /\ m % SIZE_MOD = m
    <2>1. REF_MOD \in Nat /\ SIZE_MOD \in Nat /\ n < REF_MOD /\ m < SIZE_MOD
        BY MediaIdAssumption DEF Fits
    <2>2. \A x, y \in Nat : x < y => x % y = x
        OBVIOUS
    <2> HIDE DEF n, m
    <2>3. QED
        BY <1>1, <2>1, <2>2
<1>3. marshalMediaRef(r) = b
    BY DEF marshalMediaRef
<1>4. /\ head \in Seq(Int) /\ Len(head) = 4
      /\ head[1] = r.kind /\ head[2] = r.id /\ head[3] = r.hash /\ head[4] = n
    <2> HIDE DEF n
    <2>1. QED
        BY <1>1, <1>2
<1> HIDE DEF head
<1>5. /\ front \in Seq(Int) /\ Len(front) = 4 + n
      /\ \A i \in 1..4 : front[i] = head[i]
      /\ \A i \in 1..n : front[4 + i] = r.ref[i]
    <2>1. head \in Seq(Int) /\ r.ref \in Seq(Int)
        BY <1>1, <1>4
    <2>2. /\ head \o r.ref \in Seq(Int) /\ Len(head \o r.ref) = Len(head) + Len(r.ref)
          /\ \A i \in 1..Len(head) : (head \o r.ref)[i] = head[i]
          /\ \A i \in 1..Len(r.ref) : (head \o r.ref)[Len(head) + i] = r.ref[i]
        BY <2>1, Appended
    <2>3. QED
        BY <1>4, <2>2
<1> HIDE DEF front
<1>6. /\ part \in Seq(Int) /\ Len(part) = 5 + n /\ part[5 + n] = m
      /\ \A i \in 1..4 + n : part[i] = front[i]
    <2> HIDE DEF n, m
    <2>1. <<m % SIZE_MOD>> \in Seq(Int) /\ Len(<<m % SIZE_MOD>>) = 1 /\ <<m % SIZE_MOD>>[1] = m
        BY <1>1, <1>2
    <2>2. /\ part \in Seq(Int) /\ Len(part) = (4 + n) + 1 /\ part[(4 + n) + 1] = m
          /\ \A i \in 1..4 + n : part[i] = front[i]
        BY <1>5, <2>1, Appended DEF part
    <2>3. (4 + n) + 1 = 5 + n
        BY <1>1
    <2>4. QED
        BY <2>2, <2>3
<1> HIDE DEF part
<1>7. /\ b \in Seq(Int) /\ Len(b) = 5 + n + m
      /\ \A i \in 1..5 + n : b[i] = part[i]
      /\ \A i \in 1..m : b[5 + n + i] = r.thumb[i]
    <2>1. /\ part \o r.thumb \in Seq(Int) /\ Len(part \o r.thumb) = Len(part) + Len(r.thumb)
          /\ \A i \in 1..Len(part) : (part \o r.thumb)[i] = part[i]
          /\ \A i \in 1..Len(r.thumb) : (part \o r.thumb)[Len(part) + i] = r.thumb[i]
        BY <1>1, <1>6, Appended
    <2>2. QED
        BY <1>6, <2>1
<1> HIDE DEF b, n, m
<1>8. \A i \in 1..4 : b[i] = head[i]
    BY <1>1, <1>5, <1>6, <1>7
<1>9. b[5 + n] = m
    BY <1>1, <1>6, <1>7
<1>10. \A i \in 1..n : b[4 + i] = r.ref[i]
    <2> TAKE i \in 1..n
    <2>1. 4 + i \in 1..4 + n /\ 4 + i \in 1..5 + n
        BY <1>1
    <2>2. QED
        BY <1>5, <1>6, <1>7, <2>1
<1>11. b[1] = r.kind /\ b[2] = r.id /\ b[3] = r.hash /\ b[4] = n
    BY <1>4, <1>8
<1> DEFINE c == marshalMediaRef(r)
<1> HIDE DEF c
<1>12. c = b
    BY <1>3 DEF c
<1>13. /\ c \in Seq(Int) /\ n \in Nat /\ m \in Nat
       /\ Len(c) = 5 + n + m
       /\ c[1] = r.kind /\ c[2] = r.id /\ c[3] = r.hash
       /\ c[4] = n /\ c[5 + n] = m
       /\ \A i \in 1..n : c[4 + i] = r.ref[i]
       /\ \A i \in 1..m : c[5 + n + i] = r.thumb[i]
    BY <1>1, <1>7, <1>9, <1>10, <1>11, <1>12
<1>14. QED
    BY <1>13 DEF n, m, c

\* unmarshalMediaRef undoes marshalMediaRef, for every reference whose lengths fit, also
\* one whose bytes look like lengths.
THEOREM MediaIdRoundTrip ==
    ASSUME NEW r \in Refs, Fits(r)
    PROVE  unmarshalMediaRef(marshalMediaRef(r)) = r
<1> DEFINE b == marshalMediaRef(r)
           n == Len(r.ref)
           m == Len(r.thumb)
<1>1. /\ b \in Seq(Int) /\ n \in Nat /\ m \in Nat
      /\ Len(b) = 5 + n + m
      /\ b[1] = r.kind /\ b[2] = r.id /\ b[3] = r.hash
      /\ b[4] = n /\ b[5 + n] = m
      /\ \A i \in 1..n : b[4 + i] = r.ref[i]
      /\ \A i \in 1..m : b[5 + n + i] = r.thumb[i]
    BY MarshalFacts
<1>2. r.ref \in Seq(Int) /\ r.thumb \in Seq(Int) /\ Len(r.ref) = n /\ Len(r.thumb) = m
    BY DEF Refs
<1> HIDE DEF b, n, m
<1>3. SubSeq(b, 4 + 1, 4 + n) = r.ref
    <2> DEFINE c == SubSeq(b, 4 + 1, 4 + n)
    <2>1. c \in Seq(Int) /\ Len(c) = n /\ \A i \in 1..n : c[i] = b[4 + i]
        <3>1. 4 \in Nat /\ 4 + n <= Len(b)
            BY <1>1
        <3>2. \A a \in Nat : a + n <= Len(b) =>
                 /\ SubSeq(b, a + 1, a + n) \in Seq(Int) /\ Len(SubSeq(b, a + 1, a + n)) = n
                 /\ \A i \in 1..n : SubSeq(b, a + 1, a + n)[i] = b[a + i]
            BY <1>1, Sliced
        <3>3. QED
            BY <3>1, <3>2, Zenon
    <2> HIDE DEF c
    <2>2. \A i \in 1..n : c[i] = r.ref[i]
        BY <1>1, <2>1
    <2>3. c = r.ref
        BY <1>2, <2>1, <2>2, SameSeq
    <2>4. QED
        BY <2>3 DEF c
<1>4. SubSeq(b, (5 + n) + 1, (5 + n) + m) = r.thumb
    <2> DEFINE c == SubSeq(b, (5 + n) + 1, (5 + n) + m)
    <2>1. c \in Seq(Int) /\ Len(c) = m /\ \A i \in 1..m : c[i] = b[(5 + n) + i]
        <3>1. 5 + n \in Nat /\ (5 + n) + m <= Len(b)
            BY <1>1
        <3>2. QED
            BY <1>1, <3>1, Sliced
    <2> HIDE DEF c
    <2>2. \A i \in 1..m : c[i] = r.thumb[i]
        BY <1>1, <2>1
    <2>3. c = r.thumb
        BY <1>2, <2>1, <2>2, SameSeq
    <2>4. QED
        BY <2>3 DEF c
<1>5. unmarshalMediaRef(b) =
        [kind |-> r.kind, id |-> r.id, hash |-> r.hash, ref |-> r.ref, thumb |-> r.thumb]
    <2>1. ~(Len(b) < 4 \/ Len(b) < 5 + b[4]) /\ ~(Len(b) < (5 + n) + b[5 + n])
        BY <1>1
    <2>2. 4 + 1 = 5 /\ (5 + n) - 1 = 4 + n
        BY <1>1
    <2>3. QED
        BY <1>1, <1>3, <1>4, <2>1, <2>2 DEF unmarshalMediaRef
<1>6. QED
    BY <1>5 DEF b, Refs

\* What an id is made of.
LEMMA IdParts ==
    ASSUME NEW photo \in Photos
    PROVE  mediaRef(photo) \in Refs /\ photo.sizes \in Sizes
<1>1. /\ photo.id \in Int /\ photo.hash \in Int /\ photo.ref \in Seq(Nat)
      /\ photo.sizes \in Sizes
    BY ApiAssumption DEF Sizes
<1>2. pickSmallestPhotoSize(photo.sizes).type \in Seq(Nat)
    BY <1>1, PickSmallest DEF Smallest
<1>3. QED
    BY <1>1, <1>2 DEF mediaRef, Refs, mediaKindPhoto

\* An id decodes to the reference of its photo, or to nothing: whole and signed with
\* the key in use, it is accepted, cut short or signed with another, it is not.
LEMMA DecodeReceived ==
    ASSUME NEW photo \in Photos, NEW key \in {KEY, OLD_KEY}, NEW whole \in BOOLEAN,
           Fits(mediaRef(photo))
    PROVE  decodeMediaID(KEY, Received([photo |-> photo, key |-> key, whole |-> whole]))
           = IF whole /\ key = KEY THEN mediaRef(photo) ELSE Bad
<1> DEFINE i == [photo |-> photo, key |-> key, whole |-> whole]
           r == mediaRef(photo)
           b == marshalMediaRef(r)
<1>1. r \in Refs
    BY IdParts
<1> HIDE DEF r
<1>2. b \in Seq(Int) /\ Len(b) \in Nat /\ Len(b) >= 5 /\ unmarshalMediaRef(b) = r
    <2>1. Fits(r)
        BY DEF r
    <2>2. b \in Seq(Int) /\ Len(b) = 5 + Len(r.ref) + Len(r.thumb)
          /\ Len(r.ref) \in Nat /\ Len(r.thumb) \in Nat
        BY <1>1, <2>1, MarshalFacts
    <2>3. unmarshalMediaRef(b) = r
        BY <1>1, <2>1, MediaIdRoundTrip
    <2>4. \A x, y \in Nat : 5 + x + y \in Nat /\ 5 + x + y >= 5
        OBVIOUS
    <2> HIDE DEF b
    <2>5. Len(b) \in Nat /\ Len(b) >= 5
        BY <2>2, <2>4
    <2>6. QED
        BY <2>2, <2>3, <2>5
<1> HIDE DEF b
<1>3. encodeMediaID(key, r) = [payload |-> b, tag |-> <<key, b>>]
    BY DEF encodeMediaID, Mac, b
<1>4. Received(i) = IF whole THEN [payload |-> b, tag |-> <<key, b>>]
                    ELSE [payload |-> Front(b), tag |-> <<key, b>>]
    BY <1>3 DEF Received, r
<1>5. CASE whole /\ key = KEY
    <2>1. b # <<>>
        BY <1>2
    <2> HIDE DEF i
    <2>2. Received(i) = [payload |-> b, tag |-> <<KEY, b>>]
        BY <1>4, <1>5, Zenon
    <2>3. decodeMediaID(KEY, Received(i)) = unmarshalMediaRef(b)
        BY <2>1, <2>2 DEF decodeMediaID, Mac
    <2>4. QED
        BY <1>2, <1>5, <2>3 DEF i, r
<1>6. CASE whole /\ key # KEY
    BY <1>4, <1>6 DEF decodeMediaID, Mac
<1>7. CASE ~whole
    <2>1. Len(Front(b)) # Len(b)
        BY <1>2 DEF Front
    <2>2. <<key, b>> # <<KEY, Front(b)>>
        BY <2>1
    <2>3. QED
        BY <1>4, <1>7, <2>2 DEF decodeMediaID, Mac
<1>8. QED
    BY <1>5, <1>6, <1>7

\* A file that is found under the name of an id was downloaded for this id: it is that
\* of its photo, and a damaged id finds none, whatever key made it.
LEMMA HitServes ==
    ASSUME NEW photo \in Photos, NEW key, NEW whole \in BOOLEAN, Fits(mediaRef(photo)),
           NEW p, NEW k,
           cacheKey(Received([photo |-> photo, key |-> key, whole |-> whole])) = <<p, Mac(k, p)>>
    PROVE  whole /\ unmarshalMediaRef(p) = mediaRef(photo)
<1> DEFINE r == mediaRef(photo)
           b == marshalMediaRef(r)
<1>1. r \in Refs
    BY IdParts
<1> HIDE DEF r
<1>2. Len(b) \in Nat /\ Len(b) >= 5 /\ b \in Seq(Int) /\ unmarshalMediaRef(b) = r
    <2>1. Fits(r)
        BY DEF r
    <2>2. b \in Seq(Int) /\ Len(b) = 5 + Len(r.ref) + Len(r.thumb)
          /\ Len(r.ref) \in Nat /\ Len(r.thumb) \in Nat
        BY <1>1, <2>1, MarshalFacts
    <2>3. unmarshalMediaRef(b) = r
        BY <1>1, <2>1, MediaIdRoundTrip
    <2>4. \A x, y \in Nat : 5 + x + y \in Nat /\ 5 + x + y >= 5
        OBVIOUS
    <2> HIDE DEF b
    <2>5. Len(b) \in Nat /\ Len(b) >= 5
        BY <2>2, <2>4
    <2>6. QED
        BY <2>2, <2>3, <2>5
<1>3. encodeMediaID(key, r) = [payload |-> b, tag |-> <<key, b>>]
    BY DEF encodeMediaID, Mac
<1> HIDE DEF b
<1>4. cacheKey(Received([photo |-> photo, key |-> key, whole |-> whole]))
      = <<IF whole THEN b ELSE Front(b), <<key, b>>>>
    BY <1>3 DEF Received, cacheKey, r
<1>5. p = (IF whole THEN b ELSE Front(b)) /\ p = b
    BY <1>4 DEF Mac
<1>6. Len(Front(b)) # Len(b)
    BY <1>2 DEF Front
<1>7. QED
    BY <1>2, <1>5, <1>6 DEF r

-----------------------------------------------------------------------------
\* The inductive invariant.

\* States of a request that has done nothing, or asks for a photo.
Waiting == {"new", "ready", "download", "serve"}

\* Such a request is none for a chat, has had no effect and no answer.
PhotoRequests ==
    \A r \in Requests : pc[r] \in Waiting =>
        req[r].op = "none" /\ effects[r] = <<>> /\ answer[r] = 0

\* What was shown is a photo of Telegram's.
ShownIsPhoto == shown \in [Requests -> Photos \cup {Nothing}]

\* Before it arrives a request has located and been served nothing; the warm-up asks
\* for no photo.
Fresh ==
    /\ \A r \in Requests : pc[r] = "new" => loc[r] = Nothing /\ served[r] = Nothing
    /\ pc[Warm] \in Waiting => pc[Warm] = "new"

\* What a photo request asks for is an id.
AskedIds ==
    \A r \in Requests : pc[r] \in Waiting \ {"new"} =>
        asked[r] \in [photo : Photos, key : {KEY, OLD_KEY}, whole : BOOLEAN]

\* A request that missed the cache has accepted the id.
Decoded ==
    \A r \in Requests : pc[r] \in {"ready", "download"} =>
        loc[r] = decodeMediaID(KEY, Received(asked[r])) /\ loc[r] # Bad

\* Every file is named after an id that some key has signed, and is what this id says.
CacheSigned ==
    \A e \in cached : \E p, k : e.key = <<p, Mac(k, p)>> /\ e.file = unmarshalMediaRef(p)

MediaInv ==
    /\ DOMAIN asked = Requests /\ DOMAIN loc = Requests /\ DOMAIN served = Requests
    /\ Fresh /\ AskedIds /\ Decoded /\ CacheSigned
    /\ FetchedIsShown

ApiInv == Inv /\ PhotoRequests /\ ShownIsPhoto /\ MediaInv

\* A photo request that goes on or is answered leaves the chat requests and the cache
\* as they are.
LEMMA PhotoStepInv ==
    ASSUME Inv, NEW r \in Callers, pc[r] \in Waiting, pc[r] = "new" => r \in Requests,
           r \in Requests => req[r].op = "none" /\ effects[r] = <<>> /\ answer[r] = 0,
           UNCHANGED <<self, peerCache, req, page, effects>>,
           \/ \E label \in {"ready", "download", "serve"} : Goto(r, label) /\ UNCHANGED <<todo, target, answer>>
           \/ \E code \in {200, 400, 401, 404} : Answer(r, code)
    PROVE  Inv'
<1>1. CASE \E label \in {"ready", "download", "serve"} : Goto(r, label) /\ UNCHANGED <<todo, target, answer>>
    <2>1. PICK label \in {"ready", "download", "serve"} : pc' = [pc EXCEPT ![r] = label]
        BY <1>1 DEF Goto
    <2> USE <1>1, <2>1 DEF Waiting
    <2>2. TypeOK' /\ DOMAIN req' = Callers
        BY DEF Inv, TypeOK
    <2>3. CacheSound' /\ WarmWaits' /\ NamesChat' /\ TargetSound' /\ PagesSound'
        BY Sets DEF Inv, TypeOK, CacheSound, WarmWaits, NamesChat, TargetSound, PagesSound, Working
    <2>4. Admitted' /\ PagesOfLists'
        BY Sets DEF Inv, TypeOK, Admitted, PagesOfLists, Working
    <2>5. EffectsAuthorized' /\ AtMostOnce' /\ UntitledHasTwin'
        BY DEF Inv, EffectsAuthorized, AtMostOnce, UntitledHasTwin
    <2>6. QED
        BY <2>2, <2>3, <2>4, <2>5 DEF Inv
<1>2. CASE \E code \in {200, 400, 401, 404} : Answer(r, code)
    <2>0. PICK code \in {200, 400, 401, 404} : Answer(r, code)
        BY <1>2
    <2>1. /\ pc' = [pc EXCEPT ![r] = "done"] /\ answer' = [answer EXCEPT ![r] = code]
          /\ todo' = [todo EXCEPT ![r] = {}] /\ target' = [target EXCEPT ![r] = NoPeer]
        BY <2>0 DEF Answer, Goto
    <2> USE <2>1 DEF Waiting
    <2>2. TypeOK' /\ DOMAIN req' = Callers
        BY DEF Inv, TypeOK
    <2>3. CacheSound' /\ WarmWaits' /\ NamesChat' /\ TargetSound' /\ PagesSound'
        BY Sets DEF Inv, TypeOK, CacheSound, WarmWaits, NamesChat, TargetSound, PagesSound, Working
    <2>4. Admitted' /\ PagesOfLists'
        BY Sets DEF Inv, TypeOK, Admitted, PagesOfLists, Working
    <2>5. r \in Requests => page[r] = {}
        BY DEF Inv, PagesOfLists
    <2>6. EffectsAuthorized' /\ UntitledHasTwin'
        BY <2>5, Sets DEF Inv, TypeOK, EffectsAuthorized, UntitledHasTwin
    <2>7. AtMostOnce'
        BY Sets DEF Inv, TypeOK, AtMostOnce
    <2>8. QED
        BY <2>2, <2>3, <2>4, <2>6, <2>7 DEF Inv
<1>3. QED
    BY <1>1, <1>2

\* A step leaves photo requests alone.
Apart ==
    \A s \in Callers : pc'[s] \in Waiting =>
        pc'[s] = pc[s] /\ req'[s] = req[s] /\ effects'[s] = effects[s] /\ answer'[s] = answer[s]

\* No step of a chat request touches a photo request, or becomes one.
LEMMA ChatStepApart ==
    ASSUME Inv, NEW r \in Callers, Serve(r)
    PROVE  Apart
<1> USE Sets DEF Apart, Waiting, Inv, TypeOK, Goto, Answer, Fail
<1>1. CASE Lookup(r)
    BY <1>1 DEF Lookup
<1>2. CASE GetDialogs(r)
    BY <1>2 DEF GetDialogs
<1>3. CASE DialogsFail(r)
    BY <1>3 DEF DialogsFail
<1>4. CASE cachePeer(r)
    BY <1>4 DEF cachePeer
<1>5. CASE ListReturns(r)
    BY <1>5 DEF ListReturns
<1>6. CASE Call(r)
    BY <1>6 DEF Call
<1>7. QED
    BY <1>1, <1>2, <1>3, <1>4, <1>5, <1>6 DEF Serve

\* What a chat request does keeps the invariant, if it shows photos of Telegram's.
LEMMA ChatStepInv ==
    ASSUME ApiInv, Next, Apart, UNCHANGED <<asked, loc, cached, served>>, ShownIsPhoto'
    PROVE  ApiInv'
<1>1. Inv'
    BY NextInv DEF ApiInv
<1>2. PhotoRequests'
    BY Sets DEF ApiInv, PhotoRequests, Apart
<1>3. Fresh' /\ AskedIds' /\ Decoded'
    BY Sets DEF ApiInv, MediaInv, Fresh, AskedIds, Decoded, Apart, Waiting
<1>4. CacheSigned' /\ FetchedIsShown'
    BY DEF ApiInv, MediaInv, CacheSigned, FetchedIsShown
<1>5. QED
    BY <1>1, <1>2, <1>3, <1>4 DEF ApiInv, MediaInv

\* A photo request that goes on or is answered moves no other request, and keeps the
\* invariant if it keeps what is said of photos.
LEMMA PhotoStep ==
    ASSUME ApiInv, NEW r \in Requests, pc[r] \in Waiting,
           UNCHANGED <<self, peerCache, req, page, effects, shown>>,
           \/ \E label \in {"ready", "download", "serve"} :
                  Goto(r, label) /\ UNCHANGED <<todo, target, answer>>
           \/ \E code \in {200, 400, 401, 404} : Answer(r, code)
    PROVE  /\ \A s \in Callers \ {r} : pc'[s] = pc[s]
           /\ MediaInv' => ApiInv'
<1>1. Inv'
    <2>1. req[r].op = "none" /\ effects[r] = <<>> /\ answer[r] = 0
        BY DEF ApiInv, PhotoRequests
    <2>2. QED
        BY <2>1, Sets, PhotoStepInv DEF ApiInv
<1>2. \A s \in Callers \ {r} : pc'[s] = pc[s] /\ answer'[s] = answer[s]
    BY Sets DEF ApiInv, Inv, TypeOK, Goto, Answer
<1>3. PhotoRequests'
    <2>1. pc'[r] \in Waiting => answer'[r] = answer[r]
        BY Sets DEF ApiInv, Inv, TypeOK, Goto, Answer, Waiting
    <2>2. QED
        BY <1>2, <2>1, Sets DEF ApiInv, PhotoRequests
<1>4. QED
    BY <1>1, <1>2, <1>3 DEF ApiInv, ShownIsPhoto

\* What an id that a device sends is made of: a photo that was shown, or another one
\* under the old key.
LEMMA IdsFacts ==
    ASSUME ApiInv, NEW i \in Ids
    PROVE  i \in [photo : Photos, key : {KEY, OLD_KEY}, whole : BOOLEAN]
<1>1. CASE \E q \in {r \in Requests : shown[r] # Nothing /\ Servable(shown[r])}, w \in BOOLEAN :
              i = [photo |-> shown[q], key |-> KEY, whole |-> w]
    <2>1. PICK q \in Requests, w \in BOOLEAN :
              shown[q] # Nothing /\ i = [photo |-> shown[q], key |-> KEY, whole |-> w]
        BY <1>1
    <2>2. shown[q] \in Photos
        BY <2>1 DEF ApiInv, ShownIsPhoto
    <2>3. QED
        BY <2>1, <2>2
<1>2. CASE \E p \in {q \in Photos : Servable(q)} : i = [photo |-> p, key |-> OLD_KEY, whole |-> TRUE]
    BY <1>2
<1>3. QED
    BY <1>1, <1>2 DEF Ids

\* What an id decodes to.
LEMMA DecodeAsked ==
    ASSUME NEW i \in [photo : Photos, key : {KEY, OLD_KEY}, whole : BOOLEAN],
           Fits(mediaRef(i.photo))
    PROVE  decodeMediaID(KEY, Received(i))
           = IF i.whole /\ i.key = KEY THEN mediaRef(i.photo) ELSE Bad
<1> DEFINE photo == i.photo
           key == i.key
           whole == i.whole
<1>1. /\ photo \in Photos /\ key \in {KEY, OLD_KEY} /\ whole \in BOOLEAN
      /\ i = [photo |-> photo, key |-> key, whole |-> whole] /\ Fits(mediaRef(photo))
    OBVIOUS
<1> HIDE DEF photo, key, whole
<1>2. decodeMediaID(KEY, Received([photo |-> photo, key |-> key, whole |-> whole]))
      = IF whole /\ key = KEY THEN mediaRef(photo) ELSE Bad
    BY <1>1, DecodeReceived
<1>3. QED
    BY <1>1, <1>2 DEF photo, key, whole

\* The handler finds the file, or decodes the id under the key in use, and answers or
\* goes on.
LEMMA ArriveMediaInv ==
    ASSUME ApiInv, NEW r \in Requests, NEW token, ArriveMedia(r, token)
    PROVE  ApiInv'
<1>1. /\ pc[r] = "new" /\ loc[r] = Nothing /\ served[r] = Nothing
      /\ UNCHANGED <<self, peerCache, req, page, effects, shown, cached, served>>
    BY DEF ArriveMedia, ApiInv, MediaInv, Fresh
<1>1a. DOMAIN pc = Callers /\ r \in Callers /\ Warm # r
    BY Sets DEF ApiInv, Inv, TypeOK
<1>2. CASE Answer(r, 401) /\ UNCHANGED <<asked, loc>>
    <2>1. (\A s \in Callers \ {r} : pc'[s] = pc[s]) /\ (MediaInv' => ApiInv')
        BY <1>1, <1>2, PhotoStep DEF Waiting
    <2>2. pc'[r] = "done"
        BY <1>1a, <1>2 DEF Answer, Goto
    <2>3. Fresh' /\ AskedIds' /\ Decoded'
        BY <1>1, <1>1a, <1>2, <2>1, <2>2, Sets
        DEF ApiInv, MediaInv, Fresh, AskedIds, Decoded, Waiting
    <2>4. CacheSigned' /\ FetchedIsShown'
        BY <1>1, <1>2 DEF ApiInv, MediaInv, CacheSigned, FetchedIsShown
    <2>5. QED
        BY <1>1, <1>2, <2>1, <2>3, <2>4 DEF ApiInv, MediaInv
<1>3. ASSUME NEW i \in Ids, asked' = [asked EXCEPT ![r] = i],
             Goto(r, "serve"), UNCHANGED <<loc, todo, target, answer>>
      PROVE  ApiInv'
    <2>0. i \in [photo : Photos, key : {KEY, OLD_KEY}, whole : BOOLEAN]
        BY IdsFacts
    <2>1. (\A s \in Callers \ {r} : pc'[s] = pc[s]) /\ (MediaInv' => ApiInv')
        BY <1>1, <1>3, PhotoStep DEF Waiting
    <2>2. pc'[r] = "serve"
        BY <1>1a, <1>3 DEF Goto
    <2>3. DOMAIN asked' = Requests /\ asked'[r] = i /\ \A s \in Requests \ {r} : asked'[s] = asked[s]
        BY <1>3 DEF ApiInv, MediaInv
    <2>4. Fresh' /\ AskedIds' /\ Decoded'
        BY <1>1, <1>1a, <1>3, <2>0, <2>1, <2>2, <2>3, Sets
        DEF ApiInv, MediaInv, Fresh, AskedIds, Decoded, Waiting
    <2>5. CacheSigned' /\ FetchedIsShown'
        BY <1>1, <1>3, <2>3 DEF ApiInv, MediaInv, CacheSigned, FetchedIsShown
    <2>6. QED
        BY <1>1, <1>3, <2>1, <2>3, <2>4, <2>5 DEF ApiInv, MediaInv
<1>4. ASSUME NEW i \in Ids, asked' = [asked EXCEPT ![r] = i],
             Decode(r, decodeMediaID(KEY, Received(i)))
      PROVE  ApiInv'
    <2> DEFINE ref == decodeMediaID(KEY, Received(i))
    <2>0. i \in [photo : Photos, key : {KEY, OLD_KEY}, whole : BOOLEAN]
        BY IdsFacts
    <2>1. Fits(mediaRef(i.photo)) =>
              ref = IF i.whole /\ i.key = KEY THEN mediaRef(i.photo) ELSE Bad
        BY <2>0, DecodeAsked
    <2>2. /\ loc' = [loc EXCEPT ![r] = ref]
          /\ IF ref = Bad THEN Answer(r, 400)
             ELSE Goto(r, "ready") /\ UNCHANGED <<todo, target, answer>>
        BY <1>4 DEF Decode
    <2>3. (\A s \in Callers \ {r} : pc'[s] = pc[s]) /\ (MediaInv' => ApiInv')
        <3> HIDE DEF ref
        <3>1. QED
            BY <1>1, <2>2, PhotoStep DEF Waiting
    <2>4. pc'[r] = IF ref = Bad THEN "done" ELSE "ready"
        BY <1>1a, <2>2 DEF Goto, Answer
    <2>5. /\ DOMAIN asked' = Requests /\ DOMAIN loc' = Requests
          /\ asked'[r] = i /\ loc'[r] = ref
          /\ \A s \in Requests \ {r} : asked'[s] = asked[s] /\ loc'[s] = loc[s]
        BY <1>4, <2>2 DEF ApiInv, MediaInv
    <2>6. Fresh' /\ AskedIds'
        BY <1>1, <1>1a, <2>0, <2>3, <2>4, <2>5, Sets
        DEF ApiInv, MediaInv, Fresh, AskedIds, Waiting
    <2>7. Decoded'
        BY <1>1, <1>1a, <2>3, <2>4, <2>5, Sets DEF ApiInv, MediaInv, Decoded
    <2> HIDE DEF ref
    <2>8. CacheSigned' /\ FetchedIsShown'
        BY <1>1, <2>1, <2>5 DEF ApiInv, MediaInv, CacheSigned, FetchedIsShown
    <2>9. QED
        BY <1>1, <2>3, <2>5, <2>6, <2>7, <2>8 DEF ApiInv, MediaInv
<1>5. QED
    BY <1>2, <1>3, <1>4 DEF ArriveMedia

\* A request that waits for the login goes on, or is given up.
LEMMA WaitInv ==
    ASSUME ApiInv, NEW r \in Requests, waitReady(r) \/ GiveUp(r)
    PROVE  ApiInv'
<1>1. /\ pc[r] = "ready" /\ UNCHANGED <<self, peerCache, req, page, effects>>
      /\ UNCHANGED <<shown, asked, loc, cached, served>>
      /\ (Goto(r, "download") /\ UNCHANGED <<todo, target, answer>>) \/ Answer(r, 400)
    BY DEF waitReady, GiveUp, localVars, mediaVars
<1>2. (\A s \in Callers \ {r} : pc'[s] = pc[s]) /\ (MediaInv' => ApiInv')
    BY <1>1, PhotoStep DEF Waiting
<1>3. pc'[r] \in {"download", "done"} /\ Warm # r
    BY <1>1, Sets DEF Goto, Answer, ApiInv, Inv, TypeOK
<1>4. Fresh' /\ AskedIds' /\ Decoded'
    BY <1>1, <1>2, <1>3, Sets DEF ApiInv, MediaInv, Fresh, AskedIds, Decoded, Waiting
<1>5. CacheSigned' /\ FetchedIsShown'
    BY <1>1 DEF ApiInv, MediaInv, CacheSigned, FetchedIsShown
<1>6. QED
    BY <1>1, <1>2, <1>4, <1>5 DEF ApiInv, MediaInv

\* What is downloaded is stored under the name of the id that was accepted.
LEMMA DownloadInv ==
    ASSUME ApiInv, NEW r \in Requests, Download(r)
    PROVE  ApiInv'
<1> DEFINE m == Received(asked[r])
           new == [key |-> cacheKey(m), file |-> loc[r]]
<1>1. /\ pc[r] = "download" /\ UNCHANGED <<self, peerCache, req, page, effects>>
      /\ UNCHANGED <<shown, asked, loc, served>>
      /\ (Goto(r, "serve") /\ UNCHANGED <<todo, target, answer>>) \/ Answer(r, 400)
    BY DEF Download
<1>2. cached' \subseteq cached \cup {new}
    BY DEF Download
<1>3. (\A s \in Callers \ {r} : pc'[s] = pc[s]) /\ (MediaInv' => ApiInv')
    BY <1>1, PhotoStep DEF Waiting
<1>4. pc'[r] \in {"serve", "done"} /\ Warm # r
    BY <1>1, Sets DEF Goto, Answer, ApiInv, Inv, TypeOK
<1>5. Fresh' /\ AskedIds' /\ Decoded'
    BY <1>1, <1>3, <1>4, Sets DEF ApiInv, MediaInv, Fresh, AskedIds, Decoded, Waiting
<1>6. \E p, k : new.key = <<p, Mac(k, p)>> /\ new.file = unmarshalMediaRef(p)
    <2>1. loc[r] = decodeMediaID(KEY, m) /\ loc[r] # Bad
        BY <1>1 DEF ApiInv, MediaInv, Decoded
    <2> HIDE DEF m
    <2>2. m.tag = Mac(KEY, m.payload) /\ loc[r] = unmarshalMediaRef(m.payload)
        BY <2>1 DEF decodeMediaID
    <2>3. new.key = <<m.payload, Mac(KEY, m.payload)>>
        BY <2>2 DEF cacheKey
    <2>4. QED
        BY <2>2, <2>3
<1> HIDE DEF new
<1>7. CacheSigned' /\ FetchedIsShown'
    BY <1>1, <1>2, <1>6 DEF ApiInv, MediaInv, CacheSigned, FetchedIsShown
<1>8. QED
    BY <1>1, <1>3, <1>5, <1>7 DEF ApiInv, MediaInv

\* What is served was stored for the same id.
LEMMA ServeFileInv ==
    ASSUME ApiInv, NEW r \in Requests, ServeFile(r)
    PROVE  ApiInv'
<1> DEFINE i == asked[r]
<1>1. /\ pc[r] = "serve" /\ UNCHANGED <<self, peerCache, req, page, effects>>
      /\ UNCHANGED <<shown, asked, loc, cached>>
      /\ Answer(r, 200) \/ Answer(r, 404)
    BY DEF ServeFile
<1>2. (\A s \in Callers \ {r} : pc'[s] = pc[s]) /\ (MediaInv' => ApiInv')
    BY <1>1, PhotoStep DEF Waiting
<1>3. pc'[r] = "done" /\ Warm # r
    BY <1>1, Sets DEF Goto, Answer, ApiInv, Inv, TypeOK
<1>4. i \in [photo : Photos, key : {KEY, OLD_KEY}, whole : BOOLEAN]
    BY <1>1 DEF ApiInv, MediaInv, AskedIds, Waiting
<1>5. ASSUME NEW e \in Hits(i), Fits(mediaRef(i.photo))
      PROVE  i.whole /\ e.file = mediaRef(i.photo)
    <2>1. e \in cached /\ e.key = cacheKey(Received(i))
        BY <1>5 DEF Hits
    <2>2. PICK p, k : e.key = <<p, Mac(k, p)>> /\ e.file = unmarshalMediaRef(p)
        BY <2>1 DEF ApiInv, MediaInv, CacheSigned
    <2> DEFINE photo == i.photo
               key == i.key
               whole == i.whole
    <2>3. /\ photo \in Photos /\ whole \in BOOLEAN
          /\ i = [photo |-> photo, key |-> key, whole |-> whole] /\ Fits(mediaRef(photo))
        BY <1>4, <1>5
    <2> HIDE DEF photo, key, whole, i
    <2>4. cacheKey(Received([photo |-> photo, key |-> key, whole |-> whole])) = <<p, Mac(k, p)>>
        BY <2>1, <2>2, <2>3
    <2>5. whole /\ unmarshalMediaRef(p) = mediaRef(photo)
        BY <2>3, <2>4, HitServes
    <2>6. QED
        BY <2>2, <2>5 DEF photo, whole
<1>6. \/ \E e \in Hits(i) : served' = [served EXCEPT ![r] = e.file]
      \/ UNCHANGED served
    BY DEF ServeFile
<1>7. DOMAIN served' = Requests /\ \A s \in Requests \ {r} : served'[s] = served[s]
    BY <1>6 DEF ApiInv, MediaInv
<1>8. Fits(mediaRef(i.photo)) =>
          served'[r] = served[r] \/ (i.whole /\ served'[r] = mediaRef(i.photo))
    BY <1>5, <1>6 DEF ApiInv, MediaInv
<1>9. Fresh' /\ AskedIds' /\ Decoded'
    BY <1>1, <1>2, <1>3, <1>7, Sets DEF ApiInv, MediaInv, Fresh, AskedIds, Decoded, Waiting
<1>10. CacheSigned' /\ FetchedIsShown'
    BY <1>1, <1>7, <1>8 DEF ApiInv, MediaInv, CacheSigned, FetchedIsShown
<1>11. QED
    BY <1>1, <1>2, <1>7, <1>9, <1>10 DEF ApiInv, MediaInv

\* Every step keeps the invariant.
LEMMA ApiNextInv == ApiInv /\ [ApiNext]_apiVars => ApiInv'
<1> SUFFICES ASSUME ApiInv, [ApiNext]_apiVars
             PROVE  ApiInv'
    OBVIOUS
<1>1. CASE UNCHANGED apiVars
    <2>1. UNCHANGED vars /\ UNCHANGED <<shown, asked, loc, cached, served>>
        BY <1>1 DEF apiVars, mediaVars
    <2>2. Inv'
        BY <2>1, NextInv DEF ApiInv
    <2>3. UNCHANGED <<pc, req, effects, answer>>
        BY <2>1 DEF vars, localVars
    <2>4. PhotoRequests' /\ ShownIsPhoto'
        BY <2>1, <2>3 DEF ApiInv, PhotoRequests, ShownIsPhoto
    <2>5. MediaInv'
        BY <2>1, <2>3
        DEF ApiInv, MediaInv, Fresh, AskedIds, Decoded, CacheSigned, FetchedIsShown
    <2>6. QED
        BY <2>2, <2>4, <2>5 DEF ApiInv
<1>2. ASSUME Next, Apart, UNCHANGED mediaVars
      PROVE  ApiInv'
    BY <1>2, ChatStepInv DEF ApiInv, ShownIsPhoto, mediaVars
<1>3. CASE Login /\ UNCHANGED mediaVars
    <2>1. Apart
        BY <1>3, Sets DEF Login, Goto, ApiInv, Inv, TypeOK, Apart, Waiting
    <2>2. QED
        BY <1>2, <1>3, <2>1 DEF Next
<1>4. ASSUME NEW r \in Requests, NEW q \in Queries, NEW fault \in {"no", "path", "body"},
             Arrive(r, q, fault), UNCHANGED mediaVars
      PROVE  ApiInv'
    <2>1. Apart
        BY <1>4, Sets DEF Arrive, Answer, Goto, ApiInv, Inv, TypeOK, Apart, Waiting
    <2>2. QED
        BY <1>2, <1>4, <2>1 DEF Next
<1>5. ASSUME NEW r \in Requests, NEW token \in Tokens, ArriveMedia(r, token)
      PROVE  ApiInv'
    BY <1>5, ArriveMediaInv
<1>6. ASSUME NEW r \in Callers, UNCHANGED mediaVars,
             Lookup(r) \/ GetDialogs(r) \/ DialogsFail(r) \/ cachePeer(r) \/ ListReturns(r)
      PROVE  ApiInv'
    <2>1. Serve(r) /\ Next
        BY <1>6 DEF Serve, Next
    <2>2. Apart
        BY <2>1, ChatStepApart DEF ApiInv
    <2>3. QED
        BY <1>2, <1>6, <2>1, <2>2
<1>7. ASSUME NEW r \in Callers, CallShows(r)
      PROVE  ApiInv'
    <2>1. Serve(r) /\ Next
        BY <1>7 DEF CallShows, Serve, Next
    <2>2. Apart
        BY <2>1, ChatStepApart DEF ApiInv
    <2>3. ShownIsPhoto'
        BY <1>7 DEF CallShows, ApiInv, ShownIsPhoto
    <2>4. QED
        BY <1>7, <2>1, <2>2, <2>3, ChatStepInv DEF CallShows
<1>8. ASSUME NEW r \in Callers, waitReady(r) \/ Download(r) \/ ServeFile(r)
      PROVE  ApiInv'
    <2>1. pc[r] \in Waiting \ {"new"}
        BY <1>8 DEF waitReady, Download, ServeFile, Waiting
    <2>2. r \in Requests
        BY <2>1 DEF ApiInv, MediaInv, Fresh, Callers
    <2>3. QED
        BY <1>8, <2>2, WaitInv, DownloadInv, ServeFileInv
<1>9. ASSUME NEW r \in Requests, GiveUp(r)
      PROVE  ApiInv'
    BY <1>9, WaitInv
<1>10. QED
    BY <1>1, <1>3, <1>4, <1>5, <1>6, <1>7, <1>8, <1>9 DEF ApiNext, ServeApi

\* Before the first request.
LEMMA ApiInitInv == ApiInit => ApiInv
<1> SUFFICES ASSUME ApiInit
             PROVE  ApiInv
    OBVIOUS
<1>1. Inv
    BY InitInv DEF ApiInit
<1>2. PhotoRequests
    BY Sets DEF ApiInit, Init, NoRequest, PhotoRequests
<1>3. \A r \in Callers : pc[r] = "new"
    BY DEF ApiInit, Init
<1>4. Fresh /\ AskedIds /\ Decoded
    BY <1>3, Sets DEF ApiInit, Fresh, AskedIds, Decoded
<1>5. CacheSigned
    <2>1. PICK d \in Disks : cached = {Entry(i) : i \in d}
        BY DEF ApiInit
    <2>2. ASSUME NEW i \in d
          PROVE  \E p, k : Entry(i).key = <<p, Mac(k, p)>> /\ Entry(i).file = unmarshalMediaRef(p)
        BY DEF Entry, encodeMediaID, cacheKey
    <2>3. QED
        BY <2>1, <2>2 DEF CacheSigned
<1>6. ShownIsPhoto /\ FetchedIsShown
    BY DEF ApiInit, ShownIsPhoto, FetchedIsShown
<1>7. QED
    BY <1>1, <1>2, <1>4, <1>5, <1>6 DEF ApiInit, ApiInv, MediaInv

-----------------------------------------------------------------------------
(* What holds for any photos, requests, peers and clients. *)

\* The invariant of chat and photo requests together.
THEOREM ApiInvariant == ApiSpec => []ApiInv
BY ApiInitInv, ApiNextInv, PTL DEF ApiSpec

\* A photo request downloads, or finds in the cache, the photo of the message that
\* carried its id; a damaged id gets nothing, and one under an earlier key only what is
\* cached (FetchMedia, encodeMediaID, decodeMediaID, cacheKey).
THEOREM ApiFetchedIsShown == ApiSpec => []FetchedIsShown
<1>1. ApiInv => FetchedIsShown
    BY DEF ApiInv, MediaInv
<1>2. QED
    BY <1>1, ApiInvariant, PTL

\* Of the sizes of a photo, in any number and order, the id names one that can be
\* fetched and than which none is smaller (pickSmallestPhotoSize).
THEOREM ApiSmallestServed == ApiSpec => []SmallestServed
<1>1. ApiInv => SmallestServed
    <2> SUFFICES ASSUME ApiInv, NEW r \in Requests, shown[r] # Nothing
                 PROVE  LET sizes == shown[r].sizes
                            best  == pickSmallestPhotoSize(sizes)
                            fetch == {j \in 1..Len(sizes) : Downloadable(sizes[j])}
                        IN  /\ best.ok <=> fetch # {}
                            /\ best.ok => \E j \in fetch :
                                  /\ sizes[j].type = best.type
                                  /\ \A k \in fetch : sizes[j].px <= sizes[k].px
                                  /\ sizes[j].sizes # <<>> => best.bytes = sizes[j].sizes[1]
        BY DEF SmallestServed
    <2>1. shown[r].sizes \in Sizes
        BY IdParts DEF ApiInv, ShownIsPhoto
    <2>2. Smallest(pickSmallestPhotoSize(shown[r].sizes), shown[r].sizes, 1..Len(shown[r].sizes))
        BY <2>1, PickSmallest
    <2>3. QED
        BY <2>2 DEF Smallest
<1>2. QED
    BY <1>1, ApiInvariant, PTL

\* With photo requests among them, chat requests still reach only the chat that they
\* name and their own client may access, none takes effect twice, and a titled chat
\* of an answered list is in the cache.
THEOREM ApiChatRequests ==
    ApiSpec => [](TypeOK /\ EffectsAuthorized /\ AtMostOnce /\ TitledResolves /\ UntitledHasTwin)
<1>1. ApiInv => TypeOK /\ EffectsAuthorized /\ AtMostOnce /\ TitledResolves /\ UntitledHasTwin
    BY TitledInv DEF ApiInv, Inv
<1>2. QED
    BY <1>1, ApiInvariant, PTL

=============================================================================
