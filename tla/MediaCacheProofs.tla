-------------------------- MODULE MediaCacheProofs --------------------------
(***************************************************************************)
(* Theorems about MediaCache, for any photos, capacity and number of       *)
(* concurrent requests.  The map and the list of the cache agree, the total*)
(* that evictions go by is the sum of the sizes of the entries, and Put    *)
(* evicts no more than it needs to.  No file is left behind that nobody    *)
(* will look for.  For the ids that are not raced (see MediaCache), an     *)
(* entry is a whole photo, the photos on disk fit in the limit, and a      *)
(* device is served whole photos.                                          *)
(*                                                                         *)
(* What concerns the files only holds because of what is true in the       *)
(* middle of a Put: an id that is not raced has one Put at a time, its     *)
(* handle is on the temporary file it opened, and the file holds the bytes *)
(* written so far.                                                         *)
(***************************************************************************)
EXTENDS MediaCache, FiniteSetTheorems, TLAPS

-----------------------------------------------------------------------------
\* Files and the LRU list.

\* A set of naturals below a bound that is not empty has its maximum.
LEMMA MaxIn ==
    ASSUME NEW N \in Nat, NEW S \in SUBSET (0..N), S # {}
    PROVE  Max(S) \in S /\ \A y \in S : Max(S) >= y
<1> DEFINE above == {{y \in S : y > x} : x \in S}
<1>1. IsFiniteSet(S) /\ \A y \in S : y \in Int
    <2>1. IsFiniteSet(0..N)
        BY FS_Interval
    <2>2. IsFiniteSet(S)
        BY <2>1, FS_Subset
    <2>3. QED
        BY <2>2
<1>2. above \subseteq FiniteSubsetsOf(S) /\ above # {}
    <2>1. \A x \in S : {y \in S : y > x} \subseteq S /\ IsFiniteSet({y \in S : y > x})
        BY <1>1, FS_Subset
    <2>2. QED
        BY <2>1 DEF FiniteSubsetsOf
<1>3. PICK m \in above : \A y \in above : <<y, m>> \notin StrictSubsetOrdering(S)
    <2>1. IsWellFoundedOn(StrictSubsetOrdering(S), FiniteSubsetsOf(S))
        BY FS_StrictSubsetOrderingWellFounded
    <2> HIDE DEF above
    <2>2. QED
        BY <1>2, <2>1, WFMin
<1>4. PICK x \in S : m = {y \in S : y > x}
    BY <1>3
<1>5. ASSUME NEW z \in S, z > x
      PROVE  FALSE
    <2>1. /\ {y \in S : y > z} \in SUBSET S /\ m \in SUBSET S
          /\ {y \in S : y > z} \subseteq m /\ {y \in S : y > z} # m
        <3>1. z \in m /\ z \notin {y \in S : y > z}
            BY <1>1, <1>4, <1>5
        <3>2. \A y \in S : y > z => y > x
            BY <1>1, <1>5
        <3>3. QED
            BY <1>4, <3>1, <3>2
    <2>2. <<{y \in S : y > z}, m>> \in StrictSubsetOrdering(S)
        BY <2>1 DEF StrictSubsetOrdering
    <2>3. QED
        BY <1>3, <2>2
<1>6. \E k \in S : \A y \in S : k >= y
    BY <1>5
<1>7. QED
    BY <1>6 DEF Max

\* Stat reports a number for every file of a photo's parts...
LEMMA LengthNat ==
    ASSUME NEW k \in Keys, NEW f \in SUBSET Whole(k)
    PROVE  Length(f) \in Nat
<1>1. Photo[k] \in Nat
    BY MediaAssumption
<1>2. f \subseteq 0..Photo[k]
    BY <1>1 DEF Whole
<1>3. f # {} => Max(f) \in f
    BY <1>1, <1>2, MaxIn
<1>4. f # {} => Max(f) \in Nat
    <2>1. \A y \in f : y \in Nat
        BY <1>1, <1>2
    <2>2. QED
        BY <1>3, <2>1
<1>5. QED
    BY <1>4 DEF Length

\* ...and the size of the photo for a whole one.
LEMMA LengthWhole == ASSUME NEW k \in Keys PROVE Length(Whole(k)) = Photo[k]
<1>1. Photo[k] \in Nat \ {0}
    BY MediaAssumption
<1>2. Whole(k) \subseteq 0..Photo[k] /\ Photo[k] \in Whole(k)
    BY <1>1 DEF Whole
<1>3. Max(Whole(k)) \in Whole(k) /\ Max(Whole(k)) >= Photo[k]
    BY <1>1, <1>2, MaxIn
<1>4. QED
    BY <1>1, <1>2, <1>3 DEF Length, Whole

\* No key is twice in the list.
NoDup(s) == \A i, j \in 1..Len(s) : s[i] = s[j] => i = j

\* The keys of s other than k come in f in the order of s: whoever is before another
\* in s is before it in f.
Ordered(s, f, k) ==
    \A a, b \in 1..Len(s) : a < b /\ s[a] # k /\ s[b] # k =>
        \A q \in 1..Len(f) : f[q] = s[b] => \E m \in 1..q - 1 : f[m] = s[a]

\* list.Remove takes out one element, and the key with it.
LEMMA WithoutFacts ==
    ASSUME NEW s \in Seq(Keys), NoDup(s), NEW k \in Keys
    PROVE  /\ Without(s, k) \in Seq(Keys) /\ NoDup(Without(s, k))
           /\ KeysOf(Without(s, k)) = KeysOf(s) \ {k}
           /\ Ordered(s, Without(s, k), k)
<1>1. CASE k \notin KeysOf(s)
    <2>1. Without(s, k) = s /\ KeysOf(s) = KeysOf(s) \ {k}
        BY <1>1 DEF Without
    <2>2. Ordered(s, s, k)
        <3> SUFFICES ASSUME NEW a \in 1..Len(s), NEW b \in 1..Len(s), a < b,
                            NEW q \in 1..Len(s), s[q] = s[b]
                     PROVE  \E m \in 1..q - 1 : s[m] = s[a]
            BY DEF Ordered
        <3>1. q = b
            BY DEF NoDup
        <3>2. a \in 1..q - 1
            BY <3>1
        <3>3. QED
            BY <3>2
    <2>3. QED
        BY <2>1, <2>2
<1>2. CASE k \in KeysOf(s)
    <2> DEFINE p == CHOOSE i \in 1..Len(s) : s[i] = k
               w == Without(s, k)
    <2>1. p \in 1..Len(s) /\ s[p] = k
        BY <1>2 DEF KeysOf
    <2>2. w = SubSeq(s, 1, p - 1) \o SubSeq(s, p + 1, Len(s))
        BY <1>2 DEF Without, RemoveAt
    <2> HIDE DEF p, w
    <2>3. /\ w \in Seq(Keys) /\ Len(w) = Len(s) - 1
          /\ \A i \in 1..Len(w) : w[i] = IF i < p THEN s[i] ELSE s[i + 1]
        <3> DEFINE a == SubSeq(s, 1, p - 1)
                   b == SubSeq(s, p + 1, Len(s))
        <3>1. a \in Seq(Keys) /\ Len(a) = p - 1 /\ \A i \in 1..p - 1 : a[i] = s[i]
            BY <2>1
        <3>2. b \in Seq(Keys) /\ Len(b) = Len(s) - p /\ \A i \in 1..Len(s) - p : b[i] = s[i + p]
            BY <2>1
        <3> HIDE DEF a, b
        <3>3. /\ a \o b \in Seq(Keys) /\ Len(a \o b) = Len(a) + Len(b)
              /\ \A i \in 1..Len(a) + Len(b) :
                    (a \o b)[i] = IF i <= Len(a) THEN a[i] ELSE b[i - Len(a)]
            BY <3>1, <3>2
        <3>4. w = a \o b
            BY <2>2 DEF a, b
        <3>5. \A i \in 1..Len(s) - 1 : i >= p => b[i - (p - 1)] = s[i + 1]
            <4> TAKE i \in 1..Len(s) - 1
            <4> HAVE i >= p
            <4>1. i - (p - 1) \in 1..Len(s) - p /\ (i - (p - 1)) + p = i + 1
                BY <2>1
            <4>2. QED
                BY <3>2, <4>1
        <3>6. Len(a) = p - 1 /\ Len(w) = Len(s) - 1 /\ w \in Seq(Keys)
            <4>1. Len(s) \in Nat /\ p \in Nat /\ w \in Seq(Keys)
                BY <2>1, <3>3, <3>4
            <4>2. Len(w) = (p - 1) + (Len(s) - p)
                BY <3>1, <3>2, <3>3, <3>4
            <4>3. QED
                BY <3>1, <4>1, <4>2
        <3>7. ASSUME NEW i \in 1..Len(w)
              PROVE  w[i] = IF i < p THEN s[i] ELSE s[i + 1]
            <4>1. w[i] = IF i <= p - 1 THEN a[i] ELSE b[i - (p - 1)]
                BY <2>1, <3>2, <3>3, <3>4, <3>6, <3>7
            <4>2. i <= p - 1 => a[i] = s[i]
                BY <2>1, <3>1, <3>6, <3>7
            <4>3. QED
                BY <2>1, <3>5, <3>6, <3>7, <4>1, <4>2
        <3>8. QED
            BY <3>6, <3>7
    <2>4. NoDup(w)
        BY <2>1, <2>3 DEF NoDup
    <2>5. ASSUME NEW i \in 1..Len(s), i # p
          PROVE  \E j \in 1..Len(w) : w[j] = s[i]
        <3>1. CASE i < p
            BY <2>1, <2>3, <2>5, <3>1
        <3>2. CASE i > p
            <4>1. i - 1 \in 1..Len(w) /\ w[i - 1] = s[i]
                BY <2>1, <2>3, <2>5, <3>2
            <4>2. QED
                BY <4>1
        <3>3. QED
            BY <2>1, <2>5, <3>1, <3>2
    <2>6. \A j \in 1..Len(w) : \E i \in 1..Len(s) : i # p /\ w[j] = s[i]
        <3> SUFFICES ASSUME NEW j \in 1..Len(w)
                     PROVE  \E i \in 1..Len(s) : i # p /\ w[j] = s[i]
            OBVIOUS
        <3>1. CASE j < p
            BY <2>1, <2>3, <3>1
        <3>2. CASE ~(j < p)
            <4>1. j + 1 \in 1..Len(s) /\ w[j] = s[j + 1] /\ j + 1 # p
                BY <2>1, <2>3, <3>2
            <4>2. QED
                BY <4>1
        <3>3. QED
            BY <3>1, <3>2
    <2>7. KeysOf(w) = KeysOf(s) \ {k}
        BY <2>1, <2>5, <2>6 DEF KeysOf, NoDup
    <2>8. Ordered(s, w, k)
        <3> SUFFICES ASSUME NEW a \in 1..Len(s), NEW b \in 1..Len(s), a < b,
                            s[a] # k, s[b] # k, NEW q \in 1..Len(w), w[q] = s[b]
                     PROVE  \E m \in 1..q - 1 : w[m] = s[a]
            BY DEF Ordered
        <3> DEFINE pos(i) == IF i < p THEN i ELSE i - 1
        <3>1. ASSUME NEW i \in 1..Len(s), i # p
              PROVE  pos(i) \in 1..Len(w) /\ w[pos(i)] = s[i]
            <4>1. CASE i < p
                BY <2>1, <2>3, <3>1, <4>1
            <4>2. CASE i > p
                BY <2>1, <2>3, <3>1, <4>2
            <4>3. QED
                BY <2>1, <3>1, <4>1, <4>2
        <3>2. a # p /\ b # p
            BY <2>1
        <3>3. pos(a) < pos(b)
            BY <2>1, <3>2
        <3>4. pos(a) \in 1..Len(w) /\ w[pos(a)] = s[a] /\ pos(b) \in 1..Len(w) /\ w[pos(b)] = s[b]
            BY <3>1, <3>2
        <3> HIDE DEF pos
        <3>5. q = pos(b)
            BY <2>4, <3>4 DEF NoDup
        <3>6. pos(a) \in 1..q - 1
            BY <3>3, <3>4, <3>5
        <3>7. QED
            BY <3>4, <3>6
    <2>9. QED
        BY <2>3, <2>4, <2>7, <2>8 DEF w
<1>3. QED
    BY <1>1, <1>2

\* MoveToFront, or PushFront after a Remove: the key is in the list once.
LEMMA FrontFacts ==
    ASSUME NEW s \in Seq(Keys), NoDup(s), NEW k \in Keys
    PROVE  /\ <<k>> \o Without(s, k) \in Seq(Keys) /\ NoDup(<<k>> \o Without(s, k))
           /\ KeysOf(<<k>> \o Without(s, k)) = KeysOf(s) \cup {k}
           /\ (<<k>> \o Without(s, k))[1] = k /\ Len(<<k>> \o Without(s, k)) \in Nat \ {0}
           /\ Ordered(s, <<k>> \o Without(s, k), k)
<1> DEFINE w == Without(s, k)
           f == <<k>> \o w
<1>1. w \in Seq(Keys) /\ NoDup(w) /\ KeysOf(w) = KeysOf(s) \ {k} /\ Ordered(s, w, k)
    BY WithoutFacts
<1> HIDE DEF w
<1>2. /\ f \in Seq(Keys) /\ Len(f) = Len(w) + 1 /\ f[1] = k
      /\ \A i \in 1..Len(w) : f[i + 1] = w[i]
      /\ \A i \in 2..Len(f) : f[i] = w[i - 1] /\ i - 1 \in 1..Len(w)
    BY <1>1
<1> HIDE DEF f
<1>3. KeysOf(f) = KeysOf(w) \cup {k}
    <2>1. \A i \in 1..Len(f) : f[i] \in KeysOf(w) \cup {k}
        <3> TAKE i \in 1..Len(f)
        <3>1. i = 1 \/ i \in 2..Len(f)
            BY <1>1, <1>2
        <3>2. QED
            BY <1>2, <3>1 DEF KeysOf
    <2>2. \A i \in 1..Len(w) : w[i] \in KeysOf(f)
        <3> TAKE i \in 1..Len(w)
        <3>1. i + 1 \in 1..Len(f) /\ f[i + 1] = w[i]
            BY <1>1, <1>2
        <3>2. QED
            BY <3>1 DEF KeysOf
    <2>3. k \in KeysOf(f)
        BY <1>1, <1>2 DEF KeysOf
    <2>4. QED
        BY <2>1, <2>2, <2>3 DEF KeysOf
<1>4. NoDup(f)
    <2>1. \A i \in 1..Len(w) : w[i] # k
        BY <1>1 DEF KeysOf
    <2> SUFFICES ASSUME NEW i \in 1..Len(f), NEW j \in 1..Len(f), f[i] = f[j]
                 PROVE  i = j
        BY DEF NoDup
    <2>2. Len(w) \in Nat
        BY <1>1
    <2>3. CASE i = 1
        BY <1>2, <2>1, <2>2, <2>3
    <2>4. CASE j = 1
        BY <1>2, <2>1, <2>2, <2>4
    <2>5. CASE i # 1 /\ j # 1
        <3>1. i \in 2..Len(f) /\ j \in 2..Len(f)
            BY <1>2, <2>2, <2>5
        <3>2. w[i - 1] = w[j - 1] /\ i - 1 \in 1..Len(w) /\ j - 1 \in 1..Len(w)
            BY <1>2, <3>1
        <3>3. i - 1 = j - 1
            BY <1>1, <3>2 DEF NoDup
        <3>4. QED
            BY <3>1, <3>3
    <2>6. QED
        BY <2>3, <2>4, <2>5
<1>5. Ordered(s, f, k)
    <2> SUFFICES ASSUME NEW a \in 1..Len(s), NEW b \in 1..Len(s), a < b,
                        s[a] # k, s[b] # k, NEW q \in 1..Len(f), f[q] = s[b]
                 PROVE  \E m \in 1..q - 1 : f[m] = s[a]
        BY DEF Ordered
    <2>1. q # 1 /\ Len(f) \in Nat
        BY <1>1, <1>2
    <2>2. q \in 2..Len(f)
        BY <2>1
    <2>3. f[q] = w[q - 1] /\ q - 1 \in 1..Len(w)
        BY <1>2, <2>2
    <2>4. PICK m \in 1..(q - 1) - 1 : w[m] = s[a]
        BY <1>1, <2>3 DEF Ordered
    <2>5. m \in 1..Len(w) /\ m + 1 \in 1..q - 1
        BY <1>1, <2>3, <2>4
    <2>6. QED
        BY <1>2, <2>4, <2>5
<1>6. QED
    BY <1>1, <1>2, <1>3, <1>4, <1>5 DEF f, w

-----------------------------------------------------------------------------
\* Sums of sizes.  What a fold over a finite set computes is shown without induction:
\* of the subsets it would be wrong for, one would be smallest.

\* Among subsets of a finite set there is one that no other is part of.
LEMMA SmallestSet ==
    ASSUME NEW K, IsFiniteSet(K), NEW T \in SUBSET SUBSET K, T # {}
    PROVE  \E m \in T : \A s \in T : s \subseteq m => s = m
<1>1. T \subseteq FiniteSubsetsOf(K)
    BY FS_Subset DEF FiniteSubsetsOf
<1>2. IsWellFoundedOn(StrictSubsetOrdering(K), FiniteSubsetsOf(K))
    BY FS_StrictSubsetOrderingWellFounded
<1>3. PICK m \in T : \A s \in T : <<s, m>> \notin StrictSubsetOrdering(K)
    BY <1>1, <1>2, WFMin
<1>4. ASSUME NEW s \in T, s \subseteq m, s # m
      PROVE  FALSE
    <2>1. <<s, m>> \in StrictSubsetOrdering(K)
        BY <1>4 DEF StrictSubsetOrdering
    <2>2. QED
        BY <1>3, <2>1
<1>5. QED
    BY <1>4

\* The element that the fold takes first, the function that the fold chooses, and
\* the equation that is to be shown of what it computes.
Pick(s) == CHOOSE x \in s : TRUE
SumOn(F, K, sz) ==
    F = [s \in SUBSET K |-> IF s = {} THEN 0 ELSE sz[Pick(s)] + F[s \ {Pick(s)}]]
StepOf(sz, s) ==
    Sizes(sz, s) = IF s = {} THEN 0 ELSE sz[Pick(s)] + Sizes(sz, s \ {Pick(s)})

\* The sum is a value of the function that the fold chooses.
LEMMA SizesAsFunction ==
    ASSUME NEW sz, NEW K
    PROVE  Sizes(sz, K) = (CHOOSE F : SumOn(F, K, sz))[K]
BY DEF Sizes, MapThenSumSet, MapThenFoldSet, SumOn, Pick

\* The fold takes an element of the set.
LEMMA PickIn == ASSUME NEW s, s # {} PROVE Pick(s) \in s
BY DEF Pick

\* Two functions that the fold might choose agree.
LEMMA SumOnUnique ==
    ASSUME NEW sz, NEW K, IsFiniteSet(K), NEW F, NEW G, SumOn(F, K, sz), SumOn(G, K, sz)
    PROVE  F[K] = G[K]
<1> DEFINE T == {s \in SUBSET K : F[s] # G[s]}
<1>1. ASSUME T # {}
      PROVE  FALSE
    <2>0. T \in SUBSET SUBSET K
        OBVIOUS
    <2> HIDE DEF T
    <2>1. PICK m \in T : \A s \in T : s \subseteq m => s = m
        BY <1>1, <2>0, SmallestSet
    <2> USE DEF T
    <2>2. m # {} => Pick(m) \in m /\ m \ {Pick(m)} \in SUBSET K /\ m \ {Pick(m)} \notin T
        BY <2>1, PickIn
    <2>3. F[m] = IF m = {} THEN 0 ELSE sz[Pick(m)] + F[m \ {Pick(m)}]
        BY DEF SumOn
    <2>4. G[m] = IF m = {} THEN 0 ELSE sz[Pick(m)] + G[m \ {Pick(m)}]
        BY DEF SumOn
    <2>5. QED
        BY <2>1, <2>2, <2>3, <2>4
<1>2. QED
    BY <1>1

\* The sum over a finite set is that of its elements, taken one by one.
LEMMA SizesStep ==
    ASSUME NEW sz, NEW K, IsFiniteSet(K)
    PROVE  StepOf(sz, K)
<1> DEFINE T == {s \in SUBSET K : ~StepOf(sz, s)}
<1>1. ASSUME T # {}
      PROVE  FALSE
    <2>0. T \in SUBSET SUBSET K
        OBVIOUS
    <2> HIDE DEF T
    <2>1. PICK m \in T : \A s \in T : s \subseteq m => s = m
        BY <1>1, <2>0, SmallestSet
    <2> USE DEF T
    <2> DEFINE val == IF m = {} THEN 0 ELSE sz[Pick(m)] + Sizes(sz, m \ {Pick(m)})
               F == [s \in SUBSET m |-> IF s = m THEN val ELSE Sizes(sz, s)]
    <2>2. \A s \in SUBSET m : s # m => StepOf(sz, s)
        BY <2>1
    <2>3. \A s \in SUBSET m : s # {} => s \ {Pick(s)} \in SUBSET m /\ s \ {Pick(s)} # m
        BY PickIn
    <2>4. ASSUME NEW s \in SUBSET m
          PROVE  F[s] = IF s = {} THEN 0 ELSE sz[Pick(s)] + F[s \ {Pick(s)}]
        <3>1. s # {} => F[s \ {Pick(s)}] = Sizes(sz, s \ {Pick(s)})
            BY <2>3
        <3>2. CASE s = m
            BY <3>1, <3>2
        <3>3. CASE s # m
            BY <2>2, <3>1, <3>3 DEF StepOf
        <3>4. QED
            BY <3>2, <3>3
    <2>5. F = [s \in SUBSET m |-> F[s]]
        OBVIOUS
    <2> HIDE DEF F
    <2>6. SumOn(F, m, sz)
        BY <2>4, <2>5 DEF SumOn
    <2>7. SumOn(CHOOSE G : SumOn(G, m, sz), m, sz)
        BY <2>6
    <2>8. Sizes(sz, m) = F[m]
        BY <2>1, <2>6, <2>7, SizesAsFunction, SumOnUnique, FS_Subset
    <2>9. F[m] = val
        BY DEF F
    <2>10. QED
        BY <2>1, <2>8, <2>9 DEF StepOf
<1>2. QED
    BY <1>1

\* The sizes are numbers.
SizeNat(sz, K) == \A k \in K : sz[k] \in Nat

\* Nothing has no size.
LEMMA SizesEmpty == ASSUME NEW sz PROVE Sizes(sz, {}) = 0
BY SizesStep, FS_EmptySet DEF StepOf

\* A sum of numbers is a number.
LEMMA SizesNat ==
    ASSUME NEW sz, NEW K, IsFiniteSet(K), SizeNat(sz, K)
    PROVE  Sizes(sz, K) \in Nat
<1> DEFINE T == {s \in SUBSET K : Sizes(sz, s) \notin Nat}
<1>1. ASSUME T # {}
      PROVE  FALSE
    <2>0. T \in SUBSET SUBSET K
        OBVIOUS
    <2> HIDE DEF T
    <2>1. PICK m \in T : \A s \in T : s \subseteq m => s = m
        BY <1>1, <2>0, SmallestSet
    <2> USE DEF T
    <2>2. m # {} => Pick(m) \in m /\ m \ {Pick(m)} \in SUBSET K /\ m \ {Pick(m)} \notin T
        BY <2>1, PickIn
    <2>3. StepOf(sz, m)
        BY <2>1, SizesStep, FS_Subset
    <2>4. QED
        BY <2>1, <2>2, <2>3 DEF StepOf, SizeNat
<1>2. QED
    BY <1>1

\* The sum depends on the sizes of the keys it is taken over only.
LEMMA SizesSame ==
    ASSUME NEW f, NEW g, NEW K, IsFiniteSet(K), \A k \in K : f[k] = g[k]
    PROVE  Sizes(f, K) = Sizes(g, K)
<1> DEFINE T == {s \in SUBSET K : Sizes(f, s) # Sizes(g, s)}
<1>1. ASSUME T # {}
      PROVE  FALSE
    <2>0. T \in SUBSET SUBSET K
        OBVIOUS
    <2> HIDE DEF T
    <2>1. PICK m \in T : \A s \in T : s \subseteq m => s = m
        BY <1>1, <2>0, SmallestSet
    <2> USE DEF T
    <2>2. m # {} => Pick(m) \in m /\ m \ {Pick(m)} \in SUBSET K /\ m \ {Pick(m)} \notin T
        BY <2>1, PickIn
    <2>3. StepOf(f, m) /\ StepOf(g, m)
        BY <2>1, SizesStep, FS_Subset
    <2>4. QED
        BY <2>1, <2>2, <2>3 DEF StepOf
<1>2. QED
    BY <1>1

\* Any one key may be taken out of the sum...
LEMMA SizesTake ==
    ASSUME NEW sz, NEW K, IsFiniteSet(K), SizeNat(sz, K), NEW x \in K
    PROVE  Sizes(sz, K) = sz[x] + Sizes(sz, K \ {x})
<1> DEFINE T == {s \in SUBSET K : \E y \in s : Sizes(sz, s) # sz[y] + Sizes(sz, s \ {y})}
<1>1. ASSUME T # {}
      PROVE  FALSE
    <2>0. T \in SUBSET SUBSET K
        OBVIOUS
    <2> HIDE DEF T
    <2>1. PICK m \in T : \A s \in T : s \subseteq m => s = m
        BY <1>1, <2>0, SmallestSet
    <2> USE DEF T
    <2>2. PICK y \in m : Sizes(sz, m) # sz[y] + Sizes(sz, m \ {y})
        BY <2>1
    <2> DEFINE p == Pick(m)
    <2>3. p \in m /\ Sizes(sz, m) = sz[p] + Sizes(sz, m \ {p})
        BY <2>1, <2>2, SizesStep, PickIn, FS_Subset DEF StepOf
    <2>4. p # y
        BY <2>2, <2>3
    <2> HIDE DEF p
    <2>5. m \ {p} \notin T /\ m \ {y} \notin T
        BY <2>1, <2>2, <2>3
    <2>6. Sizes(sz, m \ {p}) = sz[y] + Sizes(sz, (m \ {p}) \ {y})
        BY <2>1, <2>2, <2>3, <2>4, <2>5
    <2>7. Sizes(sz, m \ {y}) = sz[p] + Sizes(sz, (m \ {y}) \ {p})
        BY <2>1, <2>2, <2>3, <2>4, <2>5
    <2>8. Sizes(sz, m \ {p}) = sz[y] + Sizes(sz, (m \ {y}) \ {p})
        <3>1. (m \ {p}) \ {y} = (m \ {y}) \ {p}
            OBVIOUS
        <3>2. QED
            BY <2>6, <3>1
    <2>9. sz[y] \in Nat /\ sz[p] \in Nat /\ Sizes(sz, (m \ {y}) \ {p}) \in Nat
        <3>1. (m \ {y}) \ {p} \in SUBSET K
            BY <2>1
        <3>2. QED
            BY <2>1, <2>2, <2>3, <3>1, FS_Subset, SizesNat DEF SizeNat
    <2>10. QED
        BY <2>2, <2>3, <2>7, <2>8, <2>9
<1>2. QED
    BY <1>1

\* ...and any set of keys, as an eviction does.
LEMMA SizesSplit ==
    ASSUME NEW sz, NEW K, IsFiniteSet(K), SizeNat(sz, K), NEW L \in SUBSET K
    PROVE  Sizes(sz, K) = Sizes(sz, L) + Sizes(sz, K \ L)
<1> DEFINE T == {s \in SUBSET K : Sizes(sz, K) # Sizes(sz, s) + Sizes(sz, K \ s)}
<1>1. ASSUME T # {}
      PROVE  FALSE
    <2>0. T \in SUBSET SUBSET K
        OBVIOUS
    <2> HIDE DEF T
    <2>1. PICK m \in T : \A s \in T : s \subseteq m => s = m
        BY <1>1, <2>0, SmallestSet
    <2> USE DEF T
    <2>2. m # {}
        <3>1. K \ {} = K /\ Sizes(sz, K) \in Nat /\ Sizes(sz, {}) = 0
            BY SizesNat, SizesEmpty
        <3>2. Sizes(sz, K) = Sizes(sz, {}) + Sizes(sz, K \ {})
            BY <3>1
        <3>3. QED
            BY <2>1, <3>2
    <2>3. PICK x \in m : TRUE
        BY <2>2
    <2> DEFINE a == m \ {x}
               b == K \ m
    <2>4. a \in SUBSET K /\ a # m /\ a \subseteq m /\ m \in SUBSET K
        BY <2>1, <2>3
    <2>5. Sizes(sz, K) = Sizes(sz, a) + Sizes(sz, K \ a)
        BY <2>1, <2>4
    <2>6. x \in K \ a /\ (K \ a) \ {x} = b
        BY <2>3, <2>4
    <2>7. Sizes(sz, m) = sz[x] + Sizes(sz, a)
        BY <2>3, <2>4, SizesTake, FS_Subset DEF SizeNat
    <2>8. Sizes(sz, K \ a) = sz[x] + Sizes(sz, b)
        <3>1. IsFiniteSet(K \ a) /\ SizeNat(sz, K \ a)
            BY FS_Subset DEF SizeNat
        <3>2. QED
            BY <2>6, <3>1, SizesTake
    <2>9. sz[x] \in Nat /\ Sizes(sz, a) \in Nat /\ Sizes(sz, b) \in Nat
        <3>1. IsFiniteSet(a) /\ IsFiniteSet(b) /\ SizeNat(sz, a) /\ SizeNat(sz, b)
            BY <2>4, FS_Subset DEF SizeNat
        <3>2. x \in K
            BY <2>3, <2>4
        <3>3. QED
            BY <3>1, <3>2, SizesNat DEF SizeNat
    <2>10. QED
        BY <2>1, <2>5, <2>7, <2>8, <2>9
<1>2. QED
    BY <1>1

-----------------------------------------------------------------------------
\* The types the proof needs: a file is NoFile or some parts of its own photo.
Types ==
    /\ lru \in Seq(Keys)
    /\ size \in [Keys -> Nat]
    /\ tmp \in [Keys -> {NoFile} \cup SUBSET Nat]
    /\ final \in [Keys -> {NoFile} \cup SUBSET Nat]
    /\ \A k \in Keys : tmp[k] = NoFile \/ tmp[k] \in SUBSET Whole(k)
    /\ \A k \in Keys : final[k] = NoFile \/ final[k] \in SUBSET Whole(k)
    /\ pc \in [Threads -> {"idle", "open", "write", "rename", "install", "serve"}]
    /\ id \in [Threads -> Keys]
    /\ fd \in [Threads -> {"tmp", "final", "gone"}]
    /\ off \in [Threads -> Nat]
    /\ stat \in [Threads -> Nat]
    /\ resp \in [Threads -> {"none", "whole", "missing", "torn"}]
    /\ raced \subseteq Keys

\* The list holds the keys of the map, each once.
Listed == KeysOf(lru) = entries /\ NoDup(lru)

\* A request has a handle while it writes, and a handle is on a file that exists.
Handles ==
    \A t \in Threads :
        /\ pc[t] # "write" => fd[t] = "gone"
        /\ fd[t] = "tmp" => tmp[id[t]] # NoFile
        /\ fd[t] = "final" => final[id[t]] # NoFile

\* An id that is not raced has one Put at a time, even if it is cached.
Alone ==
    \A t \in Threads : id[t] \notin raced /\ t \in Putting(id[t]) =>
        \A u \in Putting(id[t]) : u = t

\* Such a Put finds its files as it left them.
Undisturbed ==
    \A t \in Threads : id[t] \notin raced =>
        /\ pc[t] = "write" => fd[t] = "tmp" /\ tmp[id[t]] = 1..off[t] /\ off[t] <= Photo[id[t]]
        /\ pc[t] = "rename" => tmp[id[t]] = Whole(id[t]) /\ stat[t] = Photo[id[t]]
        /\ pc[t] = "install" => final[id[t]] = Whole(id[t]) /\ stat[t] = Photo[id[t]]

\* A file under its final name is whole, which is what a restart trusts.
OnDiskWhole == \A k \in Keys \ raced : final[k] = NoFile \/ final[k] = Whole(k)

\* The inductive invariant.
IInv ==
    /\ Types
    /\ Listed
    /\ Handles
    /\ Alone
    /\ Undisturbed
    /\ OnDiskWhole
    /\ EntryIsWhole
    /\ NoStrayFile

\* The entries are media ids.
LEMMA EntriesAreKeys ==
    ASSUME IInv
    PROVE  lru \in Seq(Keys) /\ NoDup(lru) /\ KeysOf(lru) = entries /\ entries \in SUBSET Keys
<1>1. lru \in Seq(Keys) /\ NoDup(lru) /\ KeysOf(lru) = entries
    BY DEF IInv, Types, Listed
<1>2. \A i \in 1..Len(lru) : lru[i] \in Keys
    BY <1>1
<1>3. QED
    BY <1>1, <1>2 DEF KeysOf

-----------------------------------------------------------------------------
\* One lemma for each step of a request, one for a restart.

LEMMA RefuseInv ==
    ASSUME IInv, NEW t \in Threads, Refuse(t)
    PROVE  IInv'
<1> USE MediaAssumption DEF IInv, Refuse, indexVars, fileVars
<1>1. Types'
    BY DEF Types, Whole
<1>2. Listed'
    BY DEF Listed
<1>3. Handles'
    BY DEF Types, Handles
<1>4. Alone'
    BY DEF Types, Alone, Putting
<1>5. Undisturbed'
    BY DEF Types, Handles, Alone, Undisturbed, Putting
<1>6. OnDiskWhole'
    BY DEF Types, OnDiskWhole, Alone, Undisturbed, Putting
<1>7. EntryIsWhole'
    BY DEF Types, EntryIsWhole, Alone, Putting
<1>8. NoStrayFile'
    <2>1. /\ pc[t] = "open" /\ pc'[t] = "idle"
          /\ \A u \in Threads \ {t} : pc'[u] = pc[u]
        BY DEF Types
    <2>2. \A k, u : u \in Putting(k)' <=> u \in Putting(k)
        BY <2>1 DEF Putting
    <2>3. \A k : \A u \in Putting(k) : pc'[u] = pc[u]
        BY <2>1 DEF Putting
    <2>4. QED
        BY <2>2, <2>3 DEF NoStrayFile, Renamed
<1>9. QED
    BY <1>1, <1>2, <1>3, <1>4, <1>5, <1>6, <1>7, <1>8

LEMMA OpenInv ==
    ASSUME IInv, NEW t \in Threads, Open(t)
    PROVE  IInv'
<1> USE MediaAssumption DEF IInv, Open, indexVars, fileVars
<1>1. Types'
    BY DEF Types, Whole
<1>2. Listed'
    BY DEF Listed
<1>3. Handles'
    BY DEF Types, Handles
<1>4. Alone'
    BY DEF Types, Alone, Putting
<1>5. Undisturbed'
    <2>1. /\ pc'[t] = "write" /\ fd'[t] = "tmp" /\ off'[t] = 0 /\ tmp'[id[t]] = {}
        BY DEF Types
    <2>2. ASSUME NEW u \in Threads \ {t}
          PROVE  /\ pc'[u] = pc[u] /\ fd'[u] = fd[u] /\ off'[u] = off[u]
                 /\ id[u] # id[t] => tmp'[id[u]] = tmp[id[u]]
        BY DEF Types
    <2>3. ASSUME NEW u \in Threads \ {t}, id[u] = id[t], id[u] \notin raced'
          PROVE  pc[u] \notin {"write", "rename", "install"}
        BY <2>3 DEF Putting
    <2>4. UNCHANGED <<final, id, stat>> /\ \A k \in raced \ raced' : k = id[t]
        OBVIOUS
    <2>5. ASSUME NEW u \in Threads, id[u] \notin raced', u # t, id[u] = id[t]
          PROVE  pc'[u] \notin {"write", "rename", "install"}
        BY <2>2, <2>3, <2>5
    <2>6. ASSUME NEW u \in Threads, id[u] \notin raced', u # t, id[u] # id[t]
          PROVE  /\ pc'[u] = pc[u] /\ fd'[u] = fd[u] /\ off'[u] = off[u]
                 /\ id[u] \notin raced /\ tmp'[id[u]] = tmp[id[u]]
        BY <2>2, <2>4, <2>6
    <2>7. tmp'[id[t]] = 1..off'[t] /\ off'[t] <= Photo[id[t]]
        <3>1. id[t] \in Keys
            BY DEF Types
        <3>2. Photo[id[t]] \in Nat
            BY <3>1
        <3> HIDE DEF IInv, Open
        <3>3. QED
            BY <2>1, <3>2
    <2>8. QED
        BY <2>1, <2>4, <2>5, <2>6, <2>7 DEF Undisturbed
<1>6. OnDiskWhole'
    <2>1. ASSUME id[t] \notin raced'
          PROVE  id[t] \notin raced \/ final[id[t]] = NoFile
        <3>1. id[t] \in Keys
            BY DEF Types
        <3>2. CASE id[t] \in entries
            BY <2>1, <3>2
        <3>3. CASE id[t] \notin entries
            <4>1. Putting(id[t]) = {}
                BY <2>1
            <4>2. Renamed(id[t]) = {}
                BY <4>1 DEF Putting, Renamed
            <4>3. QED
                BY <3>1, <3>3, <4>2 DEF NoStrayFile
        <3>4. QED
            BY <3>2, <3>3
    <2>2. \A k \in raced \ raced' : k = id[t]
        OBVIOUS
    <2>3. final' = final
        OBVIOUS
    <2> HIDE DEF Open
    <2>4. QED
        BY <2>1, <2>2, <2>3 DEF OnDiskWhole
<1>7. EntryIsWhole'
    <2>1. \A k \in entries \cap raced : k \in raced'
        OBVIOUS
    <2>2. UNCHANGED <<entries, final, size>>
        OBVIOUS
    <2> HIDE DEF Open
    <2>3. QED
        BY <2>1, <2>2 DEF EntryIsWhole
<1>8. NoStrayFile'
    BY DEF Types, Handles, NoStrayFile, Renamed, Putting
<1>9. QED
    BY <1>1, <1>2, <1>3, <1>4, <1>5, <1>6, <1>7, <1>8

LEMMA WriteInv ==
    ASSUME IInv, NEW t \in Threads, Write(t)
    PROVE  IInv'
<1> USE MediaAssumption DEF IInv, Write, indexVars, fileVars
<1>0. /\ id[t] \in Keys /\ pc[t] = "write" /\ off[t] \in Nat /\ off[t] + 1 \in Whole(id[t])
      /\ off' = [off EXCEPT ![t] = off[t] + 1]
      /\ \A k \in Keys \ {id[t]} : tmp'[k] = tmp[k] /\ final'[k] = final[k]
      /\ IF fd[t] = "tmp"
         THEN /\ tmp'[id[t]] = tmp[id[t]] \cup {off[t] + 1}
              /\ tmp'[id[t]] \in SUBSET Whole(id[t]) /\ tmp'[id[t]] # NoFile
         ELSE tmp' = tmp
      /\ IF fd[t] = "final"
         THEN /\ final'[id[t]] = final[id[t]] \cup {off[t] + 1}
              /\ final'[id[t]] \in SUBSET Whole(id[t]) /\ final'[id[t]] # NoFile
         ELSE final' = final
      /\ DOMAIN tmp' = Keys /\ DOMAIN final' = Keys
      /\ tmp' = [k \in Keys |-> tmp'[k]] /\ final' = [k \in Keys |-> final'[k]]
    <2>1. id[t] \in Keys /\ off[t] \in Nat /\ off[t] < Photo[id[t]] /\ Photo[id[t]] \in Nat
        BY DEF Types
    <2>2. off[t] + 1 \in Whole(id[t])
        BY <2>1 DEF Whole
    <2>3. fd[t] = "tmp" => tmp[id[t]] \in SUBSET Whole(id[t])
        BY <2>1 DEF Types, Handles
    <2>4. fd[t] = "final" => final[id[t]] \in SUBSET Whole(id[t])
        BY <2>1 DEF Types, Handles
    <2>5. \A f \in SUBSET Whole(id[t]) : f # NoFile
        BY <2>1
    <2>6. IF fd[t] = "tmp"
          THEN /\ tmp' = [tmp EXCEPT ![id[t]] = tmp[id[t]] \cup {off[t] + 1}]
               /\ tmp'[id[t]] = tmp[id[t]] \cup {off[t] + 1}
               /\ tmp'[id[t]] \in SUBSET Whole(id[t]) /\ tmp'[id[t]] # NoFile
          ELSE tmp' = tmp
        BY <2>1, <2>2, <2>3, <2>5 DEF Types
    <2>7. IF fd[t] = "final"
          THEN /\ final' = [final EXCEPT ![id[t]] = final[id[t]] \cup {off[t] + 1}]
               /\ final'[id[t]] = final[id[t]] \cup {off[t] + 1}
               /\ final'[id[t]] \in SUBSET Whole(id[t]) /\ final'[id[t]] # NoFile
          ELSE final' = final
        BY <2>1, <2>2, <2>4, <2>5 DEF Types
    <2>8. DOMAIN tmp = Keys /\ DOMAIN final = Keys
        BY DEF Types
    <2>9. \A k \in Keys \ {id[t]} : tmp'[k] = tmp[k]
        BY <2>6, <2>8
    <2>10. \A k \in Keys \ {id[t]} : final'[k] = final[k]
        BY <2>7, <2>8
    <2>11. DOMAIN tmp' = Keys /\ tmp' = [k \in Keys |-> tmp'[k]]
        BY <2>6 DEF Types
    <2>12. DOMAIN final' = Keys /\ final' = [k \in Keys |-> final'[k]]
        BY <2>7 DEF Types
    <2>13. QED
        BY <2>1, <2>2, <2>6, <2>7, <2>9, <2>10, <2>11, <2>12
<1>1. Types'
    <2>1. /\ tmp'[id[t]] = NoFile \/ tmp'[id[t]] \in SUBSET Whole(id[t])
          /\ final'[id[t]] = NoFile \/ final'[id[t]] \in SUBSET Whole(id[t])
        BY <1>0 DEF Types
    <2>2. \A k \in Keys : Whole(k) \subseteq Nat
        BY DEF Whole
    <2>3. /\ tmp' \in [Keys -> {NoFile} \cup SUBSET Nat]
          /\ final' \in [Keys -> {NoFile} \cup SUBSET Nat]
          /\ \A k \in Keys : tmp'[k] = NoFile \/ tmp'[k] \in SUBSET Whole(k)
          /\ \A k \in Keys : final'[k] = NoFile \/ final'[k] \in SUBSET Whole(k)
        BY <1>0, <2>1, <2>2 DEF Types
    <2>4. off' \in [Threads -> Nat]
        BY <1>0 DEF Types
    <2>5. QED
        BY <2>3, <2>4 DEF Types
<1>2. Listed'
    BY DEF Listed
<1>3. Handles'
    BY <1>0 DEF Types, Handles
<1>4. Alone'
    BY DEF Types, Alone, Putting
<1>5. Undisturbed'
    <2>1. ASSUME id[t] \notin raced
          PROVE  /\ fd[t] = "tmp" /\ tmp'[id[t]] = 1..off'[t] /\ off'[t] <= Photo[id[t]]
                 /\ \A u \in Threads \ {t} : id[u] = id[t] => u \notin Putting(id[t])
        <3>1. fd[t] = "tmp" /\ tmp[id[t]] = 1..off[t] /\ off[t] \in Nat /\ off'[t] = off[t] + 1
            BY <1>0, <2>1 DEF Types, Undisturbed
        <3>2. tmp'[id[t]] = (1..off[t]) \cup {off[t] + 1}
            BY <1>0, <3>1
        <3>3. (1..off[t]) \cup {off[t] + 1} = 1..(off[t] + 1)
            BY <3>1
        <3>4. off[t] + 1 <= Photo[id[t]]
            BY <1>0 DEF Whole
        <3>5. \A u \in Threads \ {t} : id[u] = id[t] => u \notin Putting(id[t])
            BY <1>0, <2>1 DEF Alone, Putting
        <3>6. QED
            BY <3>1, <3>2, <3>3, <3>4, <3>5
    <2>2. ASSUME NEW u \in Threads, id[u] \notin raced, u # t
          PROVE  /\ pc[u] = "write" => /\ fd[u] = "tmp" /\ tmp'[id[u]] = 1..off'[u]
                                       /\ off'[u] <= Photo[id[u]]
                 /\ pc[u] = "rename" => tmp'[id[u]] = Whole(id[u]) /\ stat[u] = Photo[id[u]]
                 /\ pc[u] = "install" => final'[id[u]] = Whole(id[u]) /\ stat[u] = Photo[id[u]]
        <3>1. CASE id[u] = id[t]
            BY <2>1, <2>2, <3>1 DEF Putting
        <3>2. CASE id[u] # id[t]
            BY <1>0, <2>2, <3>2 DEF Types, Undisturbed
        <3>3. QED
            BY <3>1, <3>2
    <2>3. pc[t] = "write" /\ UNCHANGED <<pc, id, fd, stat, raced>>
        BY <1>0
    <2> HIDE DEF Write, IInv
    <2>4. QED
        BY <2>1, <2>2, <2>3 DEF Undisturbed
<1>6. OnDiskWhole'
    BY DEF Types, OnDiskWhole, Alone, Undisturbed, Putting
<1>7. EntryIsWhole'
    <2>1. ASSUME NEW k \in entries \ raced
          PROVE  final'[k] = final[k]
        <3>1. k = id[t] => fd[t] = "tmp"
            BY <1>0, <2>1 DEF Undisturbed
        <3>2. k = id[t] => final' = final
            BY <1>0, <3>1
        <3>3. k \in Keys
            BY <2>1, EntriesAreKeys
        <3>4. QED
            BY <1>0, <3>2, <3>3
    <2>2. UNCHANGED <<entries, size, raced>>
        OBVIOUS
    <2> HIDE DEF Write
    <2>3. QED
        BY <2>1, <2>2 DEF EntryIsWhole
<1>8. NoStrayFile'
    BY DEF Types, Handles, NoStrayFile, Renamed, Putting
<1>9. QED
    BY <1>1, <1>2, <1>3, <1>4, <1>5, <1>6, <1>7, <1>8

LEMMA AbortInv ==
    ASSUME IInv, NEW t \in Threads, Abort(t)
    PROVE  IInv'
<1> USE MediaAssumption DEF IInv, Abort, indexVars, fileVars
<1>1. Types'
    BY DEF Types, Whole, Forget
<1>2. Listed'
    BY DEF Listed, Forget
<1>3. Handles'
    BY DEF Types, Handles, Forget
<1>4. Alone'
    BY DEF Types, Alone, Putting, Forget
<1>5. Undisturbed'
    BY DEF Types, Handles, Alone, Undisturbed, Putting, Forget
<1>6. OnDiskWhole'
    BY DEF Types, OnDiskWhole, Alone, Undisturbed, Putting, Forget
<1>7. EntryIsWhole'
    BY DEF Types, EntryIsWhole, Alone, Putting, Forget
<1>8. NoStrayFile'
    BY DEF Types, Handles, NoStrayFile, Renamed, Putting, Forget
<1>9. QED
    BY <1>1, <1>2, <1>3, <1>4, <1>5, <1>6, <1>7, <1>8

LEMMA StatInv ==
    ASSUME IInv, NEW t \in Threads, Stat(t)
    PROVE  IInv'
<1> USE MediaAssumption DEF IInv, Stat, indexVars, fileVars
<1>1. Types'
    <2>1. id[t] \in Keys /\ tmp[id[t]] \in SUBSET Whole(id[t])
        BY DEF Types
    <2>2. Length(tmp[id[t]]) \in Nat
        BY <2>1, LengthNat
    <2>3. QED
        BY <2>2 DEF Types
<1>2. Listed'
    BY DEF Listed
<1>3. Handles'
    BY DEF Types, Handles
<1>4. Alone'
    BY DEF Types, Alone, Putting
<1>5. Undisturbed'
    <2>1. /\ \A u \in Threads \ {t} : pc'[u] = pc[u] /\ fd'[u] = fd[u] /\ stat'[u] = stat[u]
          /\ pc[t] = "write" /\ pc'[t] = "rename" /\ stat'[t] = Length(tmp[id[t]])
          /\ UNCHANGED <<id, off, tmp, final, raced>>
        BY DEF Types
    <2>2. id[t] \notin raced => tmp[id[t]] = Whole(id[t])
        BY <2>1 DEF Undisturbed, Whole
    <2>3. Length(Whole(id[t])) = Photo[id[t]]
        BY LengthWhole DEF Types
    <2> HIDE DEF Stat
    <2>4. QED
        BY <2>1, <2>2, <2>3 DEF Undisturbed
<1>6. OnDiskWhole'
    BY DEF Types, OnDiskWhole, Alone, Undisturbed, Putting
<1>7. EntryIsWhole'
    BY DEF Types, EntryIsWhole, Alone, Putting
<1>8. NoStrayFile'
    BY DEF Types, Handles, NoStrayFile, Renamed, Putting
<1>9. QED
    BY <1>1, <1>2, <1>3, <1>4, <1>5, <1>6, <1>7, <1>8

LEMMA RenameInv ==
    ASSUME IInv, NEW t \in Threads, Rename(t)
    PROVE  IInv'
<1> USE MediaAssumption DEF IInv, Rename, indexVars, fileVars
<1>0. \A u \in Threads : fd'[u] = IF id[u] # id[t] THEN fd[u]
                                ELSE IF fd[u] = "tmp" THEN "final" ELSE "gone"
    OBVIOUS
<1>1. Types'
    BY DEF Types, Whole
<1>2. Listed'
    BY DEF Listed
<1>3. Handles'
    <2>2. /\ \A u \in Threads \ {t} : pc'[u] = pc[u]
          /\ fd[t] = "gone" /\ tmp[id[t]] # NoFile /\ final'[id[t]] = tmp[id[t]]
          /\ \A k \in Keys \ {id[t]} : tmp'[k] = tmp[k] /\ final'[k] = final[k]
        BY DEF Types, Handles
    <2>3. id \in [Threads -> Keys] /\ id' = id
        BY DEF Types
    <2> HIDE DEF Rename
    <2>4. QED
        BY <1>0, <2>2, <2>3 DEF Handles
<1>4. Alone'
    BY DEF Types, Alone, Putting
<1>5. Undisturbed'
    <2>1. /\ \A u \in Threads \ {t} : pc'[u] = pc[u]
          /\ pc[t] = "rename" /\ pc'[t] = "install" /\ final'[id[t]] = tmp[id[t]]
          /\ \A k \in Keys \ {id[t]} : tmp'[k] = tmp[k] /\ final'[k] = final[k]
          /\ UNCHANGED <<id, off, stat, raced>> /\ id \in [Threads -> Keys]
        BY DEF Types
    <2> HIDE DEF Rename
    <2>2. ASSUME NEW u \in Threads, u # t, id[u] = id[t], id[u] \notin raced
          PROVE  pc'[u] \notin {"write", "rename", "install"}
        BY <2>1, <2>2 DEF Alone, Putting
    <2>3. ASSUME NEW u \in Threads, id[u] # id[t]
          PROVE  /\ pc'[u] = pc[u] /\ fd'[u] = fd[u]
                 /\ tmp'[id[u]] = tmp[id[u]] /\ final'[id[u]] = final[id[u]]
        BY <1>0, <2>1, <2>3
    <2>4. id[t] \notin raced => final'[id[t]] = Whole(id[t]) /\ stat[t] = Photo[id[t]]
        BY <2>1 DEF Undisturbed
    <2>5. QED
        BY <2>1, <2>2, <2>3, <2>4 DEF Undisturbed
<1>6. OnDiskWhole'
    BY DEF Types, OnDiskWhole, Alone, Undisturbed, Putting
<1>7. EntryIsWhole'
    <2>1. ASSUME NEW k \in entries \ raced
          PROVE  final'[k] = Whole(k)
        <3>1. k \in Keys /\ final[k] = Whole(k)
            BY <2>1, EntriesAreKeys DEF EntryIsWhole
        <3>2. k = id[t] => tmp[k] = Whole(k)
            BY <2>1 DEF Undisturbed
        <3>3. final'[k] = IF k = id[t] THEN tmp[k] ELSE final[k]
            BY <3>1 DEF Types
        <3>4. QED
            BY <3>1, <3>2, <3>3
    <2>2. UNCHANGED <<entries, size, raced>>
        OBVIOUS
    <2> HIDE DEF Rename
    <2>3. QED
        BY <2>1, <2>2 DEF EntryIsWhole
<1>8. NoStrayFile'
    BY DEF Types, Handles, NoStrayFile, Renamed, Putting
<1>9. QED
    BY <1>1, <1>2, <1>3, <1>4, <1>5, <1>6, <1>7, <1>8

LEMMA ServeInv ==
    ASSUME IInv, NEW t \in Threads, Serve(t)
    PROVE  IInv'
<1> USE MediaAssumption DEF IInv, Serve, indexVars, fileVars
<1>1. Types'
    BY DEF Types, Whole
<1>2. Listed'
    BY DEF Listed
<1>3. Handles'
    BY DEF Types, Handles
<1>4. Alone'
    BY DEF Types, Alone, Putting
<1>5. Undisturbed'
    BY DEF Types, Handles, Alone, Undisturbed, Putting
<1>6. OnDiskWhole'
    BY DEF Types, OnDiskWhole, Alone, Undisturbed, Putting
<1>7. EntryIsWhole'
    BY DEF Types, EntryIsWhole, Alone, Putting
<1>8. NoStrayFile'
    <2>1. /\ pc[t] = "serve" /\ pc'[t] = "idle"
          /\ \A u \in Threads \ {t} : pc'[u] = pc[u]
        BY DEF Types
    <2>2. \A k, u : u \in Putting(k)' <=> u \in Putting(k)
        BY <2>1 DEF Putting
    <2>3. \A k : \A u \in Putting(k) : pc'[u] = pc[u]
        BY <2>1 DEF Putting
    <2>4. QED
        BY <2>2, <2>3 DEF NoStrayFile, Renamed
<1>9. QED
    BY <1>1, <1>2, <1>3, <1>4, <1>5, <1>6, <1>7, <1>8

\* A prefix of the list, and the rest that is evicted.
LEMMA PrefixFacts ==
    ASSUME NEW s \in Seq(Keys), NoDup(s), NEW n \in 0..Len(s)
    PROVE  /\ SubSeq(s, 1, n) \in Seq(Keys) /\ NoDup(SubSeq(s, 1, n))
           /\ KeysOf(SubSeq(s, 1, n)) = {s[i] : i \in 1..n}
           /\ KeysOf(SubSeq(s, 1, n)) = KeysOf(s) \ {s[i] : i \in n + 1..Len(s)}
<1> DEFINE p == SubSeq(s, 1, n)
<1>1. p \in Seq(Keys) /\ Len(p) = n /\ \A i \in 1..n : p[i] = s[i]
    OBVIOUS
<1> HIDE DEF p
<1>2. 1..n \subseteq 1..Len(s) /\ n + 1..Len(s) \subseteq 1..Len(s)
    OBVIOUS
<1>3. NoDup(p)
    BY <1>1, <1>2 DEF NoDup
<1>4. KeysOf(p) = {s[i] : i \in 1..n}
    BY <1>1 DEF KeysOf
<1>5. ASSUME NEW i \in 1..n, NEW j \in n + 1..Len(s)
      PROVE  s[i] # s[j]
    <2>1. i \in 1..Len(s) /\ j \in 1..Len(s) /\ i # j
        BY <1>2, <1>5
    <2>2. QED
        BY <2>1 DEF NoDup
<1>6. \A i \in 1..Len(s) : i \in 1..n \/ i \in n + 1..Len(s)
    OBVIOUS
<1>7. {s[i] : i \in 1..n} = KeysOf(s) \ {s[i] : i \in n + 1..Len(s)}
    BY <1>2, <1>5, <1>6 DEF KeysOf
<1>8. QED
    BY <1>1, <1>3, <1>4, <1>7 DEF p

\* The eviction loop keeps some prefix.
LEMMA KeptIn ==
    ASSUME NEW s \in Seq(Keys), NEW sum, NEW sz, NEW min \in Nat
    PROVE  Kept(s, sum, sz, min) \in 0..Len(s)
<1> DEFINE left(n) == sum - Sizes(sz, {s[i] : i \in n + 1..Len(s)})
           S == {n \in 0..Len(s) : n <= min \/ left(n) <= MAX_BYTES}
<1>1. Len(s) \in Nat /\ 0 \in 0..Len(s) /\ 0 <= min
    OBVIOUS
<1>2. Kept(s, sum, sz, min) = Max(S)
    BY DEF Kept
<1> HIDE DEF left
<1>3. S \in SUBSET (0..Len(s)) /\ S # {}
    BY <1>1
<1> HIDE DEF S
<1>4. QED
    BY <1>1, <1>2, <1>3, MaxIn

\* What an eviction of the photos gone from the list s, with the sizes sz, leaves:
\* the map and the list still agree, and what left the map left the directory too.
Evicted(s, sz, gone) ==
    /\ entries' = KeysOf(s) \ gone
    /\ lru' \in Seq(Keys) /\ NoDup(lru') /\ KeysOf(lru') = entries'
    /\ size' = [k \in Keys |-> IF k \in gone THEN 0 ELSE sz[k]]
    /\ final' = [k \in Keys |-> IF k \in gone THEN NoFile ELSE final[k]]
    /\ fd' = [t \in Threads |->
                 IF id[t] \in gone /\ fd[t] = "final" THEN "gone" ELSE fd[t]]
    /\ raced' = raced \cup {k \in gone : Renamed(k) # {}}

\* The eviction loop leaves such a state.
LEMMA EvictFacts ==
    ASSUME NEW s \in Seq(Keys), NoDup(s), entries \subseteq KeysOf(s),
           NEW sum, NEW sz, NEW min \in Nat, EvictTo(s, sum, sz, min)
    PROVE  \E gone \in SUBSET KeysOf(s) : Evicted(s, sz, gone)
<1> DEFINE n == Kept(s, sum, sz, min)
           gone == {s[i] : i \in n + 1..Len(s)}
<1>1. n \in 0..Len(s)
    BY KeptIn
<1>2. /\ lru' = SubSeq(s, 1, n)
      /\ entries' = (entries \cup KeysOf(s)) \ gone
      /\ size' = [k \in Keys |-> IF k \in gone THEN 0 ELSE sz[k]]
      /\ final' = [k \in Keys |-> IF k \in gone THEN NoFile ELSE final[k]]
      /\ fd' = [t \in Threads |->
                   IF id[t] \in gone /\ fd[t] = "final" THEN "gone" ELSE fd[t]]
      /\ raced' = raced \cup {k \in gone : Renamed(k) # {}}
    BY DEF EvictTo
<1> HIDE DEF n
<1>3. gone \subseteq KeysOf(s)
    BY <1>1 DEF KeysOf
<1>4. /\ SubSeq(s, 1, n) \in Seq(Keys) /\ NoDup(SubSeq(s, 1, n))
      /\ KeysOf(SubSeq(s, 1, n)) = KeysOf(s) \ gone
    BY <1>1, PrefixFacts
<1>5. entries' = KeysOf(s) \ gone
    BY <1>2
<1> HIDE DEF gone
<1>6. QED
    BY <1>2, <1>3, <1>4, <1>5 DEF Evicted

-----------------------------------------------------------------------------
\* The total and the limit.

\* A key without an entry has no size, and only a single photo may be too large.
Fits ==
    /\ \A k \in Keys \ entries : size[k] = 0
    /\ total <= MAX_BYTES \/ Cardinality(entries) = 1

\* Media ids are finitely many, and a sum over some of them is a number.
LEMMA SizesOfKeys ==
    ASSUME NEW sz \in [Keys -> Nat], NEW K \in SUBSET Keys
    PROVE  IsFiniteSet(K) /\ SizeNat(sz, K) /\ Sizes(sz, K) \in Nat
<1>1. IsFiniteSet(K) /\ SizeNat(sz, K)
    BY MediaAssumption, FS_Subset DEF SizeNat
<1>2. QED
    BY <1>1, SizesNat

\* What leaving some media ids out takes off their sum.
LEMMA SizesOfRest ==
    ASSUME NEW sz \in [Keys -> Nat], NEW K \in SUBSET Keys, NEW L \in SUBSET K
    PROVE  Sizes(sz, K) = Sizes(sz, L) + Sizes(sz, K \ L)
<1>1. IsFiniteSet(K) /\ SizeNat(sz, K)
    BY SizesOfKeys
<1>2. QED
    BY <1>1, SizesSplit

\* evictLocked in a loop: what stays is the longest prefix that fits, or has min
\* entries, and the total is reduced by what is gone.
LEMMA KeptFacts ==
    ASSUME NEW s \in Seq(Keys), NoDup(s), NEW sz \in [Keys -> Nat], NEW min \in Nat
    PROVE  LET sum  == Sizes(sz, KeysOf(s))
               n    == Kept(s, sum, sz, min)
               gone == {s[i] : i \in n + 1..Len(s)}
               upto(m) == {s[i] : i \in 1..m}
           IN  /\ n \in 0..Len(s)
               /\ upto(n) = KeysOf(s) \ gone /\ gone \subseteq KeysOf(s)
               /\ sum - Sizes(sz, gone) = Sizes(sz, upto(n))
               /\ n <= min \/ Sizes(sz, upto(n)) <= MAX_BYTES
               /\ \A m \in n + 1..Len(s) : m > min /\ Sizes(sz, upto(m)) > MAX_BYTES
<1> DEFINE sum  == Sizes(sz, KeysOf(s))
           left(m) == sum - Sizes(sz, {s[i] : i \in m + 1..Len(s)})
           upto(m) == {s[i] : i \in 1..m}
           S == {m \in 0..Len(s) : m <= min \/ left(m) <= MAX_BYTES}
           n == Kept(s, sum, sz, min)
           gone == {s[i] : i \in n + 1..Len(s)}
<1>1. ASSUME NEW m \in 0..Len(s)
      PROVE  /\ left(m) = Sizes(sz, upto(m)) /\ Sizes(sz, upto(m)) \in Nat
             /\ upto(m) = KeysOf(s) \ {s[i] : i \in m + 1..Len(s)}
             /\ {s[i] : i \in m + 1..Len(s)} \subseteq KeysOf(s)
    <2> DEFINE g == {s[i] : i \in m + 1..Len(s)}
    <2>1. upto(m) = KeysOf(s) \ g
        BY PrefixFacts
    <2>2. g \subseteq KeysOf(s)
        BY DEF KeysOf
    <2>3. KeysOf(s) \in SUBSET Keys
        BY DEF KeysOf
    <2> HIDE DEF g, upto
    <2>4. Sizes(sz, KeysOf(s)) = Sizes(sz, g) + Sizes(sz, KeysOf(s) \ g)
        BY <2>2, <2>3, SizesOfRest
    <2>5. Sizes(sz, g) \in Nat /\ Sizes(sz, upto(m)) \in Nat
        BY <2>1, <2>2, <2>3, SizesOfKeys
    <2>6. sum - Sizes(sz, g) = Sizes(sz, upto(m))
        BY <2>1, <2>4, <2>5
    <2>7. QED
        BY <2>1, <2>2, <2>5, <2>6 DEF g
<1>2. Len(s) \in Nat /\ 0 \in 0..Len(s) /\ 0 <= min
    OBVIOUS
<1>3. n = Max(S)
    BY DEF Kept
<1> HIDE DEF left, upto, n
<1>4. S \in SUBSET (0..Len(s)) /\ S # {}
    BY <1>2
<1>5. n \in S /\ \A m \in S : n >= m
    BY <1>2, <1>3, <1>4, MaxIn
<1>6. n \in 0..Len(s) /\ (n <= min \/ left(n) <= MAX_BYTES)
    BY <1>5
<1>7. ASSUME NEW m \in n + 1..Len(s)
      PROVE  m > min /\ Sizes(sz, upto(m)) > MAX_BYTES
    <2>1. m \in 0..Len(s) /\ m \in Nat /\ n \in Nat /\ ~(n >= m)
        BY <1>2, <1>6, <1>7
    <2>2. m \notin S
        BY <1>5, <2>1
    <2>3. ~(m <= min) /\ ~(left(m) <= MAX_BYTES)
        BY <2>1, <2>2
    <2>4. QED
        BY <1>1, <2>1, <2>3, MediaAssumption
<1>8. QED
    BY <1>1, <1>6, <1>7 DEF left, upto, n

\* An eviction leaves the total right, and fitting unless one photo is all there is.
LEMMA EvictSums ==
    ASSUME NEW s \in Seq(Keys), NoDup(s), entries \subseteq KeysOf(s),
           NEW sz \in [Keys -> Nat], \A k \in Keys \ KeysOf(s) : sz[k] = 0,
           NEW sum, sum = Sizes(sz, KeysOf(s)), EvictTo(s, sum, sz, 1)
    PROVE  TotalIsSum' /\ Fits'
<1> DEFINE n == Kept(s, sum, sz, 1)
           gone == {s[i] : i \in n + 1..Len(s)}
           kept == {s[i] : i \in 1..n}
<1>1. /\ entries' = (entries \cup KeysOf(s)) \ gone
      /\ total' = sum - Sizes(sz, gone)
      /\ size' = [k \in Keys |-> IF k \in gone THEN 0 ELSE sz[k]]
    BY DEF EvictTo
<1>2. /\ n \in 0..Len(s)
      /\ kept = KeysOf(s) \ gone
      /\ sum - Sizes(sz, gone) = Sizes(sz, kept)
      /\ n <= 1 \/ Sizes(sz, kept) <= MAX_BYTES
    BY KeptFacts
<1> HIDE DEF n
<1>3. KeysOf(s) \in SUBSET Keys
    BY DEF KeysOf
<1>4. n = 0 => kept = {}
    OBVIOUS
<1>5. n = 1 => Cardinality(kept) = 1
    <2>1. n = 1 => kept = {s[1]}
        OBVIOUS
    <2>2. QED
        BY <2>1, FS_Singleton
<1> HIDE DEF gone, kept
<1>6. entries' = kept /\ total' = Sizes(sz, kept) /\ kept \in SUBSET Keys
    BY <1>1, <1>2, <1>3
<1>7. \A k \in kept : size'[k] = sz[k]
    BY <1>1, <1>2, <1>3
<1>8. IsFiniteSet(kept) /\ Sizes(sz, kept) \in Nat
    BY <1>6, SizesOfKeys
<1>9. Sizes(size', kept) = Sizes(sz, kept)
    BY <1>7, <1>8, SizesSame
<1>10. TotalIsSum'
    BY <1>6, <1>9 DEF TotalIsSum
<1>11. \A k \in Keys \ kept : size'[k] = 0
    BY <1>1, <1>2
<1>12. Sizes(sz, kept) <= MAX_BYTES \/ Cardinality(kept) = 1
    <2>1. n = 0 => Sizes(sz, kept) = 0
        BY <1>4, SizesEmpty
    <2>2. n \in Nat
        BY <1>2
    <2>3. QED
        BY <1>2, <1>5, <2>1, <2>2, MediaAssumption
<1>13. QED
    BY <1>6, <1>10, <1>11, <1>12 DEF Fits

\* newMediaCache sorts the file names; each is loaded once.
LEMMA DowntoFacts ==
    ASSUME NEW K \in SUBSET Keys
    PROVE  Downto(K) \in Seq(Keys) /\ NoDup(Downto(K)) /\ KeysOf(Downto(K)) = K
<1> DEFINE N == Cardinality(K)
           from(k) == {j \in K : j >= k}
           rank == [k \in K |-> Cardinality(from(k))]
<1>1. IsFiniteSet(K) /\ N \in Nat
    BY MediaAssumption, FS_Subset, FS_CardinalityType
<1>2. K \subseteq Nat
    BY MediaAssumption
<1>3. ASSUME NEW k \in K
      PROVE  /\ IsFiniteSet(from(k)) /\ Cardinality(from(k)) \in 1..N
             /\ k \in from(k) /\ from(k) \in SUBSET K
    <2>1. k \in from(k) /\ from(k) \in SUBSET K
        BY <1>2
    <2>2. IsFiniteSet(from(k)) /\ Cardinality(from(k)) <= N
        BY <1>1, <2>1, FS_Subset
    <2>3. Cardinality(from(k)) \in Nat /\ Cardinality(from(k)) # 0
        BY <2>1, <2>2, FS_CardinalityType, FS_EmptySet
    <2>4. QED
        BY <1>1, <2>1, <2>2, <2>3
<1>4. ASSUME NEW k \in K, NEW l \in K, k < l
      PROVE  rank[k] # rank[l]
    <2>1. from(l) \in SUBSET from(k) /\ k \notin from(l) /\ k \in from(k)
        <3>1. k \in Nat /\ l \in Nat /\ \A j \in K : j >= l => j >= k
            BY <1>2, <1>4
        <3>2. ~(k >= l) /\ k >= k
            BY <1>4, <3>1
        <3>3. QED
            BY <3>1, <3>2
    <2>2. from(l) # from(k)
        BY <2>1
    <2>3. IsFiniteSet(from(k))
        BY <1>3
    <2> HIDE DEF from
    <2>4. QED
        BY <2>1, <2>2, <2>3, FS_Subset
<1>5. rank \in Injection(K, 1..N)
    <2>1. rank \in [K -> 1..N]
        BY <1>3
    <2>2. ASSUME NEW k \in K, NEW l \in K, rank[k] = rank[l]
          PROVE  k = l
        <3>1. k < l \/ l < k \/ k = l
            BY <1>2
        <3> HIDE DEF rank
        <3>2. QED
            BY <1>4, <2>2, <3>1
    <2> HIDE DEF rank
    <2>3. QED
        BY <2>1, <2>2 DEF Injection, IsInjective
<1>6. \A i \in 1..N : \E k \in K : Cardinality(from(k)) = i
    <2>1. IsFiniteSet(1..N) /\ Cardinality(1..N) = N
        BY <1>1, FS_Interval
    <2> HIDE DEF rank
    <2>2. rank \in Surjection(K, 1..N)
        BY <1>5, <2>1, FS_Injection
    <2>3. \A i \in 1..N : \E k \in K : rank[k] = i
        BY <2>2 DEF Surjection
    <2>4. QED
        BY <2>3 DEF rank
<1>7. Downto(K) = [i \in 1..N |-> CHOOSE k \in K : Cardinality(from(k)) = i]
    BY DEF Downto
<1>8. \A i \in 1..N : Downto(K)[i] \in K /\ Cardinality(from(Downto(K)[i])) = i
    BY <1>6, <1>7
<1> HIDE DEF from
<1>9. Downto(K) \in [1..N -> Keys]
    <2>1. DOMAIN Downto(K) = 1..N /\ Downto(K) = [i \in 1..N |-> Downto(K)[i]]
        BY <1>7
    <2>2. QED
        BY <1>8, <2>1
<1>10. Downto(K) \in Seq(Keys) /\ Len(Downto(K)) = N
    BY <1>1, <1>9
<1>11. NoDup(Downto(K)) /\ KeysOf(Downto(K)) \subseteq K
    BY <1>8, <1>10 DEF NoDup, KeysOf
<1>12. ASSUME NEW k \in K
      PROVE  \E i \in 1..N : Downto(K)[i] = k
    <2> DEFINE i == Cardinality(from(k))
               l == Downto(K)[i]
    <2>1. i \in 1..N
        BY <1>3
    <2>2. l \in K /\ rank[l] = rank[k]
        BY <1>8, <2>1
    <2> HIDE DEF l
    <2>3. k < l \/ l < k \/ k = l
        BY <1>2, <2>2
    <2> HIDE DEF rank
    <2>4. k = l
        BY <1>4, <2>2, <2>3
    <2>5. QED
        BY <2>1, <2>4 DEF l
<1>13. KeysOf(Downto(K)) = K
    BY <1>10, <1>11, <1>12 DEF KeysOf
<1>14. QED
    BY <1>10, <1>11, <1>13

-----------------------------------------------------------------------------
\* An empty cache and no request.
LEMMA InitInv == Init => IInv
<1> SUFFICES ASSUME Init
             PROVE  IInv
    OBVIOUS
<1> USE MediaAssumption DEF Init
<1>1. Types
    BY DEF Types
<1>2. Listed
    BY DEF Listed, KeysOf, NoDup
<1>3. Handles /\ Undisturbed /\ OnDiskWhole /\ NoStrayFile /\ EntryIsWhole
    BY DEF Handles, Undisturbed, OnDiskWhole, NoStrayFile, EntryIsWhole
<1>4. Alone
    BY DEF Alone, Putting
<1>5. QED
    BY <1>1, <1>2, <1>3, <1>4 DEF IInv

\* A lookup reorders the list at most.
LEMMA GetInv ==
    ASSUME IInv, NEW t \in Threads, NEW k \in Keys, Get(t, k)
    PROVE  IInv'
<1> USE MediaAssumption DEF IInv
<1>1. /\ pc[t] = "idle" /\ pc'[t] \in {"serve", "open"} /\ id'[t] = k /\ resp'[t] = "none"
      /\ \A u \in Threads \ {t} : pc'[u] = pc[u] /\ id'[u] = id[u] /\ resp'[u] = resp[u]
      /\ UNCHANGED <<entries, size, total, tmp, final, fd, off, stat, raced>>
    BY DEF Types, Get, fileVars
<1>2. \A j, u : u \in Putting(j)' <=> u \in Putting(j)
    BY <1>1 DEF Putting
<1>3. /\ lru \in Seq(Keys) /\ NoDup(lru) /\ KeysOf(lru) = entries
      /\ IF k \in entries THEN lru' = <<k>> \o Without(lru, k) ELSE lru' = lru
    BY DEF Get, Types, Listed
<1>4. /\ <<k>> \o Without(lru, k) \in Seq(Keys) /\ NoDup(<<k>> \o Without(lru, k))
      /\ KeysOf(<<k>> \o Without(lru, k)) = entries \cup {k}
    BY <1>3, FrontFacts
<1>5. Types'
    <2>1. lru' \in Seq(Keys)
        BY <1>3, <1>4
    <2>2. /\ pc' \in [Threads -> {"idle", "open", "write", "rename", "install", "serve"}]
          /\ id' \in [Threads -> Keys]
          /\ resp' \in [Threads -> {"none", "whole", "missing", "torn"}]
        BY DEF Get, Types
    <2>3. QED
        BY <1>1, <2>1, <2>2 DEF Types
<1>6. Listed'
    <2>1. CASE k \in entries
        <3>1. entries \cup {k} = entries /\ lru' = <<k>> \o Without(lru, k)
            BY <1>3, <2>1
        <3>2. QED
            BY <1>1, <1>4, <3>1 DEF Listed
    <2>2. CASE k \notin entries
        BY <1>1, <1>3, <2>2 DEF Listed
    <2>3. QED
        BY <2>1, <2>2
<1>7. Handles'
    BY <1>1 DEF Handles
<1>8. Alone'
    BY <1>1, <1>2 DEF Alone, Putting
<1>9. Undisturbed'
    BY <1>1 DEF Undisturbed
<1>10. OnDiskWhole' /\ EntryIsWhole'
    BY <1>1 DEF OnDiskWhole, EntryIsWhole
<1>11. NoStrayFile'
    <2>1. \A j : \A u \in Putting(j) : pc'[u] = pc[u]
        BY <1>1 DEF Putting
    <2>2. QED
        BY <1>1, <1>2, <2>1 DEF NoStrayFile, Renamed
<1>12. QED
    BY <1>5, <1>6, <1>7, <1>8, <1>9, <1>10, <1>11

\* Put enters its photo and evicts others.
LEMMA InstallInv ==
    ASSUME IInv, NEW t \in Threads, Install(t)
    PROVE  IInv'
<1> USE MediaAssumption DEF IInv
<1> DEFINE k == id[t]
           s == <<k>> \o Without(lru, k)
           sz == [size EXCEPT ![k] = stat[t]]
<1>1. /\ k \in Keys /\ pc[t] = "install" /\ pc'[t] = "serve" /\ fd[t] = "gone"
      /\ \A u \in Threads \ {t} : pc'[u] = pc[u] /\ off'[u] = off[u] /\ stat'[u] = stat[u]
      /\ UNCHANGED <<tmp, id, resp>>
    BY DEF Types, Handles, Install, Forget
<1>2. /\ off' \in [Threads -> Nat] /\ stat' \in [Threads -> Nat]
      /\ pc' \in [Threads -> {"idle", "open", "write", "rename", "install", "serve"}]
    BY DEF Types, Install, Forget
<1>3. s \in Seq(Keys) /\ NoDup(s) /\ KeysOf(s) = entries \cup {k}
    BY <1>1, FrontFacts DEF Types, Listed
<1>4. sz \in [Keys -> Nat] /\ sz[k] = stat[t] /\ \A j \in Keys \ {k} : sz[j] = size[j]
    BY <1>1 DEF Types
<1>5. PICK gone \in SUBSET KeysOf(s) : Evicted(s, sz, gone)
    <2>1. EvictTo(s, TotalWithout(k) + stat[t], sz, 1)
        BY DEF Install
    <2> HIDE DEF s, sz, k
    <2>2. entries \subseteq KeysOf(s) /\ 1 \in Nat
        BY <1>3
    <2>3. QED
        BY <1>3, <2>1, <2>2, EvictFacts
<1> USE DEF Evicted
<1> HIDE DEF s, sz
<1>6. \A j : \A u \in Threads \ {t} : u \in Putting(j)' <=> u \in Putting(j)
    BY <1>1 DEF Putting
<1>7. t \in Putting(k) /\ \A j : t \notin Putting(j)'
    BY <1>1 DEF Putting
<1>8. Types'
    <2>1. KeysOf(s) \subseteq Keys
        BY <1>1, <1>3, EntriesAreKeys
    <2>2. raced' \subseteq Keys
        BY <1>5, <2>1 DEF Types
    <2>3. QED
        BY <1>1, <1>2, <1>4, <1>5, <2>2 DEF Types
<1>9. Listed'
    BY <1>5 DEF Listed
<1>10. Handles'
    BY <1>1, <1>5 DEF Types, Handles
<1>11. Alone'
    <2>1. ASSUME NEW u \in Threads, id[u] \notin raced, u \in Putting(id[u])'
          PROVE  \A v \in Putting(id[u])' : v = u
        BY <1>6, <1>7, <2>1 DEF Alone, Putting
    <2>2. QED
        BY <1>1, <1>5, <2>1 DEF Alone
<1>12. Undisturbed'
    <2>1. ASSUME NEW u \in Threads, pc'[u] \in {"write", "rename", "install"}
          PROVE  u # t /\ pc'[u] = pc[u]
        BY <1>1, <2>1
    <2>3. ASSUME NEW u \in Threads, id[u] \notin raced', pc[u] = "install"
          PROVE  id[u] \notin gone
        BY <1>5, <2>3 DEF Renamed
    <2>2. \A u \in Threads : id[u] \in Keys
        BY DEF Types
    <2>4. raced \subseteq raced'
        BY <1>5
    <2>5. QED
        BY <1>1, <1>5, <2>1, <2>2, <2>3, <2>4 DEF Undisturbed
<1>13. OnDiskWhole'
    BY <1>1, <1>5 DEF OnDiskWhole
<1>14. EntryIsWhole'
    <2>1. ASSUME NEW j \in entries', j \notin raced
          PROVE  final'[j] = Whole(j) /\ size'[j] = Photo[j]
        <3>1. j \in Keys /\ j \notin gone /\ (j = k \/ j \in entries)
            BY <1>1, <1>3, <1>5, <2>1 DEF Types, Listed, KeysOf
        <3>2. final'[j] = final[j] /\ size'[j] = sz[j]
            BY <1>5, <3>1
        <3>3. CASE j = k
            BY <1>1, <1>4, <2>1, <3>2, <3>3 DEF Undisturbed
        <3>4. CASE j # k
            BY <1>4, <2>1, <3>1, <3>2, <3>4 DEF EntryIsWhole
        <3>5. QED
            BY <3>3, <3>4
    <2>2. raced \subseteq raced'
        BY <1>5
    <2>3. QED
        BY <2>1, <2>2 DEF EntryIsWhole
<1>15. NoStrayFile'
    <2>1. ASSUME NEW j \in Keys, final'[j] # NoFile
          PROVE  j \in entries' \/ Renamed(j)' # {}
        <3>1. j \notin gone /\ final[j] # NoFile
            BY <1>5, <2>1
        <3>2. CASE j \in entries \cup {k}
            BY <1>3, <1>5, <3>1, <3>2
        <3>3. CASE j \notin entries \cup {k}
            <4>1. PICK u \in Renamed(j) : TRUE
                BY <3>1, <3>3 DEF NoStrayFile
            <4>2. u \in Threads /\ u # t
                BY <3>3, <4>1 DEF Renamed
            <4>3. QED
                BY <1>1, <4>1, <4>2 DEF Renamed
        <3>4. QED
            BY <3>2, <3>3
    <2>2. ASSUME NEW j \in Keys, tmp[j] # NoFile
          PROVE  \E u \in Putting(j)' : pc'[u] # "install"
        <3>1. PICK u \in Putting(j) : pc[u] # "install"
            BY <2>2 DEF NoStrayFile
        <3>2. u \in Threads /\ u # t
            BY <1>1, <3>1 DEF Putting
        <3>3. QED
            BY <1>1, <1>6, <3>1, <3>2
    <2>3. QED
        BY <1>1, <2>1, <2>2 DEF NoStrayFile
<1>16. QED
    BY <1>8, <1>9, <1>10, <1>11, <1>12, <1>13, <1>14, <1>15

\* A restart finds whole photos, or such of ids that are raced.
LEMMA RestartInv ==
    ASSUME IInv, Restart
    PROVE  IInv'
<1> USE MediaAssumption DEF IInv
<1> DEFINE files == {k \in Keys : final[k] # NoFile}
           sz == [k \in Keys |-> IF k \in files THEN Length(final[k]) ELSE 0]
           s == Downto(files)
           n == Kept(s, Sizes(sz, files), sz, 0)
           kept == {s[i] : i \in 1..n}
<1>1. /\ lru' = SubSeq(s, 1, n) /\ entries' = kept
      /\ size' = [k \in Keys |-> IF k \in kept THEN sz[k] ELSE 0]
      /\ final' = [k \in Keys |-> IF k \in kept THEN final[k] ELSE NoFile]
      /\ tmp' = [k \in Keys |-> NoFile]
      /\ pc' = [t \in Threads |-> "idle"] /\ fd' = [t \in Threads |-> "gone"]
      /\ off' = [t \in Threads |-> 0] /\ stat' = [t \in Threads |-> 0]
      /\ resp' = [t \in Threads |-> "none"]
      /\ UNCHANGED <<id, raced>>
    BY DEF Restart
<1>2. s \in Seq(Keys) /\ NoDup(s) /\ KeysOf(s) \subseteq files
    BY DowntoFacts
<1>3. sz \in [Keys -> Nat] /\ \A k \in files : sz[k] = Length(final[k])
    <2>1. \A k \in files : Length(final[k]) \in Nat
        BY LengthNat DEF Types
    <2>2. QED
        BY <2>1
<1> HIDE DEF s, sz
<1>4. n \in 0..Len(s)
    BY <1>2, KeptIn
<1> HIDE DEF n
<1>5. SubSeq(s, 1, n) \in Seq(Keys) /\ NoDup(SubSeq(s, 1, n)) /\ KeysOf(SubSeq(s, 1, n)) = kept
    BY <1>2, <1>4, PrefixFacts
<1>6. kept \subseteq files
    BY <1>2, <1>4 DEF KeysOf
<1> HIDE DEF kept
<1>7. Types'
    BY <1>1, <1>3, <1>5 DEF Types
<1>8. Listed'
    BY <1>1, <1>5 DEF Listed
<1>9. Handles' /\ Undisturbed'
    BY <1>1 DEF Handles, Undisturbed
<1>10. Alone'
    BY <1>1 DEF Alone, Putting
<1>11. OnDiskWhole'
    BY <1>1 DEF OnDiskWhole
<1>12. EntryIsWhole'
    <2>1. ASSUME NEW k \in kept, k \notin raced
          PROVE  final'[k] = Whole(k) /\ size'[k] = Photo[k]
        <3>1. k \in Keys /\ final[k] = Whole(k)
            BY <1>6, <2>1 DEF OnDiskWhole
        <3>2. Length(Whole(k)) = Photo[k]
            BY <3>1, LengthWhole
        <3>3. QED
            BY <1>1, <1>3, <1>6, <2>1, <3>1, <3>2
    <2>2. QED
        BY <1>1, <2>1 DEF EntryIsWhole
<1>13. NoStrayFile'
    BY <1>1 DEF NoStrayFile
<1>14. QED
    BY <1>7, <1>8, <1>9, <1>10, <1>11, <1>12, <1>13

\* An installation puts its photo at the front of the list, replaces the size it had
\* in the total by the new one, and evicts from there.
LEMMA InstallList ==
    ASSUME IInv, TotalIsSum, Fits, NEW t \in Threads, Install(t)
    PROVE  LET k   == id[t]
               s   == <<k>> \o Without(lru, k)
               sz  == [size EXCEPT ![k] = stat[t]]
               sum == TotalWithout(k) + stat[t]
           IN  /\ EvictTo(s, sum, sz, 1) /\ sum = Sizes(sz, KeysOf(s))
               /\ k \in Keys /\ s \in Seq(Keys) /\ NoDup(s)
               /\ KeysOf(s) = entries \cup {k} /\ s[1] = k /\ Len(s) \in Nat \ {0}
               /\ Ordered(lru, s, k)
               /\ sz \in [Keys -> Nat]
               /\ \A j \in Keys \ {k} : sz[j] = size[j]
               /\ \A j \in Keys \ KeysOf(s) : sz[j] = 0
<1> USE MediaAssumption DEF IInv
<1> DEFINE k == id[t]
           s == <<k>> \o Without(lru, k)
           sz == [size EXCEPT ![k] = stat[t]]
           sum == TotalWithout(k) + stat[t]
<1>1. EvictTo(s, sum, sz, 1)
    BY DEF Install
<1>2. /\ k \in Keys /\ stat[t] \in Nat /\ size \in [Keys -> Nat] /\ sz \in [Keys -> Nat]
      /\ sz[k] = stat[t] /\ \A j \in Keys \ {k} : sz[j] = size[j]
    BY DEF Types
<1>3. s \in Seq(Keys) /\ NoDup(s) /\ KeysOf(s) = entries \cup {k} /\ entries \in SUBSET Keys
      /\ s[1] = k /\ Len(s) \in Nat \ {0} /\ Ordered(lru, s, k)
    <2>1. lru \in Seq(Keys) /\ NoDup(lru) /\ KeysOf(lru) = entries /\ entries \in SUBSET Keys
        BY EntriesAreKeys
    <2>2. QED
        BY <1>2, <2>1, FrontFacts
<1> HIDE DEF s, sz, k
<1> DEFINE others == entries \ {k}
<1>4. /\ IsFiniteSet(others) /\ Sizes(size, others) \in Nat /\ Sizes(sz, others) = Sizes(size, others)
    <2>1. others \in SUBSET Keys
        BY <1>3
    <2>2. \A j \in others : sz[j] = size[j]
        BY <1>2, <1>3
    <2>3. IsFiniteSet(others) /\ Sizes(size, others) \in Nat
        BY <1>2, <2>1, SizesOfKeys
    <2>4. QED
        BY <2>2, <2>3, SizesSame
<1>5. Sizes(sz, entries \cup {k}) = stat[t] + Sizes(size, others)
    <2>1. IsFiniteSet(entries \cup {k}) /\ SizeNat(sz, entries \cup {k})
        BY <1>2, <1>3, SizesOfKeys
    <2>2. Sizes(sz, entries \cup {k}) = sz[k] + Sizes(sz, (entries \cup {k}) \ {k})
        BY <2>1, SizesTake
    <2>3. (entries \cup {k}) \ {k} = others
        OBVIOUS
    <2>4. QED
        BY <1>2, <1>4, <2>2, <2>3
<1>6. total = size[k] + Sizes(size, others)
    <2>1. CASE k \in entries
        <3>1. IsFiniteSet(entries) /\ SizeNat(size, entries)
            BY <1>2, <1>3, SizesOfKeys
        <3>2. QED
            BY <2>1, <3>1, SizesTake DEF TotalIsSum
    <2>2. CASE k \notin entries
        <3>1. others = entries /\ size[k] = 0
            BY <1>2, <2>2 DEF Fits
        <3>2. QED
            BY <1>4, <3>1 DEF TotalIsSum
    <2>3. QED
        BY <2>1, <2>2
<1>7. sum = Sizes(sz, KeysOf(s))
    <2>1. size[k] \in Nat
        BY <1>2
    <2>2. sum = Sizes(size, others) + stat[t]
        BY <1>2, <1>4, <1>6, <2>1 DEF TotalWithout
    <2>3. QED
        BY <1>2, <1>3, <1>4, <1>5, <2>2
<1>8. \A j \in Keys \ KeysOf(s) : sz[j] = 0
    BY <1>2, <1>3 DEF Fits
<1>9. QED
    BY <1>1, <1>2, <1>3, <1>7, <1>8 DEF s, sz, k

\* An installation leaves the total right, and the cache fitting.
LEMMA InstallSums ==
    ASSUME IInv, TotalIsSum, Fits, NEW t \in Threads, Install(t)
    PROVE  TotalIsSum' /\ Fits'
<1> DEFINE k   == id[t]
           s   == <<k>> \o Without(lru, k)
           sz  == [size EXCEPT ![k] = stat[t]]
           sum == TotalWithout(k) + stat[t]
<1>1. /\ EvictTo(s, sum, sz, 1) /\ sum = Sizes(sz, KeysOf(s))
      /\ s \in Seq(Keys) /\ NoDup(s) /\ KeysOf(s) = entries \cup {k}
      /\ sz \in [Keys -> Nat] /\ \A j \in Keys \ KeysOf(s) : sz[j] = 0
    BY InstallList
<1> HIDE DEF s, sz, sum, k
<1>2. entries \subseteq KeysOf(s)
    BY <1>1
<1>3. QED
    BY <1>1, <1>2, EvictSums

\* The first photo of the list that an installation evicts would have been one too
\* many: the list is evicted from the back, and k is at its front.
LEMMA InstallNeeded ==
    ASSUME IInv, TotalIsSum, Fits, NEW t \in Threads, Install(t),
           NEW i \in 1..Len(lru), \A j \in 1..i : lru[j] \notin entries' <=> j = i
    PROVE  Sizes(size', entries') + size[lru[i]] > MAX_BYTES
<1> DEFINE k    == id[t]
           s    == <<k>> \o Without(lru, k)
           sz   == [size EXCEPT ![k] = stat[t]]
           sum  == TotalWithout(k) + stat[t]
           n    == Kept(s, sum, sz, 1)
           upto(m) == {s[j] : j \in 1..m}
           gone == {s[j] : j \in n + 1..Len(s)}
<1>1. /\ EvictTo(s, sum, sz, 1) /\ sum = Sizes(sz, KeysOf(s))
      /\ k \in Keys /\ s \in Seq(Keys) /\ NoDup(s)
      /\ KeysOf(s) = entries \cup {k} /\ s[1] = k /\ Len(s) \in Nat \ {0}
      /\ Ordered(lru, s, k)
      /\ sz \in [Keys -> Nat]
      /\ \A j \in Keys \ {k} : sz[j] = size[j]
    BY InstallList
<1>2. lru \in Seq(Keys) /\ NoDup(lru) /\ KeysOf(lru) = entries /\ entries \in SUBSET Keys
    BY EntriesAreKeys
<1> HIDE DEF s, sz, sum, k
<1>3. /\ n \in 0..Len(s) /\ upto(n) = KeysOf(s) \ gone /\ gone \subseteq KeysOf(s)
      /\ \A m \in n + 1..Len(s) : m > 1 /\ Sizes(sz, upto(m)) > MAX_BYTES
    BY <1>1, KeptFacts
<1>4. /\ entries' = (entries \cup KeysOf(s)) \ gone
      /\ size' = [j \in Keys |-> IF j \in gone THEN 0 ELSE sz[j]]
    BY <1>1 DEF EvictTo
<1> HIDE DEF n
<1>5. entries' = upto(n)
    BY <1>1, <1>3, <1>4
<1>6. n >= 1
    <2> HIDE DEF upto, gone
    <2>1. n = 0 => 1 \in n + 1..Len(s) /\ ~(1 > 1)
        BY <1>1
    <2>2. n \in Nat
        BY <1>1, <1>3
    <2>3. n # 0
        BY <1>3, <2>1
    <2>4. QED
        BY <2>2, <2>3
<1>7. k \in entries'
    BY <1>1, <1>3, <1>5, <1>6
<1>8. lru[i] \in entries /\ lru[i] \notin entries' /\ lru[i] # k
    BY <1>2, <1>7 DEF KeysOf
<1>9. PICK p \in n + 1..Len(s) : lru[i] = s[p]
    BY <1>4, <1>8
<1>10. n + 1 \in 1..Len(s) /\ n + 1 \in n + 1..Len(s)
    BY <1>1, <1>3, <1>9
<1>11. s[n + 1] \in entries /\ s[n + 1] # k /\ s[n + 1] \notin entries'
    <2>1. s[n + 1] \in gone
        BY <1>10
    <2>2. QED
        BY <1>1, <1>3, <1>4, <1>7, <2>1
<1>12. PICK j \in 1..Len(lru) : lru[j] = s[n + 1]
    BY <1>2, <1>11 DEF KeysOf
<1>13. i = j
    <2>1. CASE j < i
        <3>1. j \in 1..i /\ j # i
            BY <1>2, <2>1
        <3>2. QED
            BY <1>11, <1>12, <3>1
    <2>2. CASE i < j
        <3>1. \E m \in 1..(n + 1) - 1 : s[m] = lru[i]
            BY <1>1, <1>8, <1>10, <1>11, <1>12, <2>2 DEF Ordered
        <3>2. lru[i] \in upto(n)
            BY <1>1, <1>3, <3>1
        <3>3. QED
            BY <1>5, <1>8, <3>2
    <2>3. QED
        BY <1>2, <2>1, <2>2
<1>14. upto(n + 1) = upto(n) \cup {lru[i]} /\ upto(n + 1) \in SUBSET Keys
    <2>1. 1..n + 1 = (1..n) \cup {n + 1} /\ 1..n + 1 \subseteq 1..Len(s)
        BY <1>1, <1>3, <1>10
    <2>2. upto(n + 1) = upto(n) \cup {s[n + 1]}
        BY <2>1
    <2>3. upto(n + 1) \subseteq KeysOf(s)
        BY <2>1 DEF KeysOf
    <2>4. KeysOf(s) \subseteq Keys
        BY <1>1, <1>2
    <2>5. QED
        BY <1>12, <1>13, <2>2, <2>3, <2>4
<1> HIDE DEF upto, gone
<1>15. Sizes(sz, upto(n + 1)) > MAX_BYTES
    BY <1>3, <1>10
<1>16. Sizes(sz, upto(n + 1)) = sz[lru[i]] + Sizes(sz, entries')
    <2>1. IsFiniteSet(upto(n + 1)) /\ SizeNat(sz, upto(n + 1)) /\ lru[i] \in upto(n + 1)
        BY <1>1, <1>14, SizesOfKeys
    <2>2. upto(n + 1) \ {lru[i]} = entries'
        BY <1>5, <1>8, <1>14
    <2>3. QED
        BY <2>1, <2>2, SizesTake
<1>17. sz[lru[i]] = size[lru[i]] /\ size[lru[i]] \in Nat
    BY <1>1, <1>2, <1>8 DEF IInv, Types
<1>18. Sizes(size', entries') = Sizes(sz, entries') /\ Sizes(sz, entries') \in Nat
    <2>1. entries' \in SUBSET Keys /\ \A x \in entries' : size'[x] = sz[x]
        BY <1>1, <1>2, <1>4
    <2>2. IsFiniteSet(entries') /\ Sizes(sz, entries') \in Nat
        BY <1>1, <2>1, SizesOfKeys
    <2>3. QED
        BY <2>1, <2>2, SizesSame
<1>19. QED
    BY <1>15, <1>16, <1>17, <1>18, MediaAssumption

\* After a restart the total is that of the files that stay.
LEMMA RestartSums ==
    ASSUME IInv, Restart
    PROVE  TotalIsSum' /\ Fits'
<1> USE MediaAssumption DEF IInv
<1> DEFINE files == {k \in Keys : final[k] # NoFile}
           sz == [k \in Keys |-> IF k \in files THEN Length(final[k]) ELSE 0]
           s == Downto(files)
           n == Kept(s, Sizes(sz, files), sz, 0)
           kept == {s[i] : i \in 1..n}
<1>1. /\ entries' = kept /\ total' = Sizes(sz, kept)
      /\ size' = [k \in Keys |-> IF k \in kept THEN sz[k] ELSE 0]
    BY DEF Restart
<1>2. s \in Seq(Keys) /\ NoDup(s) /\ KeysOf(s) = files
    BY DowntoFacts
<1>3. sz \in [Keys -> Nat]
    <2>1. \A k \in files : Length(final[k]) \in Nat
        BY LengthNat DEF Types
    <2>2. QED
        BY <2>1
<1> HIDE DEF s, sz, files
<1>4. n \in 0..Len(s) /\ (n <= 0 \/ Sizes(sz, kept) <= MAX_BYTES) /\ kept \subseteq KeysOf(s)
    BY <1>2, <1>3, KeptFacts
<1>5. KeysOf(s) \subseteq Keys
    BY <1>2 DEF KeysOf
<1> HIDE DEF n
<1>6. n = 0 => kept = {}
    OBVIOUS
<1> HIDE DEF kept
<1>7. IsFiniteSet(kept) /\ kept \in SUBSET Keys
    BY <1>3, <1>4, <1>5, SizesOfKeys
<1>8. \A k \in kept : size'[k] = sz[k]
    BY <1>1, <1>7
<1>9. Sizes(size', kept) = Sizes(sz, kept)
    BY <1>7, <1>8, SizesSame
<1>10. TotalIsSum'
    BY <1>1, <1>9 DEF TotalIsSum
<1>11. \A k \in Keys \ kept : size'[k] = 0
    BY <1>1
<1>12. Sizes(sz, kept) <= MAX_BYTES
    <2>1. n = 0 => Sizes(sz, kept) = 0
        BY <1>6, SizesEmpty
    <2>2. n \in Nat
        BY <1>2, <1>4
    <2>3. QED
        BY <1>4, <2>1, <2>2
<1>13. QED
    BY <1>1, <1>10, <1>11, <1>12 DEF Fits

\* Every step of a request and every restart keeps the invariant.
LEMMA NextInv == IInv /\ [Next]_vars => IInv'
<1> SUFFICES ASSUME IInv, [Next]_vars
             PROVE  IInv'
    OBVIOUS
<1>1. CASE UNCHANGED vars
    <2>1. UNCHANGED <<entries, lru, size, total, tmp, final, pc, id, fd, off, stat, resp, raced>>
        BY <1>1 DEF vars, indexVars, fileVars, threadVars
    <2>2. QED
        BY <2>1 DEF IInv, Types, Listed, Handles, Alone, Undisturbed, OnDiskWhole, EntryIsWhole,
           NoStrayFile, Putting, Renamed
<1>2. ASSUME NEW t \in Threads, NEW k \in Keys, Get(t, k)
      PROVE  IInv'
    BY <1>2, GetInv
<1>3. ASSUME NEW t \in Threads,
             \/ Refuse(t) \/ Open(t) \/ Write(t) \/ Abort(t) \/ Stat(t) \/ Rename(t)
             \/ Install(t) \/ Serve(t)
      PROVE  IInv'
    BY <1>3, RefuseInv, OpenInv, WriteInv, AbortInv, StatInv, RenameInv, InstallInv, ServeInv
<1>4. CASE Restart
    BY <1>4, RestartInv
<1>5. QED
    BY <1>1, <1>2, <1>3, <1>4 DEF Next

\* No step leaves the total wrong or the cache too full.
LEMMA NextSums == IInv /\ TotalIsSum /\ Fits /\ [Next]_vars => TotalIsSum' /\ Fits'
<1> SUFFICES ASSUME IInv, TotalIsSum, Fits, [Next]_vars
             PROVE  TotalIsSum' /\ Fits'
    OBVIOUS
<1>1. UNCHANGED <<entries, size, total>> => TotalIsSum' /\ Fits'
    BY DEF TotalIsSum, Fits
<1>2. CASE UNCHANGED vars
    BY <1>1, <1>2 DEF vars, indexVars
<1>3. ASSUME NEW t \in Threads, NEW k \in Keys, Get(t, k)
      PROVE  TotalIsSum' /\ Fits'
    BY <1>1, <1>3 DEF Get
<1>4. ASSUME NEW t \in Threads,
             Refuse(t) \/ Open(t) \/ Write(t) \/ Abort(t) \/ Stat(t) \/ Rename(t) \/ Serve(t)
      PROVE  TotalIsSum' /\ Fits'
    BY <1>1, <1>4 DEF Refuse, Open, Write, Abort, Stat, Rename, Serve, indexVars
<1>5. ASSUME NEW t \in Threads, Install(t)
      PROVE  TotalIsSum' /\ Fits'
    BY <1>5, InstallSums
<1>6. CASE Restart
    BY <1>6, RestartSums
<1>7. QED
    BY <1>2, <1>3, <1>4, <1>5, <1>6 DEF Next

-----------------------------------------------------------------------------
\* Index, files and requests of the cache agree in every state, restarts included.
THEOREM MediaInvariant == Spec => []IInv
BY InitInv, NextInv, PTL DEF Spec

\* The map of the cache and its list hold the same keys, each once, through every
\* order of lookups, replacements, evictions and restarts.
THEOREM MediaIndexCoherent == Spec => []IndexCoherent
<1>1. IInv => IndexCoherent
    <2> SUFFICES ASSUME IInv
                 PROVE  IndexCoherent
        OBVIOUS
    <2>1. KeysOf(lru) = entries /\ NoDup(lru) /\ lru \in Seq(Keys)
        BY DEF IInv, Types, Listed
    <2>2. lru \in Bijection(1..Len(lru), KeysOf(lru))
        <3>1. lru \in [1..Len(lru) -> KeysOf(lru)]
            BY <2>1 DEF KeysOf
        <3>2. \A i, j \in 1..Len(lru) : lru[i] = lru[j] => i = j
            BY <2>1 DEF NoDup
        <3>3. \A k \in KeysOf(lru) : \E i \in 1..Len(lru) : lru[i] = k
            BY DEF KeysOf
        <3>4. QED
            BY <3>1, <3>2, <3>3 DEF Bijection, Injection, Surjection, IsInjective
    <2>3. Len(lru) \in Nat /\ IsFiniteSet(1..Len(lru)) /\ Cardinality(1..Len(lru)) = Len(lru)
        <3>1. Len(lru) \in Nat
            BY <2>1
        <3>2. \A m \in Nat : IsFiniteSet(1..m) /\ Cardinality(1..m) = m
            <4> TAKE m \in Nat
            <4>1. /\ IsFiniteSet(1..m)
                  /\ Cardinality(1..m) = IF 1 > m THEN 0 ELSE m - 1 + 1
                BY FS_Interval
            <4>2. QED
                BY <4>1
        <3>3. QED
            BY <3>1, <3>2
    <2>4. Cardinality(KeysOf(lru)) = Cardinality(1..Len(lru))
        BY <2>2, <2>3, FS_Bijection DEF ExistsBijection
    <2>5. QED
        BY <2>1, <2>3, <2>4 DEF IndexCoherent
<1>2. QED
    BY <1>1, MediaInvariant, PTL

\* An entry of the index is a whole photo of the recorded size, unless two Puts of its
\* id overlapped or an eviction of the id came between a Put's rename and
\* installation: no failed download, no crash between the steps of a Put, no restart
\* and no later Put of a cached id shows part of one.
THEOREM MediaEntryIsWhole == Spec => []EntryIsWhole
<1>1. IInv => EntryIsWhole
    BY DEF IInv
<1>2. QED
    BY <1>1, MediaInvariant, PTL

\* Whatever write fails or crashes, a file in the directory is an entry's or belongs
\* to a Put under way: the disk holds nothing no eviction will remove.
THEOREM MediaNoStrayFile == Spec => []NoStrayFile
<1>1. IInv => NoStrayFile
    BY DEF IInv
<1>2. QED
    BY <1>1, MediaInvariant, PTL

\* The total is the sum of the sizes of the entries, and fits in the limit unless it
\* is that of a single photo.
THEOREM MediaSums == Spec => [](IInv /\ TotalIsSum /\ Fits)
<1>1. Init => IInv /\ TotalIsSum /\ Fits
    <2> SUFFICES ASSUME Init
                 PROVE  IInv /\ TotalIsSum /\ Fits
        OBVIOUS
    <2>1. IInv
        BY InitInv
    <2>2. entries = {} /\ total = 0 /\ \A k \in Keys : size[k] = 0
        BY DEF Init
    <2>3. QED
        BY <2>1, <2>2, SizesEmpty, MediaAssumption DEF TotalIsSum, Fits
<1>2. IInv /\ TotalIsSum /\ Fits /\ [Next]_vars => (IInv /\ TotalIsSum /\ Fits)'
    BY NextInv, NextSums
<1>3. QED
    BY <1>1, <1>2, PTL DEF Spec

\* The counter that evictLocked reads never drifts from what the entries add up to,
\* through replacements of an entry, evictions and restarts, and for raced ids too.
THEOREM MediaTotalIsSum == Spec => []TotalIsSum
BY MediaSums, PTL

\* Sizes, offsets and the total are never negative, and a file holds parts of its own
\* photo only.
THEOREM MediaTypeOK == Spec => []TypeOK
<1>1. IInv /\ TotalIsSum => TypeOK
    <2> SUFFICES ASSUME IInv, TotalIsSum
                 PROVE  TypeOK
        OBVIOUS
    <2>1. entries \subseteq Keys
        BY EntriesAreKeys
    <2>2. total \in Nat
        BY <2>1, SizesOfKeys DEF TotalIsSum, IInv, Types
    <2>3. QED
        BY <2>1, <2>2 DEF TypeOK, IInv, Types
<1>2. QED
    BY <1>1, MediaSums, PTL

\* The photos on disk of ids that are not raced, but for those that a Put has renamed
\* and not yet installed, fit in media.max_bytes, or there is a single entry.  On raced
\* ids the code has no such bound.
THEOREM MediaDiskBounded == Spec => []DiskBounded
<1>1. IInv /\ TotalIsSum /\ Fits => DiskBounded
    <2> SUFFICES ASSUME IInv, TotalIsSum, Fits
                 PROVE  DiskBounded
        OBVIOUS
    <2> DEFINE kept == {k \in Keys \ raced : final[k] # NoFile /\ Renamed(k) = {}}
               len == [k \in kept |-> Length(final[k])]
    <2>1. entries \in SUBSET Keys /\ size \in [Keys -> Nat]
        BY EntriesAreKeys DEF IInv, Types
    <2>2. kept \in SUBSET entries /\ kept \in SUBSET Keys
        BY DEF IInv, NoStrayFile
    <2>3. \A k \in kept : len[k] = size[k]
        BY <2>2, LengthWhole DEF IInv, EntryIsWhole
    <2> HIDE DEF kept, len
    <2>4. /\ IsFiniteSet(kept) /\ IsFiniteSet(entries) /\ SizeNat(size, entries)
          /\ Sizes(size, kept) \in Nat /\ Sizes(size, entries \ kept) \in Nat
        BY <2>1, <2>2, SizesOfKeys
    <2>5. Sizes(len, kept) = Sizes(size, kept)
        BY <2>3, <2>4, SizesSame
    <2>6. total = Sizes(size, kept) + Sizes(size, entries \ kept)
        BY <2>2, <2>4, SizesSplit DEF TotalIsSum
    <2>7. total <= MAX_BYTES => Sizes(len, kept) <= MAX_BYTES
        BY <2>4, <2>5, <2>6, MediaAssumption
    <2>8. QED
        BY <2>7 DEF DiskBounded, Fits, kept, len
<1>2. QED
    BY <1>1, MediaSums, PTL

\* The handler serves the file of the path FetchMedia returned outside of the lock:
\* whatever other requests evicted, put again or failed to download in between, a
\* 200 carries the whole photo, unless its id is raced.
THEOREM MediaServedWhole == Spec => ServedWhole
<1> DEFINE Carried == \A t \in Threads :
                         resp[t] # "torn" /\ resp'[t] = "torn" => id[t] \in raced
<1>1. IInv /\ [Next]_vars => [Carried]_vars
    <2> SUFFICES ASSUME IInv, Next,
                        NEW t \in Threads, resp[t] # "torn", resp'[t] = "torn"
                 PROVE  id[t] \in raced
        OBVIOUS
    <2>1. resp \in [Threads -> {"none", "whole", "missing", "torn"}] /\ resp' # resp
        BY DEF IInv, Types
    <2>2. Serve(t)
        <3>1. ASSUME NEW u \in Threads, NEW k \in Keys, Get(u, k)
              PROVE  FALSE
            BY <2>1, <3>1 DEF Get
        <3>2. ASSUME NEW u \in Threads,
                     \/ Refuse(u) \/ Open(u) \/ Write(u) \/ Abort(u) \/ Stat(u) \/ Rename(u)
                     \/ Install(u)
              PROVE  FALSE
            BY <2>1, <3>2 DEF Refuse, Open, Write, Abort, Stat, Rename, Install
        <3>3. ASSUME NEW u \in Threads, Serve(u), u # t
              PROVE  FALSE
            BY <2>1, <3>3 DEF Serve
        <3>4. ~Restart
            BY <2>1 DEF Restart
        <3>5. QED
            BY <3>1, <3>2, <3>3, <3>4 DEF Next
    <2>3. id[t] \in Keys /\ final[id[t]] # NoFile /\ final[id[t]] # Whole(id[t])
        BY <2>1, <2>2 DEF Serve, IInv, Types
    <2>4. QED
        BY <2>3 DEF IInv, OnDiskWhole
<1>2. QED
    BY <1>1, MediaInvariant, PTL DEF Spec, ServedWhole

\* A Put that evicts leaves a cache in which the last photo it evicted, the most
\* recently used of them, would not have fitted.
THEOREM MediaEvictsOnlyWhenNeeded == Spec => EvictsOnlyWhenNeeded
<1> DEFINE Needed ==
        \A t \in Threads : pc[t] = "install" /\ pc'[t] = "serve" =>
            \A i \in 1..Len(lru) :
                (\A j \in 1..i : lru[j] \notin entries' <=> j = i)
                => Sizes(size', entries') + size[lru[i]] > MAX_BYTES
<1>1. IInv /\ TotalIsSum /\ Fits /\ [Next]_vars => [Needed]_vars
    <2> SUFFICES ASSUME IInv, TotalIsSum, Fits, [Next]_vars,
                        NEW t \in Threads, pc[t] = "install", pc'[t] = "serve",
                        NEW i \in 1..Len(lru), \A j \in 1..i : lru[j] \notin entries' <=> j = i
                 PROVE  Sizes(size', entries') + size[lru[i]] > MAX_BYTES
        OBVIOUS
    <2>1. Install(t)
        <3>1. pc \in [Threads -> {"idle", "open", "write", "rename", "install", "serve"}]
            BY DEF IInv, Types
        <3>2. pc' # pc /\ t \in DOMAIN pc
            BY <3>1
        <3>3. ASSUME NEW u \in Threads, NEW k \in Keys, Get(u, k)
              PROVE  FALSE
            BY <3>1, <3>3 DEF Get
        <3>4. ASSUME NEW u \in Threads,
                     Refuse(u) \/ Open(u) \/ Abort(u) \/ Stat(u) \/ Rename(u) \/ Serve(u)
              PROVE  FALSE
            BY <3>1, <3>4 DEF Refuse, Open, Abort, Stat, Rename, Serve
        <3>5. ASSUME NEW u \in Threads, Write(u)
              PROVE  FALSE
            BY <3>2, <3>5 DEF Write
        <3>6. ASSUME NEW u \in Threads, Install(u), u # t
              PROVE  FALSE
            BY <3>1, <3>6 DEF Install
        <3>7. ~Restart
            BY <3>1 DEF Restart
        <3>8. ~UNCHANGED vars
            BY <3>2 DEF vars, threadVars
        <3>9. QED
            BY <3>3, <3>4, <3>5, <3>6, <3>7, <3>8 DEF Next
    <2>2. QED
        BY <2>1, InstallNeeded
<1>2. QED
    BY <1>1, MediaSums, PTL DEF Spec, EvictsOnlyWhenNeeded

=============================================================================
