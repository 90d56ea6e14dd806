---------------------------- MODULE KernelProofs ----------------------------
(***************************************************************************)
(* Proofs about the vector kernels: whatever the number of lanes of the    *)
(* machine, and however long the page, they report the least and greatest  *)
(* values of a page of any type, and its order.                            *)
(***************************************************************************)
EXTENDS VectorKernels, WellFoundedInduction, SequenceTheorems, TLAPS

-----------------------------------------------------------------------------
(* The vectors of a kernel read every element, and compare every pair of     *)
(* neighbours.                                                               *)

\* Division of naturals.
LEMMA DivisionOf ==
  ASSUME NEW n \in Nat, NEW d \in Nat \ {0}
  PROVE  /\ n \div d \in Nat
         /\ (n \div d) * d <= n
         /\ n < (n \div d) * d + d
  OBVIOUS

\* Products keep the order of numbers.
LEMMA ProductOrder ==
  ASSUME NEW a \in Nat, NEW b \in Nat, NEW d \in Nat \ {0}
  PROVE  /\ a * d \in Nat
         /\ a <= b => a * d <= b * d
         /\ a * d < b * d => a < b
         /\ (a + 1) * d = a * d + d
         /\ a >= 1 => (a - 1) * d = a * d - d
  OBVIOUS

\* The elements of a concatenation.
LEMMA ConcatIs ==
  ASSUME NEW s \in Seq(Int), NEW t \in Seq(Int)
  PROVE  /\ DOMAIN (s \o t) = 1..(Len(s) + Len(t))
         /\ \A i \in 1..Len(s) : (s \o t)[i] = s[i]
         /\ Len(t) = 1 => (s \o t)[Len(s) + 1] = t[1]
  <1>1. /\ s \o t \in Seq(Int) /\ Len(s \o t) = Len(s) + Len(t)
        /\ \A i \in 1 .. Len(s) + Len(t) : (s \o t)[i] = IF i <= Len(s) THEN s[i] ELSE t[i - Len(s)]
        /\ Len(s) \in Nat /\ Len(t) \in Nat
    BY ConcatProperties, LenProperties
  <1>2. DOMAIN (s \o t) = 1..(Len(s) + Len(t))
    BY <1>1, LenProperties
  <1>3. ASSUME NEW i \in 1..Len(s) PROVE (s \o t)[i] = s[i]
    BY <1>1
  <1>4. ASSUME Len(t) = 1 PROVE (s \o t)[Len(s) + 1] = t[1]
    BY <1>1, <1>4
  <1> QED BY <1>2, <1>3, <1>4

\* The indexes of a list that may have one more element.
LEMMA OneMore ==
  ASSUME NEW c \in Nat, NEW l \in {0, 1}
  PROVE  1..c \subseteq 1..(c + l) /\ (l = 1 => c + 1 \in 1..(c + l))
         /\ (\A i \in 1..(c + l) : i \in 1..c \/ (i = c + 1 /\ l = 1))
  OBVIOUS

\* Where a vector is loaded.
Loaded(n, L, k, a, chunks, rem) ==
  /\ \E count \in Nat : DOMAIN Loads(n, L, k, a) = 1..count
  /\ \A c \in 1..chunks : c \in DOMAIN Loads(n, L, k, a) /\ Loads(n, L, k, a)[c] = (c - 1) * k * L + a * L
  /\ rem > a * L => chunks + 1 \in DOMAIN Loads(n, L, k, a) /\ Loads(n, L, k, a)[chunks + 1] = n - (a + 1) * L
  /\ \A i \in DOMAIN Loads(n, L, k, a) : i \in 1..chunks \/ (i = chunks + 1 /\ rem > a * L)

\* The vectors an accumulator loads: one of every chunk, and one from the end.
LEMMA LoadsAre ==
  ASSUME NEW n \in Nat, NEW L \in Nat \ {0}, NEW k \in Nat \ {0}, NEW a \in Nat,
         NEW chunks \in Nat, chunks = n \div (k * L), NEW rem \in Int, rem = n - chunks * k * L
  PROVE  Loaded(n, L, k, a, chunks, rem)
  <1> DEFINE f == [c \in 1..chunks |-> (c - 1) * k * L + a * L]
             g == IF rem > a * L THEN <<n - (a + 1) * L>> ELSE <<>>
  <1>1. Loads(n, L, k, a) = f \o g
    BY DEF Loads
  <1>2. f \in Seq(Int) /\ Len(f) = chunks /\ \A c \in 1..chunks : f[c] = (c - 1) * k * L + a * L
    OBVIOUS
  <1>3. /\ g \in Seq(Int) /\ Len(g) \in {0, 1}
        /\ Len(g) = 1 <=> rem > a * L
        /\ Len(g) = 1 => g[1] = n - (a + 1) * L
    OBVIOUS
  <1> HIDE DEF f, g
  <1>4. DOMAIN (f \o g) = 1..(chunks + Len(g)) /\ (\A c \in 1..chunks : (f \o g)[c] = f[c])
        /\ (Len(g) = 1 => (f \o g)[chunks + 1] = g[1])
    BY <1>2, <1>3, ConcatIs
  <1>5. 1..chunks \subseteq 1..(chunks + Len(g)) /\ (Len(g) = 1 => chunks + 1 \in 1..(chunks + Len(g)))
        /\ (\A i \in 1..(chunks + Len(g)) : i \in 1..chunks \/ (i = chunks + 1 /\ Len(g) = 1))
    BY <1>3, OneMore, Zenon
  <1>6. \A c \in 1..chunks : c \in DOMAIN (f \o g) /\ (f \o g)[c] = (c - 1) * k * L + a * L
    BY <1>2, <1>4, <1>5, Zenon
  <1>7. rem > a * L => chunks + 1 \in DOMAIN (f \o g) /\ (f \o g)[chunks + 1] = n - (a + 1) * L
    BY <1>3, <1>4, <1>5, Zenon
  <1>8. \A i \in DOMAIN (f \o g) : i \in 1..chunks \/ (i = chunks + 1 /\ rem > a * L)
    BY <1>3, <1>4, <1>5, Zenon
  <1>9. \E count \in Nat : DOMAIN (f \o g) = 1..count
    BY <1>3, <1>4
  <1> QED BY <1>1, <1>6, <1>7, <1>8, <1>9, Zenon DEF Loaded

(* The vectors read every element, the remainder after the last full chunk   *)
(* too, and nothing but elements.                                            *)
ReadAt(n, L, k, p) ==
  \E a \in 0..(k - 1) : \E i \in DOMAIN Loads(n, L, k, a) : \E lane \in 1..L : Loads(n, L, k, a)[i] + lane = p
ReadsEverything(n, L, k) ==
  /\ \A p \in 1..n : ReadAt(n, L, k, p)
  /\ \A a \in 0..(k - 1) : \A i \in DOMAIN Loads(n, L, k, a) : \A lane \in 1..L :
        Loads(n, L, k, a)[i] + lane \in 1..n

\* The vectors of all accumulators read every element, and none outside.
LEMMA VectorsReadEverything ==
  ASSUME NEW n \in Nat, NEW L \in Nat \ {0}, NEW k \in Nat \ {0}, n >= k * L
  PROVE  ReadsEverything(n, L, k)
  <1> DEFINE M == k * L
             chunks == n \div M
             rem == n - chunks * k * L
  <1>0. M \in Nat \ {0}
    OBVIOUS
  <1>1. chunks \in Nat /\ chunks * M <= n /\ n < chunks * M + M
    BY <1>0, DivisionOf
  <1>2. \A c \in Int : c * k * L = c * M
    OBVIOUS
  <1>3. rem = n - chunks * M /\ rem \in Nat /\ rem < M
    <2>1. chunks * k * L = chunks * M
      <3>1. chunks \in Int
        BY <1>1
      <3> QED BY <1>2, <3>1, Zenon
    <2> HIDE DEF chunks
    <2>2. chunks * M \in Int
      BY <1>0, <1>1
    <2> QED BY <1>0, <1>1, <2>1, <2>2
  <1>4. \A a \in Nat :
             /\ \A c \in 1..chunks : c \in DOMAIN Loads(n, L, k, a) /\ Loads(n, L, k, a)[c] = (c - 1) * M + a * L
             /\ rem > a * L => chunks + 1 \in DOMAIN Loads(n, L, k, a) /\ Loads(n, L, k, a)[chunks + 1] = n - (a + 1) * L
             /\ \A i \in DOMAIN Loads(n, L, k, a) :
                   i \in 1..chunks \/ (i = chunks + 1 /\ rem > a * L)
    <2> TAKE a \in Nat
    <2>1. \A c \in 1..chunks : (c - 1) * k * L = (c - 1) * M
      BY <1>1, <1>2
    <2>2. chunks = n \div (k * L) /\ rem = n - chunks * k * L
      OBVIOUS
    <2> HIDE DEF chunks, rem, M
    <2>3. /\ \A c \in 1..chunks : c \in DOMAIN Loads(n, L, k, a) /\ Loads(n, L, k, a)[c] = (c - 1) * k * L + a * L
          /\ rem > a * L => chunks + 1 \in DOMAIN Loads(n, L, k, a) /\ Loads(n, L, k, a)[chunks + 1] = n - (a + 1) * L
          /\ \A i \in DOMAIN Loads(n, L, k, a) :
                i \in 1..chunks \/ (i = chunks + 1 /\ rem > a * L)
      <3>1. chunks \in Nat /\ rem \in Int
        BY <1>1, <1>3
      <3>2. Loaded(n, L, k, a, chunks, rem)
        BY <2>2, <3>1, LoadsAre
      <3> QED BY <3>2 DEF Loaded
    <2> QED BY <2>1, <2>3
  <1> HIDE DEF rem, chunks
  <1>5. ASSUME NEW p \in 1..n
        PROVE  \E a \in 0..(k - 1) : \E i \in DOMAIN Loads(n, L, k, a) : \E lane \in 1..L :
                  Loads(n, L, k, a)[i] + lane = p
    <2>1. CASE p - 1 < chunks * M
      <3> DEFINE c == (p - 1) \div M
                 r == p - 1 - c * M
                 a == r \div L
                 lane == r - a * L + 1
      <3> HIDE DEF M
      <3>1. c \in Nat /\ c * M <= p - 1 /\ p - 1 < c * M + M
        BY <1>0, DivisionOf
      <3>2. c < chunks
        BY <1>0, <1>1, <2>1, <3>1, ProductOrder
      <3>3. r \in Nat /\ r < M
        BY <1>0, <3>1
      <3> HIDE DEF c, r
      <3>4. a \in Nat /\ a * L <= r /\ r < a * L + L
        BY <3>3, DivisionOf
      <3> HIDE DEF a
      <3>5. a < k
        BY <3>3, <3>4, ProductOrder DEF M
      <3>6. c + 1 \in 1..chunks /\ (c + 1) - 1 = c
        BY <1>1, <3>1, <3>2
      <3>7. c + 1 \in DOMAIN Loads(n, L, k, a) /\ Loads(n, L, k, a)[c + 1] = c * M + a * L
        BY <1>4, <3>4, <3>6
      <3>8. lane \in 1..L
        BY <3>3, <3>4, ProductOrder
      <3>9. c * M \in Int /\ a * L \in Int
        BY <1>0, <3>1, <3>4
      <3>10. Loads(n, L, k, a)[c + 1] + lane = p
        BY <3>1, <3>3, <3>4, <3>7, <3>9 DEF r
      <3> QED BY <3>4, <3>5, <3>7, <3>8, <3>10
    <2>2. CASE p - 1 >= chunks * M
      <3> DEFINE e == n - p
                 a == e \div L
                 lane == p - (n - (a + 1) * L)
      <3>1. e \in Nat /\ e < rem
        BY <1>0, <1>1, <1>3, <2>2
      <3> HIDE DEF e, M
      <3>2. a \in Nat /\ a * L <= e /\ e < a * L + L
        BY <3>1, DivisionOf
      <3> HIDE DEF a
      <3>3. a * L \in Nat /\ (a + 1) * L = a * L + L
        BY <3>2, ProductOrder
      <3>4. a < k
        BY <1>0, <1>3, <3>1, <3>2, <3>3, ProductOrder DEF M
      <3>5. rem > a * L
        BY <1>3, <3>1, <3>2, <3>3
      <3>6. chunks + 1 \in DOMAIN Loads(n, L, k, a) /\ Loads(n, L, k, a)[chunks + 1] = n - (a + 1) * L
        BY <1>4, <3>2, <3>5
      <3>7. lane \in 1..L
        BY <3>1, <3>2, <3>3 DEF e
      <3>8. Loads(n, L, k, a)[chunks + 1] + lane = p
        BY <3>3, <3>6
      <3>9. a \in 0..(k - 1)
        BY <3>2, <3>4
      <3> HIDE DEF lane
      <3> QED BY <3>6, <3>7, <3>8, <3>9
    <2> QED
      BY <1>0, <1>1, <2>1, <2>2
  <1>6. ASSUME NEW a \in 0..(k - 1), NEW i \in DOMAIN Loads(n, L, k, a), NEW lane \in 1..L
        PROVE  Loads(n, L, k, a)[i] + lane \in 1..n
    <2>1. a * L \in Nat /\ (a + 1) * L = a * L + L /\ (a + 1) * L <= M
      BY ProductOrder
    <2> HIDE DEF M
    <2>2. CASE i \in 1..chunks
      <3>1. i - 1 \in Nat /\ (i - 1) * M \in Nat /\ (i - 1) * M + M <= chunks * M
        <4>1. i - 1 \in Nat /\ i \in Nat /\ i <= chunks
          BY <1>1, <2>2
        <4>2. (i - 1) * M = i * M - M /\ i * M <= chunks * M /\ i * M \in Nat
          BY <1>0, <1>1, <4>1, <2>2, ProductOrder
        <4>3. (i - 1) * M \in Nat
          BY <1>0, <4>1, ProductOrder
        <4>4. chunks * M \in Nat
          BY <1>0, <1>1, ProductOrder
        <4> QED BY <1>0, <4>1, <4>2, <4>3, <4>4
      <3>2. Loads(n, L, k, a)[i] = (i - 1) * M + a * L
        BY <1>4, <2>2
      <3>3. chunks * M \in Nat
        BY <1>0, <1>1, ProductOrder
      <3> QED BY <1>0, <1>1, <2>1, <3>1, <3>2, <3>3
    <2>3. CASE i = chunks + 1 /\ rem > a * L
      <3>1. Loads(n, L, k, a)[i] = n - (a + 1) * L
        BY <1>4, <2>3
      <3> QED BY <1>0, <2>1, <3>1 DEF M
    <2> QED BY <1>4, <2>2, <2>3
  <1> QED BY <1>5, <1>6 DEF ReadsEverything, ReadAt

(* On every machine a pair of neighbours is compared, for every length and   *)
(* every number of lanes.                                                    *)
LEMMA EveryPairCompared ==
  ASSUME NEW m \in Machines, NEW n \in Nat, n >= 2, Lanes512 \in Nat \ {0}, Lanes256 \in Nat \ {0}
  PROVE  PairsChecked(m, n) = 0..(n - 2)
  <1> DEFINE L == LanesOf(m)
             chunks == n \div L
             last == n - (L + 1)
             tail == (chunks - 1) * L
             steps == IF n > L THEN ((n - 1) \div L) ELSE 0
  <1>0. L \in Nat \ {0}
    BY DEF LanesOf
  <1> HIDE DEF L
  <1>1. CASE m = "avx512" /\ n >= L + 1
    <2>1. PairsChecked(m, n) = (0..(tail - 1)) \cup (last..(last + L - 1))
                     \cup (IF tail < last THEN tail..(tail + L - 1) ELSE {})
      BY <1>1 DEF PairsChecked, L
    <2>2. chunks \in Nat /\ chunks * L <= n /\ n < chunks * L + L
      BY <1>0, DivisionOf
    <2> HIDE DEF chunks
    <2>3. chunks >= 1 /\ chunks * L \in Nat
      BY <1>0, <1>1, <2>2, ProductOrder
    <2>4. tail = chunks * L - L
      BY <1>0, <2>2, <2>3, ProductOrder
    <2> HIDE DEF tail
    <2>5. tail \in Nat /\ last \in Nat /\ tail + L <= n /\ n < tail + L + L /\ last + L = n - 1
      BY <1>0, <1>1, <2>2, <2>3, <2>4
    <2> HIDE DEF last
    <2>6. CASE tail < last
      BY <1>0, <2>1, <2>5, <2>6
    <2>7. CASE tail >= last
      BY <1>0, <2>1, <2>5, <2>7
    <2> QED BY <2>5, <2>6, <2>7
  <1>2. CASE m = "avx2" /\ n >= L + 1
    <2>1. PairsChecked(m, n) = (0..(steps * L - 1))
                     \cup (IF steps * L + 1 < n THEN last..(last + L - 1) ELSE {})
      BY <1>2 DEF PairsChecked, L
    <2>2. steps = (n - 1) \div L
      BY <1>0, <1>2
    <2> HIDE DEF steps
    <2>3. steps \in Nat /\ steps * L <= n - 1 /\ n - 1 < steps * L + L
      BY <1>0, <2>2, DivisionOf
    <2>4. steps * L \in Nat
      BY <1>0, <2>3, ProductOrder
    <2>5. last \in Nat /\ last + L = n - 1
      BY <1>0, <1>2
    <2> HIDE DEF last
    <2> DEFINE end == steps * L
    <2>6. end \in Nat /\ end <= n - 1 /\ last < end
      BY <1>0, <2>3, <2>4, <2>5
    <2>7. PairsChecked(m, n) = (0..(end - 1)) \cup (IF end + 1 < n THEN last..(last + L - 1) ELSE {})
      BY <2>1
    <2> HIDE DEF end
    <2>8. CASE end + 1 < n
      BY <1>0, <2>5, <2>6, <2>7, <2>8
    <2>9. CASE end + 1 = n
      BY <2>6, <2>7, <2>9
    <2> QED BY <2>6, <2>8, <2>9
  <1>3. CASE ~ (m \in {"avx512", "avx2"} /\ n >= L + 1)
    BY <1>3 DEF PairsChecked, L
  <1> QED BY <1>1, <1>2, <1>3

\* Every nonempty set of naturals has a least element.
LEMMA LeastElement ==
  ASSUME NEW T \in SUBSET Nat, T # {}
  PROVE  \E x \in T : \A y \in T : x <= y
  <1> DEFINE Smaller == {p \in Nat \X Nat : p[1] < p[2]}
  <1>1. IsWellFoundedOn(Smaller, Nat)
    BY NatLessThanWellFounded DEF OpToRel
  <1>2. PICK x \in T : \A y \in T : ~ (<<y, x>> \in Smaller)
    BY <1>1, WFMin
  <1>3. \A y \in T : ~(y < x)
    <2> TAKE y \in T
    <2>1. <<y, x>> \in Nat \X Nat /\ <<y, x>>[1] = y /\ <<y, x>>[2] = x
      OBVIOUS
    <2> QED BY <1>2, <2>1
  <1> QED BY <1>3

\* A set of naturals with 0 and the successor of each of its elements.
LEMMA SetInduction ==
  ASSUME NEW S \in SUBSET Nat, 0 \in S, \A n \in S : n + 1 \in S
  PROVE  \A n \in Nat : n \in S
  <1> SUFFICES ASSUME Nat \ S # {} PROVE FALSE
    OBVIOUS
  <1>1. PICK least \in Nat \ S : \A y \in Nat \ S : least <= y
    BY LeastElement
  <1>2. least # 0 /\ least - 1 \in Nat
    BY <1>1
  <1>3. least - 1 \in S
    BY <1>1, <1>2
  <1>4. (least - 1) + 1 \in S
    BY <1>3
  <1> QED BY <1>1, <1>4

\* The greatest element of a set of numbers with a bound.
LEMMA MaxIs ==
  ASSUME NEW T \in SUBSET Nat, T # {}, NEW top \in Nat, \A y \in T : y <= top
  PROVE  Max(T) \in T /\ \A y \in T : Max(T) >= y
  <1> DEFINE D == {n \in Nat : \E y \in T : n = top - y}
  <1>1. D \in SUBSET Nat /\ D # {}
    <2>1. PICK y \in T : TRUE
      OBVIOUS
    <2>2. top - y \in Nat
      OBVIOUS
    <2>3. top - y \in D
      BY <2>2
    <2> QED BY <2>3
  <1>2. PICK d \in D : \A e \in D : d <= e
    BY <1>1, LeastElement
  <1>3. PICK x \in T : d = top - x
    BY <1>2
  <1>4. \A y \in T : x >= y
    <2> TAKE y \in T
    <2>1. top - y \in D /\ d <= top - y
      <3>1. top - y \in Nat
        OBVIOUS
      <3>2. top - y \in D
        BY <3>1
      <3> HIDE DEF D
      <3> QED BY <1>2, <3>2
    <2> QED BY <1>3, <2>1
  <1> QED BY <1>4 DEF Max

\* The last index of a set of indexes.
LEMMA MaxWithin ==
  ASSUME NEW n \in Nat, NEW t \in SUBSET (1 .. n), t # {}
  PROVE  Max(t) \in t /\ Max(t) \in 1 .. n /\ (n \in t => Max(t) = n)
  <1>1. t \in SUBSET Nat /\ \A y \in t : y <= n
    OBVIOUS
  <1>2. Max(t) \in t /\ \A y \in t : Max(t) >= y
    BY <1>1, MaxIs
  <1> DEFINE m == Max(t)
  <1> HIDE DEF m
  <1>3. m \in t /\ \A y \in t : m >= y
    BY <1>2 DEF m
  <1>4. m \in 1 .. n
    BY <1>3
  <1>5. n \in t => m = n
    BY <1>3, <1>4
  <1> QED BY <1>3, <1>4, <1>5 DEF m

-----------------------------------------------------------------------------
(* Folds that go over a sequence from its first element to its last.        *)

\* The recursive function of a fold with the steps of a function exists.
FoldIsThere(n, V, first, step) ==
  \E s \in [SUBSET (1 .. n) -> V] : \A t \in SUBSET (1 .. n) :
      s[t] = IF t = {} THEN first ELSE step[<<Max(t), s[t \ {Max(t)}]>>]

\* It has a value for every number of steps.
LEMMA FoldExists ==
  ASSUME NEW n \in Nat, NEW V, NEW first \in V, NEW step \in [(1 .. n) \X V -> V]
  PROVE  FoldIsThere(n, V, first, step)
  <1> DEFINE Goes(t, s) == IF t = {} THEN first ELSE step[<<Max(t), s[t \ {Max(t)}]>>]
             Stage(k) == k <= n => \E s \in [SUBSET (1 .. k) -> V] : \A t \in SUBSET (1 .. k) : s[t] = Goes(t, s)
             Reached == {k \in Nat : Stage(k)}
  <1>1. Stage(0)
    <2>1. [t \in SUBSET (1 .. 0) |-> first] \in [SUBSET (1 .. 0) -> V]
      OBVIOUS
    <2>2. \A t \in SUBSET (1 .. 0) : t = {}
      OBVIOUS
    <2> QED BY <2>1, <2>2
  <1>2. ASSUME NEW k \in Nat, Stage(k) PROVE Stage(k + 1)
    <2> SUFFICES ASSUME k + 1 <= n
                 PROVE  \E s \in [SUBSET (1 .. k + 1) -> V] : \A t \in SUBSET (1 .. k + 1) : s[t] = Goes(t, s)
      OBVIOUS
    <2>1. PICK s \in [SUBSET (1 .. k) -> V] : \A t \in SUBSET (1 .. k) : s[t] = Goes(t, s)
      <3>1. k <= n
        OBVIOUS
      <3> HIDE DEF Goes
      <3> QED BY <1>2, <3>1
    <2> DEFINE j == k + 1
               e == [t \in SUBSET (1 .. j) |-> IF j \in t THEN step[<<j, s[t \ {j}]>>] ELSE s[t]]
    <2>2. j \in 1 .. n /\ j \in Nat
      OBVIOUS
    <2>3. ASSUME NEW t \in SUBSET (1 .. j)
          PROVE  /\ j \in t => t \ {j} \in SUBSET (1 .. k)
                 /\ j \notin t => t \in SUBSET (1 .. k)
      OBVIOUS
    <2>4. \A t \in SUBSET (1 .. k) : t \in SUBSET (1 .. j) /\ j \notin t
      OBVIOUS
    <2> HIDE DEF j
    <2>5. e \in [SUBSET (1 .. j) -> V]
      BY <2>2, <2>3
    <2>6. \A t \in SUBSET (1 .. k) : e[t] = s[t]
      BY <2>4
    <2>7. ASSUME NEW t \in SUBSET (1 .. j) PROVE e[t] = Goes(t, e)
      <3>1. CASE j \in t
        BY <2>2, <2>3, <2>6, <3>1, MaxWithin
      <3>2. CASE j \notin t
        <4>1. t \in SUBSET (1 .. k) /\ e[t] = s[t] /\ s[t] = Goes(t, s)
          BY <2>1, <2>3, <3>2
        <4>2. t \ {Max(t)} \in SUBSET (1 .. k)
          BY <4>1
        <4>3. e[t \ {Max(t)}] = s[t \ {Max(t)}]
          BY <2>6, <4>2
        <4> HIDE DEF e
        <4> QED BY <4>1, <4>3
      <3> QED BY <3>1, <3>2
    <2> HIDE DEF e, Goes
    <2> QED BY <2>5, <2>7 DEF j
  <1> HIDE DEF Stage
  <1>3. Reached \in SUBSET Nat /\ 0 \in Reached /\ \A k \in Reached : k + 1 \in Reached
    BY <1>1, <1>2
  <1> HIDE DEF Reached
  <1>4. Stage(n)
    BY <1>3, SetInduction DEF Reached
  <1>5. n <= n
    OBVIOUS
  <1>6. \E s \in [SUBSET (1 .. n) -> V] : \A t \in SUBSET (1 .. n) : s[t] = Goes(t, s)
    BY <1>4, <1>5 DEF Stage
  <1> QED BY <1>6 DEF FoldIsThere

\* The sets of the first indexes.
LEMMA FirstIndexes ==
  ASSUME NEW n \in Nat
  PROVE  /\ 1 .. 0 = {} /\ 1 .. 0 \in SUBSET (1 .. n)
         /\ \A i \in 1 .. n : /\ 1 .. i \in SUBSET (1 .. n) /\ 1 .. i # {}
                              /\ Max(1 .. i) = i /\ (1 .. i) \ {i} = 1 .. (i - 1)
                              /\ 1 .. (i - 1) \in SUBSET (1 .. n)
  <1>1. 1 .. 0 = {} /\ 1 .. 0 \in SUBSET (1 .. n)
    OBVIOUS
  <1>2. ASSUME NEW i \in 1 .. n
        PROVE  /\ 1 .. i \in SUBSET (1 .. n) /\ 1 .. i # {}
               /\ Max(1 .. i) = i /\ (1 .. i) \ {i} = 1 .. (i - 1)
               /\ 1 .. (i - 1) \in SUBSET (1 .. n)
    <2>1. i \in Nat /\ i \in 1 .. i /\ 1 .. i \in SUBSET (1 .. i) /\ 1 .. i # {}
      OBVIOUS
    <2>2. Max(1 .. i) = i
      BY <2>1, MaxWithin
    <2>3. \A x : x \in (1 .. i) \ {i} <=> x \in 1 .. (i - 1)
      OBVIOUS
    <2>4. (1 .. i) \ {i} = 1 .. (i - 1)
      BY <2>3
    <2>5. 1 .. i \in SUBSET (1 .. n) /\ 1 .. (i - 1) \in SUBSET (1 .. n)
      OBVIOUS
    <2> QED BY <2>1, <2>2, <2>4, <2>5
  <1> QED BY <1>1, <1>2

\* What BestOf has after each of the candidates.
BestRuns(order, first, n, cs) ==
  \E r : /\ r[0] = first /\ BestOf(order, first, cs) = r[n]
         /\ \A i \in 1 .. n : r[i] = IF Better(order, cs[i], r[i - 1]) THEN cs[i] ELSE r[i - 1]

\* It is the value after the last candidate.
LEMMA BestOfRuns ==
  ASSUME NEW order, NEW V, NEW first \in V, NEW n \in Nat, NEW cs, DOMAIN cs = 1 .. n, \A i \in 1 .. n : cs[i] \in V
  PROVE  BestRuns(order, first, n, cs)
  <1> DEFINE Kept(c, best) == IF Better(order, c, best) THEN c ELSE best
             folds(s) == [t \in SUBSET (DOMAIN cs) |-> IF t = {} THEN first ELSE Kept(cs[Max(t)], s[t \ {Max(t)}])]
             step == [p \in (1 .. n) \X V |-> Kept(cs[p[1]], p[2])]
             S == CHOOSE s : s = folds(s)
  <1>1. step \in [(1 .. n) \X V -> V]
    OBVIOUS
  <1> HIDE DEF Kept
  <1>2. \A i \in 1 .. n : \A v \in V : step[<<i, v>>] = Kept(cs[i], v)
    OBVIOUS
  <1> HIDE DEF step
  <1>3. PICK e \in [SUBSET (1 .. n) -> V] : \A t \in SUBSET (1 .. n) :
               e[t] = IF t = {} THEN first ELSE step[<<Max(t), e[t \ {Max(t)}]>>]
    <2>1. FoldIsThere(n, V, first, step)
      BY <1>1, FoldExists
    <2> QED BY <2>1 DEF FoldIsThere
  <1>4. \A t \in SUBSET (1 .. n) : e[t] = IF t = {} THEN first ELSE Kept(cs[Max(t)], e[t \ {Max(t)}])
    <2> TAKE t \in SUBSET (1 .. n)
    <2>1. CASE t # {}
      <3>1. Max(t) \in 1 .. n /\ t \ {Max(t)} \in SUBSET (1 .. n)
        BY <2>1, MaxWithin
      <3>2. e[t \ {Max(t)}] \in V
        BY <3>1
      <3> QED BY <1>2, <1>3, <2>1, <3>1, <3>2
    <2> QED BY <1>3, <2>1
  <1>5. e = folds(e)
    BY <1>4
  <1>6. S = folds(S)
    <2> HIDE DEF folds
    <2> QED BY <1>5
  <1>7. BestOf(order, first, cs) = S[DOMAIN cs]
    BY DEF BestOf, FoldLeft, MapThenFoldSet, Kept
  <1> HIDE DEF S
  <1>8. \A t \in SUBSET (1 .. n) : S[t] = IF t = {} THEN first ELSE Kept(cs[Max(t)], S[t \ {Max(t)}])
    BY <1>6
  <1> DEFINE r == [i \in 0 .. n |-> S[1 .. i]]
  <1>9. r[0] = first
    <2>1. r[0] = S[1 .. 0]
      OBVIOUS
    <2> HIDE DEF r
    <2> DEFINE t == 1 .. 0
    <2>2. t \in SUBSET (1 .. n) /\ t = {}
      BY FirstIndexes
    <2> HIDE DEF t
    <2>3. S[t] = first
      BY <1>8, <2>2
    <2> QED BY <2>1, <2>3 DEF t
  <1>10. ASSUME NEW i \in 1 .. n PROVE r[i] = Kept(cs[i], r[i - 1])
    <2>1. r[i] = S[1 .. i] /\ r[i - 1] = S[1 .. (i - 1)]
      OBVIOUS
    <2> HIDE DEF r
    <2>2. S[1 .. i] = Kept(cs[i], S[1 .. (i - 1)])
      <3> DEFINE t == 1 .. i
                 u == 1 .. (i - 1)
      <3>1. t \in SUBSET (1 .. n) /\ t # {} /\ Max(t) = i /\ t \ {i} = u
        BY FirstIndexes
      <3> HIDE DEF t, u
      <3>2. S[t] = Kept(cs[i], S[u])
        BY <1>8, <3>1
      <3> QED BY <3>2 DEF t, u
    <2> QED BY <2>1, <2>2
  <1>11. r[n] = S[1 .. n]
    OBVIOUS
  <1> HIDE DEF r
  <1> QED BY <1>7, <1>9, <1>10, <1>11 DEF Kept, BestRuns

-----------------------------------------------------------------------------
(* The best of a list of values, and of the best of its parts.               *)

(* An order compares a candidate with those before it by a rank; some        *)
(* values, NaN, are odd: nothing is better than they are, and they are       *)
(* better than nothing.                                                      *)
Ranked(order, first, cs, n, odd, rank) ==
  \A i \in 1 .. n : \A b \in {first} \cup {cs[j] : j \in 1 .. (i - 1)} :
      Better(order, cs[i], b) <=> cs[i] \notin odd /\ b \notin odd /\ rank[cs[i]] < rank[b]

\* A value among those seen that none of them is better than.
Leads(v, first, cs, n, odd, rank) ==
  /\ v = first \/ \E j \in 1 .. n : v = cs[j]
  /\ v \in odd <=> first \in odd
  /\ v \notin odd => /\ rank[v] <= rank[first]
                     /\ \A j \in 1 .. n : cs[j] \notin odd => rank[v] <= rank[cs[j]]

\* One more candidate: the value that leads is kept, or replaced.
LEMMA LeadsOn ==
  ASSUME NEW V, NEW first \in V, NEW n \in Nat, NEW i \in 1 .. n, NEW cs, \A j \in 1 .. n : cs[j] \in V,
         NEW odd, NEW rank, \A x \in V : rank[x] \in Int, NEW v, NEW w, NEW better \in BOOLEAN,
         Leads(v, first, cs, i - 1, odd, rank),
         better <=> cs[i] \notin odd /\ v \notin odd /\ rank[cs[i]] < rank[v],
         w = IF better THEN cs[i] ELSE v
  PROVE  Leads(w, first, cs, i, odd, rank)
  <1>1. /\ \A j \in 1 .. i : j \in 1 .. (i - 1) \/ j = i
        /\ \A j \in 1 .. (i - 1) : j \in 1 .. i
        /\ \A j \in 1 .. i : j \in 1 .. n
        /\ i \in 1 .. i
    OBVIOUS
  <1>2. v \in V /\ cs[i] \in V /\ rank[v] \in Int /\ rank[cs[i]] \in Int /\ rank[first] \in Int
    BY <1>1 DEF Leads
  <1>3. \A j \in 1 .. i : rank[cs[j]] \in Int
    BY <1>1
  <1>4. CASE better
    BY <1>1, <1>2, <1>3, <1>4 DEF Leads
  <1>5. CASE ~ better
    BY <1>1, <1>2, <1>3, <1>5 DEF Leads
  <1> QED BY <1>4, <1>5

\* No candidate is better than BestOf.
LEMMA BestOfLeads ==
  ASSUME NEW order, NEW V, NEW first \in V, NEW n \in Nat, NEW cs, DOMAIN cs = 1 .. n, \A i \in 1 .. n : cs[i] \in V,
         NEW odd, NEW rank, \A v \in V : rank[v] \in Int, Ranked(order, first, cs, n, odd, rank)
  PROVE  Leads(BestOf(order, first, cs), first, cs, n, odd, rank)
  <1>1. PICK r : /\ r[0] = first /\ BestOf(order, first, cs) = r[n]
                 /\ \A i \in 1 .. n : r[i] = IF Better(order, cs[i], r[i - 1]) THEN cs[i] ELSE r[i - 1]
    <2>1. BestRuns(order, first, n, cs)
      BY BestOfRuns
    <2> QED BY <2>1 DEF BestRuns
  <1> DEFINE Stage(i) == i <= n => Leads(r[i], first, cs, i, odd, rank)
             Reached == {i \in Nat : Stage(i)}
  <1>2. Stage(0)
    BY <1>1 DEF Leads
  <1>3. ASSUME NEW k \in Nat, Stage(k) PROVE Stage(k + 1)
    <2> SUFFICES ASSUME k + 1 <= n PROVE Leads(r[k + 1], first, cs, k + 1, odd, rank)
      OBVIOUS
    <2> DEFINE i == k + 1
    <2>1. i \in 1 .. n /\ i - 1 = k /\ k <= n
      OBVIOUS
    <2>2. Leads(r[i - 1], first, cs, i - 1, odd, rank)
      BY <1>3, <2>1
    <2> HIDE DEF i, Stage
    <2>3. r[i - 1] \in {first} \cup {cs[j] : j \in 1 .. (i - 1)}
      BY <2>2 DEF Leads
    <2> DEFINE better == Better(order, cs[i], r[i - 1])
    <2>4. better <=> cs[i] \notin odd /\ r[i - 1] \notin odd /\ rank[cs[i]] < rank[r[i - 1]]
      BY <2>1, <2>3 DEF Ranked
    <2>5. r[i] = IF better THEN cs[i] ELSE r[i - 1]
      BY <1>1, <2>1
    <2>6. better \in BOOLEAN
      BY DEF Better, Lower, Greater, BiasedLower, BiasedGreater, NativeLower, NativeGreater, BELower, BELowerFirst, BEGreaterFirst
    <2> HIDE DEF better
    <2>7. Leads(r[i], first, cs, i, odd, rank)
      BY <2>1, <2>2, <2>4, <2>5, <2>6, LeadsOn
    <2> QED BY <2>7 DEF i
  <1> HIDE DEF Stage
  <1>4. Reached \in SUBSET Nat /\ 0 \in Reached /\ \A k \in Reached : k + 1 \in Reached
    BY <1>2, <1>3
  <1> HIDE DEF Reached
  <1>5. n \in Reached
    BY <1>4, SetInduction
  <1>6. Stage(n) /\ n <= n
    BY <1>5 DEF Reached
  <1> QED BY <1>1, <1>6 DEF Stage

\* A value of a set D that none of S is better than.
Wins(v, base, S, D, odd, rank) ==
  /\ v \in D
  /\ v \in odd <=> base \in odd
  /\ v \notin odd => \A u \in S : u \notin odd => rank[v] <= rank[u]

OrderRanks(order, D, odd, rank) ==
  \A a \in D : \A b \in D : Better(order, a, b) <=> a \notin odd /\ b \notin odd /\ rank[a] < rank[b]

\* The best of the first value and of the others.
LEMMA WinsAll ==
  ASSUME NEW order, NEW D, NEW first \in D, NEW n \in Nat, NEW cs, DOMAIN cs = 1 .. n, \A i \in 1 .. n : cs[i] \in D,
         NEW odd, NEW rank, \A v \in D : rank[v] \in Int, OrderRanks(order, D, odd, rank),
         NEW S, \A u \in S : u = first \/ \E i \in 1 .. n : u = cs[i]
  PROVE  Wins(BestOf(order, first, cs), first, S, D, odd, rank)
  <1>1. Ranked(order, first, cs, n, odd, rank)
    BY DEF Ranked, OrderRanks
  <1>2. Leads(BestOf(order, first, cs), first, cs, n, odd, rank)
    BY <1>1, BestOfLeads
  <1> QED BY <1>2 DEF Leads, Wins

\* The best of those that win within parts wins in the whole.
LEMMA WinsRanked ==
  ASSUME NEW order, NEW D, NEW base \in D, NEW n \in Nat, NEW cs, DOMAIN cs = 1 .. n,
         NEW odd, NEW rank, \A v \in D : rank[v] \in Int,
         NEW first, NEW part, Ranked(order, first, cs, n, odd, rank), Wins(first, base, part[0], D, odd, rank),
         \A i \in 1 .. n : Wins(cs[i], base, part[i], D, odd, rank),
         NEW S \in SUBSET D, \A u \in S : \E i \in 0 .. n : u \in part[i]
  PROVE  Wins(BestOf(order, first, cs), base, S, D, odd, rank)
  <1>1. first \in D /\ \A i \in 1 .. n : cs[i] \in D
    BY DEF Wins
  <1> DEFINE v == BestOf(order, first, cs)
  <1>3. Leads(v, first, cs, n, odd, rank)
    BY <1>1, BestOfLeads
  <1> HIDE DEF v
  <1>4. v \in D /\ (v \in odd <=> base \in odd)
    BY <1>1, <1>3 DEF Leads, Wins
  <1>5. ASSUME v \notin odd, NEW u \in S, u \notin odd PROVE rank[v] <= rank[u]
    <2>1. PICK i \in 0 .. n : u \in part[i]
      OBVIOUS
    <2>2. rank[v] \in Int /\ rank[u] \in Int
      BY <1>4
    <2>3. CASE i = 0
      BY <1>1, <1>3, <1>4, <1>5, <2>1, <2>2, <2>3 DEF Leads, Wins
    <2>4. CASE i # 0
      <3>1. i \in 1 .. n
        BY <2>4
      <3>2. cs[i] \in D /\ cs[i] \notin odd /\ rank[cs[i]] <= rank[u]
        BY <1>4, <1>5, <2>1, <3>1 DEF Wins
      <3>3. rank[v] <= rank[cs[i]]
        BY <1>3, <1>5, <3>1, <3>2 DEF Leads
      <3>4. rank[cs[i]] \in Int
        BY <3>2
      <3> QED BY <2>2, <3>2, <3>3, <3>4
    <2> QED BY <2>3, <2>4
  <1> QED BY <1>4, <1>5 DEF Wins, v

\* In an order that ranks all of the values.
LEMMA WinsParts ==
  ASSUME NEW order, NEW D, NEW base \in D, NEW n \in Nat, NEW cs, DOMAIN cs = 1 .. n,
         NEW odd, NEW rank, \A v \in D : rank[v] \in Int, OrderRanks(order, D, odd, rank),
         NEW first, NEW part, Wins(first, base, part[0], D, odd, rank),
         \A i \in 1 .. n : Wins(cs[i], base, part[i], D, odd, rank),
         NEW S \in SUBSET D, \A u \in S : \E i \in 0 .. n : u \in part[i]
  PROVE  Wins(BestOf(order, first, cs), base, S, D, odd, rank)
  <1>1. first \in D /\ \A i \in 1 .. n : cs[i] \in D
    BY DEF Wins
  <1>2. Ranked(order, first, cs, n, odd, rank)
    BY <1>1 DEF Ranked, OrderRanks
  <1> QED BY <1>2, WinsRanked

-----------------------------------------------------------------------------
(* What the accumulators of a kernel see, lane by lane.                      *)

\* What an accumulator sees in a lane, and what they all do.
LaneSees(data, L, k, a, lane) ==
  {data[Loads(Len(data), L, k, a)[c] + lane] : c \in DOMAIN Loads(Len(data), L, k, a)}
MergedSees(data, L, k, lane) == UNION {LaneSees(data, L, k, a, lane) : a \in 0 .. (k - 1)}

\* The vectors fit in the data, which an order ranks.
Fits(data, L, k, order, odd, rank) ==
  /\ Len(data) \in Nat \ {0} /\ DOMAIN data = 1 .. Len(data)
  /\ L \in Nat \ {0} /\ k \in Nat \ {0} /\ Len(data) >= k * L
  /\ (\A v \in Members(data) : rank[v] \in Int) /\ OrderRanks(order, Members(data), odd, rank)

Counted(loads) == \E count \in Nat : DOMAIN loads = 1 .. count

\* The loads of an accumulator are a list.
LEMMA LoadsCounted ==
  ASSUME NEW n \in Nat, NEW L \in Nat \ {0}, NEW k \in Nat \ {0}, NEW a \in Nat
  PROVE  Counted(Loads(n, L, k, a))
  <1> DEFINE chunks == n \div (k * L)
             rem == n - chunks * k * L
  <1>1. chunks = n \div (k * L) /\ rem = n - chunks * k * L
    OBVIOUS
  <1>2. chunks \in Nat /\ rem \in Int
    <2>1. k * L \in Nat \ {0}
      OBVIOUS
    <2>2. chunks \in Nat
      BY <2>1, DivisionOf
    <2> HIDE DEF chunks
    <2> QED BY <2>2
  <1> HIDE DEF chunks, rem
  <1>3. Loaded(n, L, k, a, chunks, rem)
    BY <1>1, <1>2, LoadsAre
  <1> QED BY <1>3 DEF Loaded, Counted

\* A lane of an accumulator wins in what it sees.
LEMMA LaneWins ==
  ASSUME NEW data, NEW L, NEW k, NEW order, NEW odd, NEW rank, Fits(data, L, k, order, odd, rank),
         NEW a \in 0 .. (k - 1), NEW lane \in 1 .. L
  PROVE  /\ Wins(Lane(order, data, Loads(Len(data), L, k, a), lane), data[1],
                 LaneSees(data, L, k, a, lane), Members(data), odd, rank)
         /\ LaneSees(data, L, k, a, lane) \in SUBSET Members(data)
  <1> DEFINE n == Len(data)
             loads == Loads(n, L, k, a)
             D == Members(data)
             cs == [c \in DOMAIN loads |-> data[loads[c] + lane]]
  <1>1. /\ n \in Nat \ {0} /\ DOMAIN data = 1 .. n /\ L \in Nat \ {0} /\ k \in Nat \ {0} /\ n >= k * L
        /\ (\A v \in D : rank[v] \in Int) /\ OrderRanks(order, D, odd, rank) /\ a \in Nat
    BY DEF Fits
  <1>2. \A i \in DOMAIN loads : loads[i] + lane \in 1 .. n
    BY <1>1, VectorsReadEverything DEF ReadsEverything
  <1>3. PICK count \in Nat : DOMAIN loads = 1 .. count
    <2>1. Counted(Loads(n, L, k, a))
      BY <1>1, LoadsCounted
    <2> QED BY <2>1 DEF Counted
  <1>4. data[1] \in D /\ \A i \in DOMAIN loads : data[loads[i] + lane] \in D
    BY <1>1, <1>2 DEF Members
  <1>5. Lane(order, data, loads, lane) = BestOf(order, data[1], cs)
    BY DEF Lane
  <1>6. LaneSees(data, L, k, a, lane) = {data[loads[c] + lane] : c \in DOMAIN loads}
    BY DEF LaneSees
  <1> HIDE DEF n, loads, D
  <1>7. DOMAIN cs = 1 .. count /\ (\A i \in 1 .. count : cs[i] \in D)
        /\ (\A u \in LaneSees(data, L, k, a, lane) : \E i \in 1 .. count : u = cs[i])
    BY <1>3, <1>4, <1>6
  <1> HIDE DEF cs
  <1>8. Wins(BestOf(order, data[1], cs), data[1], LaneSees(data, L, k, a, lane), D, odd, rank)
    BY <1>1, <1>4, <1>7, WinsAll
  <1>9. LaneSees(data, L, k, a, lane) \in SUBSET D
    BY <1>4, <1>6
  <1> QED BY <1>5, <1>8, <1>9 DEF n, loads, D

\* A lane of the merged accumulators wins in what they all see in it.
LEMMA MergedWins ==
  ASSUME NEW data, NEW L, NEW k, NEW order, NEW odd, NEW rank, Fits(data, L, k, order, odd, rank),
         NEW lane \in 1 .. L
  PROVE  /\ Wins(Merged(order, data, L, k, lane), data[1], MergedSees(data, L, k, lane), Members(data), odd, rank)
         /\ MergedSees(data, L, k, lane) \in SUBSET Members(data)
  <1> DEFINE D == Members(data)
             Of(a) == Lane(order, data, Loads(Len(data), L, k, a), lane)
             Sees(a) == LaneSees(data, L, k, a, lane)
             cs == [a \in 1 .. (k - 1) |-> Of(a)]
             part == [a \in 0 .. (k - 1) |-> Sees(a)]
             S == MergedSees(data, L, k, lane)
  <1>1. /\ DOMAIN data = 1 .. Len(data) /\ Len(data) \in Nat \ {0} /\ k \in Nat \ {0}
        /\ (\A v \in D : rank[v] \in Int) /\ OrderRanks(order, D, odd, rank)
    BY DEF Fits
  <1>2. data[1] \in D
    BY <1>1 DEF Members
  <1>3. \A a \in 0 .. (k - 1) : Wins(Of(a), data[1], Sees(a), D, odd, rank) /\ Sees(a) \in SUBSET D
    BY LaneWins
  <1>4. Merged(order, data, L, k, lane) = BestOf(order, Of(0), cs)
    BY DEF Merged
  <1>5. S = UNION {Sees(a) : a \in 0 .. (k - 1)}
    BY DEF MergedSees
  <1> HIDE DEF Of, Sees, D, S
  <1>6. S \in SUBSET D
    BY <1>3, <1>5
  <1>7. k - 1 \in Nat /\ 0 \in 0 .. (k - 1) /\ \A a \in 1 .. (k - 1) : a \in 0 .. (k - 1)
    BY <1>1
  <1>8. /\ DOMAIN cs = 1 .. (k - 1)
        /\ Wins(Of(0), data[1], part[0], D, odd, rank)
        /\ \A a \in 1 .. (k - 1) : Wins(cs[a], data[1], part[a], D, odd, rank)
        /\ \A u \in S : \E a \in 0 .. (k - 1) : u \in part[a]
    BY <1>3, <1>5, <1>7
  <1> HIDE DEF cs, part
  <1>9. Wins(BestOf(order, Of(0), cs), data[1], S, D, odd, rank)
    BY <1>1, <1>2, <1>6, <1>7, <1>8, WinsParts
  <1> QED BY <1>4, <1>6, <1>9 DEF S, D

(* The vector kernel reports a value of the page that no value is better     *)
(* than, whatever the length of the page is modulo its vectors.              *)
LEMMA ReduceWins ==
  ASSUME NEW data, NEW L, NEW k, NEW order, NEW odd, NEW rank, Fits(data, L, k, order, odd, rank)
  PROVE  Wins(Reduce(order, data, L, k), data[1], Members(data), Members(data), odd, rank)
  <1> DEFINE D == Members(data)
             Of(lane) == Merged(order, data, L, k, lane)
             Sees(lane) == MergedSees(data, L, k, lane)
             cs == [i \in 1 .. (L - 1) |-> Of(i + 1)]
             part == [i \in 0 .. (L - 1) |-> Sees(i + 1)]
  <1>1. /\ DOMAIN data = 1 .. Len(data) /\ Len(data) \in Nat \ {0} /\ L \in Nat \ {0} /\ k \in Nat \ {0}
        /\ Len(data) >= k * L /\ (\A v \in D : rank[v] \in Int) /\ OrderRanks(order, D, odd, rank)
    BY DEF Fits
  <1>2. data[1] \in D
    BY <1>1 DEF Members
  <1>3. \A lane \in 1 .. L : Wins(Of(lane), data[1], Sees(lane), D, odd, rank)
    BY MergedWins
  <1>4. Reduce(order, data, L, k) = BestOf(order, Of(1), cs)
    BY DEF Reduce
  <1>5. \A u \in D : \E lane \in 1 .. L : u \in Sees(lane)
    <2> TAKE u \in D
    <2>1. PICK p \in 1 .. Len(data) : u = data[p]
      BY <1>1 DEF Members
    <2>2. PICK a \in 0 .. (k - 1) : \E i \in DOMAIN Loads(Len(data), L, k, a) : \E lane \in 1 .. L :
               Loads(Len(data), L, k, a)[i] + lane = p
      <3>1. ReadsEverything(Len(data), L, k)
        BY <1>1, VectorsReadEverything
      <3> QED BY <3>1 DEF ReadsEverything, ReadAt
    <2>3. PICK i \in DOMAIN Loads(Len(data), L, k, a), lane \in 1 .. L : Loads(Len(data), L, k, a)[i] + lane = p
      BY <2>2
    <2>4. u \in LaneSees(data, L, k, a, lane)
      BY <2>1, <2>3 DEF LaneSees
    <2> QED BY <2>4 DEF MergedSees
  <1> HIDE DEF Of, Sees, D
  <1>6. L - 1 \in Nat /\ (\A i \in 0 .. (L - 1) : i + 1 \in 1 .. L) /\ (\A i \in 1 .. (L - 1) : i \in 0 .. (L - 1))
        /\ 0 \in 0 .. (L - 1) /\ (\A lane \in 1 .. L : lane - 1 \in 0 .. (L - 1) /\ (lane - 1) + 1 = lane) /\ 0 + 1 = 1
    BY <1>1
  <1>7. \A u \in D : \E i \in 0 .. (L - 1) : u \in part[i]
    <2> TAKE u \in D
    <2>1. PICK lane \in 1 .. L : u \in Sees(lane)
      BY <1>5
    <2>2. lane - 1 \in 0 .. (L - 1) /\ part[lane - 1] = Sees(lane)
      BY <1>6
    <2> QED BY <2>1, <2>2
  <1>8. /\ DOMAIN cs = 1 .. (L - 1)
        /\ Wins(Of(1), data[1], part[0], D, odd, rank)
        /\ \A i \in 1 .. (L - 1) : Wins(cs[i], data[1], part[i], D, odd, rank)
    BY <1>3, <1>6
  <1> HIDE DEF cs, part
  <1>9. Wins(BestOf(order, Of(1), cs), data[1], D, D, odd, rank)
    BY <1>1, <1>2, <1>6, <1>7, <1>8, WinsParts
  <1> QED BY <1>4, <1>9 DEF D

\* So does the loop over the elements.
LEMMA ScanWins ==
  ASSUME NEW data, Len(data) \in Nat \ {0}, DOMAIN data = 1 .. Len(data), NEW order, NEW odd,
         NEW rank, \A v \in Members(data) : rank[v] \in Int, OrderRanks(order, Members(data), odd, rank)
  PROVE  Wins(Scan(order, data), data[1], Members(data), Members(data), odd, rank)
  <1> DEFINE n == Len(data)
             D == Members(data)
  <1>1. n \in Nat /\ DOMAIN data = 1 .. n /\ data[1] \in D /\ (\A i \in 1 .. n : data[i] \in D)
        /\ (\A u \in D : \E i \in 1 .. n : u = data[i]) /\ (\A v \in D : rank[v] \in Int) /\ OrderRanks(order, D, odd, rank)
    BY DEF Members
  <1> HIDE DEF n, D
  <1>2. Wins(BestOf(order, data[1], data), data[1], D, D, odd, rank)
    BY <1>1, WinsAll
  <1> QED BY <1>2 DEF Scan, D

-----------------------------------------------------------------------------
(* The bounds of the pages of numbers.                                       *)

UpRank(D) == [v \in D |-> v]
DownRank(D) == [v \in D |-> 0 - v]

\* The orders of the instructions rank the values they are given.
LEMMA PlainRanks ==
  ASSUME NEW D \in SUBSET Int
  PROVE  /\ OrderRanks("lower", D, {NaN}, UpRank(D)) /\ (\A v \in D : UpRank(D)[v] \in Int)
         /\ OrderRanks("greater", D, {NaN}, DownRank(D)) /\ (\A v \in D : DownRank(D)[v] \in Int)
  BY DEF OrderRanks, Better, Lower, Greater, UpRank, DownRank, NaN

\* So does the native minimum and maximum, where there is no NaN.
LEMMA NativeRanks ==
  ASSUME NEW D \in SUBSET Int, NaN \notin D
  PROVE  /\ OrderRanks("nativeLower", D, {NaN}, UpRank(D))
         /\ OrderRanks("nativeGreater", D, {NaN}, DownRank(D))
  BY DEF OrderRanks, Better, NativeLower, NativeGreater, UpRank, DownRank

\* Flipping the sign bits of two values keeps their order.
LEMMA BiasedIs ==
  ASSUME NEW a \in Codes, NEW b \in Codes
  PROVE  /\ BiasedLower(a, b) <=> a < b
         /\ BiasedGreater(a, b) <=> a > b
  BY DEF FlipSign, Codes, BiasedLower, BiasedGreater

\* The comparison of flipped values ranks them.
LEMMA BiasedRanks ==
  ASSUME NEW D \in SUBSET Codes
  PROVE  /\ OrderRanks("biasedLower", D, {NaN}, UpRank(D))
         /\ OrderRanks("biasedGreater", D, {NaN}, DownRank(D))
  BY BiasedIs DEF Codes, NaN, OrderRanks, Better, UpRank, DownRank

\* The values of a page that is not empty.
LEMMA PageValues ==
  ASSUME NEW data \in Seq(Int), data # <<>>
  PROVE  /\ Len(data) \in Nat \ {0} /\ DOMAIN data = 1 .. Len(data)
         /\ Members(data) \in SUBSET Int /\ data[1] \in Members(data)
  BY EmptySeq, LenProperties, ElementOfSeq DEF Members

\* The value that wins is the bound of the page.
LEMMA LeastIs ==
  ASSUME NEW data \in Seq(Int), data # <<>>, NEW v,
         Wins(v, data[1], Members(data), Members(data), {NaN}, UpRank(Members(data)))
  PROVE  v = TrueBounds(data)[1]
  <1> DEFINE D == Members(data)
             T == D \ {NaN}
  <1>1. D \in SUBSET Int /\ data[1] \in D
    BY PageValues
  <1>2. v \in D /\ (v = NaN <=> data[1] = NaN) /\ (v # NaN => \A u \in T : v <= u)
    BY <1>1 DEF Wins, UpRank
  <1> HIDE DEF D
  <1>3. CASE data[1] # NaN
    <2>1. v \in T /\ \A u \in T : v <= u
      BY <1>2, <1>3
    <2>2. \A w \in T : (\A u \in T : w <= u) => w = v
      BY <1>1, <2>1
    <2>3. Least(T) = v
      BY <2>1, <2>2 DEF Least
    <2> QED BY <1>3, <2>3 DEF TrueBounds, D
  <1>4. CASE data[1] = NaN
    BY <1>2, <1>4 DEF TrueBounds
  <1> QED BY <1>3, <1>4

\* In the order from above, it is the greatest.
LEMMA GreatestIs ==
  ASSUME NEW data \in Seq(Int), data # <<>>, NEW v,
         Wins(v, data[1], Members(data), Members(data), {NaN}, DownRank(Members(data)))
  PROVE  v = TrueBounds(data)[2]
  <1> DEFINE D == Members(data)
             T == D \ {NaN}
  <1>1. D \in SUBSET Int /\ data[1] \in D
    BY PageValues
  <1>2. v \in D /\ (v = NaN <=> data[1] = NaN) /\ (v # NaN => \A u \in T : v >= u)
    BY <1>1 DEF Wins, DownRank
  <1> HIDE DEF D
  <1>3. CASE data[1] # NaN
    <2>1. v \in T /\ \A u \in T : v >= u
      BY <1>2, <1>3
    <2>2. \A w \in T : (\A u \in T : w >= u) => w = v
      BY <1>1, <2>1
    <2>3. Greatest(T) = v
      BY <2>1, <2>2 DEF Greatest
    <2> QED BY <1>3, <2>3 DEF TrueBounds, D
  <1>4. CASE data[1] = NaN
    BY <1>2, <1>4 DEF TrueBounds
  <1> QED BY <1>3, <1>4

\* A kernel whose three ways rank the values of the page.
LEMMA KernelWins ==
  ASSUME NEW data \in Seq(Int), data # <<>>, NEW m \in Machines, NEW wide, NEW narrow, NEW order,
         NEW rank, \A v \in Members(data) : rank[v] \in Int,
         OrderRanks(wide, Members(data), {NaN}, rank), OrderRanks(narrow, Members(data), {NaN}, rank),
         OrderRanks(order, Members(data), {NaN}, rank)
  PROVE  Wins(Kernel(wide, narrow, order, m, data), data[1], Members(data), Members(data), {NaN}, rank)
  <1>1. /\ Len(data) \in Nat \ {0} /\ DOMAIN data = 1 .. Len(data)
        /\ Lanes512 \in Nat \ {0} /\ Lanes256 \in Nat \ {0}
    BY PageValues, KernelAssumption
  <1>2. CASE m = "avx512" /\ Len(data) >= 2 * Lanes512
    BY <1>1, <1>2, ReduceWins DEF Kernel, Fits
  <1>3. CASE m = "avx2" /\ Len(data) >= 2 * Lanes256
    BY <1>1, <1>3, ReduceWins DEF Kernel, Fits
  <1>4. CASE ~ (m = "avx512" /\ Len(data) >= 2 * Lanes512) /\ ~ (m = "avx2" /\ Len(data) >= 2 * Lanes256)
    BY <1>1, <1>4, ScanWins DEF Kernel
  <1> QED BY <1>2, <1>3, <1>4

\* The kernels of integers and the merging kernels of floats report the bounds.
LEMMA MergeKernels ==
  ASSUME NEW data \in Seq(Int), NEW m \in Machines
  PROVE  /\ Kernel("lower", "lower", "lower", m, data) = TrueBounds(data)[1]
         /\ Kernel("greater", "greater", "greater", m, data) = TrueBounds(data)[2]
  <1>1. CASE data = <<>>
    BY <1>1 DEF Kernel, TrueBounds
  <1>2. CASE data # <<>>
    <2>1. Members(data) \in SUBSET Int
      BY <1>2, PageValues
    <2>2. Wins(Kernel("lower", "lower", "lower", m, data), data[1], Members(data), Members(data), {NaN}, UpRank(Members(data)))
      BY <1>2, <2>1, PlainRanks, KernelWins
    <2>3. Wins(Kernel("greater", "greater", "greater", m, data), data[1], Members(data), Members(data), {NaN}, DownRank(Members(data)))
      BY <1>2, <2>1, PlainRanks, KernelWins
    <2> QED BY <1>2, <2>2, <2>3, LeastIs, GreatestIs
  <1> QED BY <1>1, <1>2

\* So do the kernels of unsigned values that flip the sign bit.
LEMMA BiasedKernels ==
  ASSUME NEW data \in Seq(Codes), NEW m \in Machines
  PROVE  /\ Kernel("lower", "biasedLower", "lower", m, data) = TrueBounds(data)[1]
         /\ Kernel("greater", "biasedGreater", "greater", m, data) = TrueBounds(data)[2]
  <1>1. CASE data = <<>>
    BY <1>1 DEF Kernel, TrueBounds
  <1>2. CASE data # <<>>
    <2>0. data \in Seq(Int)
      BY DEF Codes
    <2>1. Members(data) \in SUBSET Int /\ Members(data) \in SUBSET Codes
      BY <1>2, <2>0, PageValues, ElementOfSeq DEF Members
    <2>2. Wins(Kernel("lower", "biasedLower", "lower", m, data), data[1], Members(data), Members(data), {NaN}, UpRank(Members(data)))
      BY <1>2, <2>0, <2>1, PlainRanks, BiasedRanks, KernelWins
    <2>3. Wins(Kernel("greater", "biasedGreater", "greater", m, data), data[1], Members(data), Members(data), {NaN}, DownRank(Members(data)))
      BY <1>2, <2>0, <2>1, PlainRanks, BiasedRanks, KernelWins
    <2> QED BY <1>2, <2>0, <2>2, <2>3, LeastIs, GreatestIs
  <1> QED BY <1>1, <1>2

\* The bounds are a pair.
LEMMA BoundsPair == ASSUME NEW data PROVE TrueBounds(data) = <<TrueBounds(data)[1], TrueBounds(data)[2]>>
  BY DEF TrueBounds

(* A NaN that no vector adds to the sum is not in the page: the native       *)
(* minimum and maximum are those of numbers.                                 *)
LEMMA NativeBounds ==
  ASSUME NEW data \in Seq(Int), data # <<>>, NEW L \in Nat \ {0}, NEW k \in Nat \ {0}, Len(data) >= k * L,
         ~ SumIsNaN(data, L, k)
  PROVE  <<Reduce("nativeLower", data, L, k), Reduce("nativeGreater", data, L, k)>> = TrueBounds(data)
  <1>1. /\ Len(data) \in Nat \ {0} /\ DOMAIN data = 1 .. Len(data) /\ Members(data) \in SUBSET Int
    BY PageValues
  <1>2. NaN \notin Members(data)
    <2> SUFFICES ASSUME NaN \in Members(data) PROVE FALSE
      OBVIOUS
    <2>1. PICK p \in 1 .. Len(data) : data[p] = NaN
      BY <1>1 DEF Members
    <2>2. ReadsEverything(Len(data), L, k)
      BY <1>1, VectorsReadEverything
    <2>3. ReadAt(Len(data), L, k, p)
      BY <2>2 DEF ReadsEverything
    <2> QED BY <2>1, <2>3 DEF ReadAt, SumIsNaN
  <1>3. /\ OrderRanks("nativeLower", Members(data), {NaN}, UpRank(Members(data)))
        /\ OrderRanks("nativeGreater", Members(data), {NaN}, DownRank(Members(data)))
        /\ (\A v \in Members(data) : UpRank(Members(data))[v] \in Int) /\ (\A v \in Members(data) : DownRank(Members(data))[v] \in Int)
    BY <1>1, <1>2, PlainRanks, NativeRanks
  <1>4. /\ Fits(data, L, k, "nativeLower", {NaN}, UpRank(Members(data)))
        /\ Fits(data, L, k, "nativeGreater", {NaN}, DownRank(Members(data)))
    BY <1>1, <1>3 DEF Fits
  <1>5. Wins(Reduce("nativeLower", data, L, k), data[1], Members(data), Members(data), {NaN}, UpRank(Members(data)))
    BY <1>4, ReduceWins
  <1>6. Wins(Reduce("nativeGreater", data, L, k), data[1], Members(data), Members(data), {NaN}, DownRank(Members(data)))
    BY <1>4, ReduceWins
  <1>7. Reduce("nativeLower", data, L, k) = TrueBounds(data)[1]
    BY <1>5, LeastIs
  <1>8. Reduce("nativeGreater", data, L, k) = TrueBounds(data)[2]
    BY <1>6, GreatestIs
  <1> QED BY <1>7, <1>8, BoundsPair

\* The bounds of floats, whichever of the ways they take.
LEMMA FloatBoundsAre ==
  ASSUME NEW data \in Seq(Int), NEW m \in Machines
  PROVE  boundsFloat32(m, data) = TrueBounds(data) /\ boundsFloat64(m, data) = TrueBounds(data)
  <1>1. boundsFloat32Merge(m, data) = TrueBounds(data) /\ boundsFloat64Merge(m, data) = TrueBounds(data)
    BY MergeKernels, BoundsPair DEF boundsFloat32Merge, boundsFloat64Merge
  <1>2. CASE data = <<>>
    BY <1>2 DEF boundsFloat32, boundsFloat64, TrueBounds
  <1>3. CASE data # <<>>
    <2>1. ASSUME NEW k \in {2, 4}, Len(data) >= k * LanesOf(m)
          PROVE  /\ FastBounds(boundsFloat32Merge, m, data, k) = TrueBounds(data)
                 /\ FastBounds(boundsFloat64Merge, m, data, k) = TrueBounds(data)
      <3>1. LanesOf(m) \in Nat \ {0} /\ k \in Nat \ {0}
        BY KernelAssumption DEF LanesOf
      <3>2. CASE SumIsNaN(data, LanesOf(m), k)
        BY <1>1, <3>2 DEF FastBounds
      <3>3. CASE ~ SumIsNaN(data, LanesOf(m), k)
        BY <1>3, <2>1, <3>1, <3>3, NativeBounds DEF FastBounds
      <3> QED BY <3>2, <3>3
    <2>2. CASE m = "avx512" /\ Len(data) \in (4 * Lanes512) .. MaxSmallPage
      BY <1>3, <2>1, <2>2, KernelAssumption DEF LanesOf, boundsFloat32, boundsFloat64
    <2>3. CASE ~ (m = "avx512" /\ Len(data) \in (4 * Lanes512) .. MaxSmallPage) /\ m # "other" /\ Len(data) >= 2 * LanesOf(m)
      BY <1>3, <2>1, <2>3 DEF boundsFloat32, boundsFloat64
    <2>4. CASE ~ (m = "avx512" /\ Len(data) \in (4 * Lanes512) .. MaxSmallPage) /\ ~ (m # "other" /\ Len(data) >= 2 * LanesOf(m))
      BY <1>1, <1>3, <2>4 DEF boundsFloat32, boundsFloat64
    <2> QED BY <2>2, <2>3, <2>4
  <1> QED BY <1>2, <1>3

\* Each of four equal results.
LEMMA FourTimes == ASSUME NEW t PROVE \A i \in 1 .. 4 : << t, t, t, t >>[i] = t
  OBVIOUS

\* The kernels of floats.
LEMMA AllFloatBounds ==
  ASSUME NEW data \in Seq(Int), NEW m \in Machines
  PROVE  \A i \in 1 .. 4 : FloatBounds(m, data)[i] = TrueBounds(data)
  <1> DEFINE T == TrueBounds(data)
  <1>1. data \in Seq(Int)
    OBVIOUS
  <1>2. << minFloat32(m, data), maxFloat32(m, data) >> = T
    BY <1>1, MergeKernels, BoundsPair DEF minFloat32, maxFloat32
  <1>3. << minFloat64(m, data), maxFloat64(m, data) >> = T
    BY <1>1, MergeKernels, BoundsPair DEF minFloat64, maxFloat64
  <1>4. boundsFloat32(m, data) = T /\ boundsFloat64(m, data) = T
    BY <1>1, FloatBoundsAre
  <1> HIDE DEF T
  <1>5. FloatBounds(m, data) = << T, T, T, T >>
    BY <1>2, <1>3, <1>4 DEF FloatBounds
  <1> QED BY <1>5, FourTimes DEF T

\* The kernels of signed integers.
LEMMA AllSignedBounds ==
  ASSUME NEW data \in Seq(Int), NEW m \in Machines
  PROVE  \A i \in 1 .. 4 : SignedBounds(m, data)[i] = TrueBounds(data)
  <1> DEFINE T == TrueBounds(data)
  <1>1. data \in Seq(Int)
    OBVIOUS
  <1>2. << minInt32(m, data), maxInt32(m, data) >> = T
    BY <1>1, MergeKernels, BoundsPair DEF minInt32, maxInt32
  <1>3. << minInt64(m, data), maxInt64(m, data) >> = T
    BY <1>1, MergeKernels, BoundsPair DEF minInt64, maxInt64
  <1>4. boundsInt32(m, data) = T /\ boundsInt64(m, data) = T
    BY <1>1, MergeKernels, BoundsPair DEF boundsInt32, boundsInt64
  <1> HIDE DEF T
  <1>5. SignedBounds(m, data) = << T, T, T, T >>
    BY <1>2, <1>3, <1>4 DEF SignedBounds
  <1> QED BY <1>5, FourTimes DEF T

\* The kernels of unsigned integers.
LEMMA AllUnsignedBounds ==
  ASSUME NEW data \in Seq(Codes), NEW m \in Machines
  PROVE  \A i \in 1 .. 4 : UnsignedBounds(m, data)[i] = TrueBounds(data)
  <1> DEFINE T == TrueBounds(data)
  <1>1. data \in Seq(Int)
    BY DEF Codes
  <1>2. << minUint32(m, data), maxUint32(m, data) >> = T
    BY <1>1, MergeKernels, BoundsPair, BiasedKernels DEF minUint32, maxUint32
  <1>3. << minUint64(m, data), maxUint64(m, data) >> = T
    BY <1>1, MergeKernels, BoundsPair, BiasedKernels DEF minUint64, maxUint64
  <1>4. boundsUint32(m, data) = T /\ boundsUint64(m, data) = T
    BY <1>1, MergeKernels, BoundsPair, BiasedKernels DEF boundsUint32, boundsUint64
  <1> HIDE DEF T
  <1>5. UnsignedBounds(m, data) = << T, T, T, T >>
    BY <1>2, <1>3, <1>4 DEF UnsignedBounds
  <1> QED BY <1>5, FourTimes DEF T

-----------------------------------------------------------------------------
(* The bounds of the pages of 128-bit values.                                *)

\* The values of 128 bits of a page, each with its index, ranked by value, then index.
Places(codes, last) == {At(BE128Page(codes), i) : i \in 0 .. last}
Weight(c, n) == IF c = 0 THEN 0 ELSE IF c = 1 THEN n ELSE IF c = 2 THEN n + n ELSE n + n + n
PlaceRank(codes, isMax) ==
  [v \in Places(codes, Len(codes) - 1) |->
      Weight(IF isMax THEN 3 - codes[v[3] + 1] ELSE codes[v[3] + 1], Len(codes)) + v[3]]

\* The order of two indexes.
Precedes(codes, isMax, i, j) ==
  \/ IF isMax THEN codes[i + 1] > codes[j + 1] ELSE codes[i + 1] < codes[j + 1]
  \/ codes[i + 1] = codes[j + 1] /\ i < j

OneOrder(isMax) == IF isMax THEN "beGreater" ELSE "beLower"
FirstOrder(isMax) == IF isMax THEN "beGreaterFirst" ELSE "beLowerFirst"

\* The two halves of a value compare as the value does.
LEMMA CodeParts ==
  ASSUME NEW a \in Codes, NEW b \in Codes
  PROVE  /\ (a \div 2 < b \div 2 \/ (a \div 2 = b \div 2 /\ a % 2 < b % 2)) <=> a < b
         /\ (a \div 2 = b \div 2 /\ a % 2 = b % 2) <=> a = b
  BY DEF Codes

WeightsCompare(a, b, n, i, j) ==
  /\ Weight(a, n) + i \in Int
  /\ Weight(a, n) + i < Weight(b, n) + j <=> a < b \/ (a = b /\ i < j)

\* Values come before indexes in a rank.
LEMMA WeightsRank ==
  ASSUME NEW a \in Codes, NEW b \in Codes, NEW n \in Nat, NEW i \in 0 .. (n - 1), NEW j \in 0 .. (n - 1)
  PROVE  WeightsCompare(a, b, n, i, j)
  BY DEF Codes, WeightsCompare, Weight

\* A place has the two halves of its value, and its index.
LEMMA PlaceIs ==
  ASSUME NEW codes \in Seq(Codes), NEW i \in 0 .. (Len(codes) - 1)
  PROVE  /\ codes[i + 1] \in Codes
         /\ At(BE128Page(codes), i)[1] = codes[i + 1] \div 2
         /\ At(BE128Page(codes), i)[2] = codes[i + 1] % 2
         /\ At(BE128Page(codes), i)[3] = i
  BY LenProperties, ElementOfSeq DEF At, BE128Page

\* The comparisons of the kernels are those of ranks; of equals, the later one loses.
LEMMA PlacesRanked ==
  ASSUME NEW codes \in Seq(Codes), NEW isMax \in BOOLEAN, NEW i \in 0 .. (Len(codes) - 1), NEW j \in 0 .. (Len(codes) - 1)
  PROVE  LET a == At(BE128Page(codes), i)
             b == At(BE128Page(codes), j)
             rank == PlaceRank(codes, isMax)
         IN  /\ rank[a] \in Int
             /\ rank[a] < rank[b] <=> Precedes(codes, isMax, i, j)
             /\ Better(FirstOrder(isMax), a, b) <=> Precedes(codes, isMax, i, j)
             /\ i > j => (Better(OneOrder(isMax), a, b) <=> Precedes(codes, isMax, i, j))
  <1> DEFINE a == At(BE128Page(codes), i)
             b == At(BE128Page(codes), j)
             rank == PlaceRank(codes, isMax)
             ca == codes[i + 1]
             cb == codes[j + 1]
             n == Len(codes)
  <1>1. /\ ca \in Codes /\ a[1] = ca \div 2 /\ a[2] = ca % 2 /\ a[3] = i
        /\ cb \in Codes /\ b[1] = cb \div 2 /\ b[2] = cb % 2 /\ b[3] = j
    BY PlaceIs
  <1>2. n \in Nat /\ i \in 0 .. (n - 1) /\ j \in 0 .. (n - 1)
    BY LenProperties
  <1>3. a \in Places(codes, Len(codes) - 1) /\ b \in Places(codes, Len(codes) - 1)
    BY DEF Places
  <1>4. /\ rank[a] = Weight(IF isMax THEN 3 - ca ELSE ca, n) + i
        /\ rank[b] = Weight(IF isMax THEN 3 - cb ELSE cb, n) + j
    <2>1. /\ rank[a] = Weight(IF isMax THEN 3 - codes[a[3] + 1] ELSE codes[a[3] + 1], n) + a[3]
          /\ rank[b] = Weight(IF isMax THEN 3 - codes[b[3] + 1] ELSE codes[b[3] + 1], n) + b[3]
      BY <1>3, Zenon DEF PlaceRank
    <2> HIDE DEF a, b, rank
    <2> QED BY <1>1, <2>1
  <1>5. /\ BELower(a, b) <=> ca < cb
        /\ BELower(b, a) <=> cb < ca
        /\ (a[1] = b[1] /\ a[2] = b[2]) <=> ca = cb
    <2> HIDE DEF a, b, ca, cb
    <2> QED BY <1>1, CodeParts DEF BELower
  <1>6. Precedes(codes, isMax, i, j) <=> (IF isMax THEN ca > cb ELSE ca < cb) \/ (ca = cb /\ i < j)
    BY DEF Precedes
  <1> HIDE DEF a, b, rank, ca, cb, n
  <1>7. 3 - ca \in Codes /\ 3 - cb \in Codes /\ ca \in Int /\ cb \in Int
    BY <1>1 DEF Codes
  <1>8. rank[a] \in Int /\ (rank[a] < rank[b] <=> Precedes(codes, isMax, i, j))
    <2>1. CASE isMax
      <3>1. WeightsCompare(3 - ca, 3 - cb, n, i, j)
        BY <1>2, <1>7, WeightsRank
      <3>2. rank[a] = Weight(3 - ca, n) + i /\ rank[b] = Weight(3 - cb, n) + j
        BY <1>4, <2>1
      <3>3. Precedes(codes, isMax, i, j) <=> ca > cb \/ (ca = cb /\ i < j)
        BY <1>6, <2>1
      <3> QED BY <1>7, <3>1, <3>2, <3>3 DEF WeightsCompare
    <2>2. CASE ~ isMax
      <3>1. WeightsCompare(ca, cb, n, i, j)
        BY <1>1, <1>2, WeightsRank
      <3>2. rank[a] = Weight(ca, n) + i /\ rank[b] = Weight(cb, n) + j
        BY <1>4, <2>2
      <3>3. Precedes(codes, isMax, i, j) <=> ca < cb \/ (ca = cb /\ i < j)
        BY <1>6, <2>2
      <3> QED BY <3>1, <3>2, <3>3 DEF WeightsCompare
    <2> QED BY <2>1, <2>2
  <1>9. Better(FirstOrder(isMax), a, b) <=> Precedes(codes, isMax, i, j)
    BY <1>1, <1>5, <1>6, <1>7 DEF Better, FirstOrder, BELowerFirst, BEGreaterFirst
  <1>10. ASSUME i > j PROVE Better(OneOrder(isMax), a, b) <=> Precedes(codes, isMax, i, j)
    BY <1>10, <1>2, <1>5, <1>6, <1>7 DEF Better, OneOrder
  <1> QED BY <1>8, <1>9, <1>10 DEF a, b, rank

\* A page of 128-bit values has as many as there are codes.
LEMMA PageLength ==
  ASSUME NEW codes \in Seq(Codes)
  PROVE  /\ Len(BE128Page(codes)) = Len(codes) /\ Len(codes) \in Nat
         /\ DOMAIN codes = 1 .. Len(codes)
  BY LenProperties DEF BE128Page

\* Candidates that come one after the other are ranked.
LEMMA RisingRanked ==
  ASSUME NEW codes \in Seq(Codes), NEW isMax \in BOOLEAN, NEW n \in Nat, NEW q \in 0 .. (Len(codes) - 1), NEW at,
         \A i \in 1 .. n : at[i] \in 0 .. (Len(codes) - 1) /\ q < at[i] /\ \A j \in 1 .. (i - 1) : at[j] < at[i],
         NEW cs, \A i \in 1 .. n : cs[i] = At(BE128Page(codes), at[i])
  PROVE  Ranked(OneOrder(isMax), At(BE128Page(codes), q), cs, n, {}, PlaceRank(codes, isMax))
  <1> DEFINE P(i) == At(BE128Page(codes), i)
             rank == PlaceRank(codes, isMax)
  <1>1. ASSUME NEW i \in 1 .. n, NEW b \in {P(q)} \cup {cs[j] : j \in 1 .. (i - 1)}
        PROVE  Better(OneOrder(isMax), cs[i], b) <=> rank[cs[i]] < rank[b]
    <2>1. \E p \in 0 .. (Len(codes) - 1) : b = P(p) /\ at[i] > p
      <3>1. CASE b = P(q)
        BY <3>1, PageLength
      <3>2. CASE \E j \in 1 .. (i - 1) : b = cs[j]
        <4>1. PICK j \in 1 .. (i - 1) : b = cs[j]
          BY <3>2
        <4>2. j \in 1 .. n
          OBVIOUS
        <4>3. b = P(at[j]) /\ at[j] \in 0 .. (Len(codes) - 1) /\ at[i] \in 0 .. (Len(codes) - 1) /\ at[j] < at[i]
          BY <4>1, <4>2
        <4>4. at[i] > at[j]
          BY <4>3
        <4> QED BY <4>3, <4>4
      <3> QED BY <3>1, <3>2
    <2>2. PICK p \in 0 .. (Len(codes) - 1) : b = P(p) /\ at[i] > p
      BY <2>1
    <2>3. cs[i] = P(at[i]) /\ at[i] \in 0 .. (Len(codes) - 1)
      OBVIOUS
    <2>4. /\ rank[P(at[i])] < rank[P(p)] <=> Precedes(codes, isMax, at[i], p)
          /\ Better(OneOrder(isMax), P(at[i]), P(p)) <=> Precedes(codes, isMax, at[i], p)
      BY <2>2, <2>3, PlacesRanked
    <2> QED BY <2>2, <2>3, <2>4
  <1> QED BY <1>1 DEF Ranked

\* A run over rising places, from what won before them.
Run(codes, isMax, n, q, at, cs, base, D, before, S) ==
  /\ \A i \in 1 .. n : at[i] \in 0 .. (Len(codes) - 1) /\ q < at[i] /\ \A j \in 1 .. (i - 1) : at[j] < at[i]
  /\ DOMAIN cs = 1 .. n /\ \A i \in 1 .. n : cs[i] = At(BE128Page(codes), at[i])
  /\ D \in SUBSET Places(codes, Len(codes) - 1) /\ base \in D /\ \A i \in 1 .. n : cs[i] \in D
  /\ Wins(At(BE128Page(codes), q), base, before, D, {}, PlaceRank(codes, isMax))
  /\ S \in SUBSET D /\ \A u \in S : u \in before \/ \E i \in 1 .. n : u = cs[i]

\* It wins in all of them.
LEMMA RunWins ==
  ASSUME NEW codes \in Seq(Codes), NEW isMax \in BOOLEAN, NEW n \in Nat, NEW q \in 0 .. (Len(codes) - 1), NEW at, NEW cs,
         NEW base, NEW D, NEW before, NEW S, Run(codes, isMax, n, q, at, cs, base, D, before, S)
  PROVE  Wins(BestOf(OneOrder(isMax), At(BE128Page(codes), q), cs), base, S, D, {}, PlaceRank(codes, isMax))
  <1> DEFINE first == At(BE128Page(codes), q)
             rank == PlaceRank(codes, isMax)
             order == OneOrder(isMax)
             part == [i \in 0 .. n |-> IF i = 0 THEN before ELSE {cs[i]}]
  <1>1. Ranked(order, first, cs, n, {}, rank)
    BY RisingRanked DEF Run
  <1>2. \A v \in D : rank[v] \in Int
    BY PlacesRanked DEF Run, Places
  <1>3. /\ Wins(first, base, before, D, {}, rank)
        /\ DOMAIN cs = 1 .. n /\ base \in D /\ \A i \in 1 .. n : cs[i] \in D
        /\ S \in SUBSET D /\ \A u \in S : u \in before \/ \E i \in 1 .. n : u = cs[i]
    BY DEF Run
  <1> HIDE DEF first, rank, order
  <1>4. part[0] = before /\ \A i \in 1 .. n : part[i] = {cs[i]} /\ i \in 0 .. n
    OBVIOUS
  <1>5. 0 \in 0 .. n
    OBVIOUS
  <1> HIDE DEF part
  <1>6. Wins(first, base, part[0], D, {}, rank)
    BY <1>3, <1>4
  <1>7. \A i \in 1 .. n : Wins(cs[i], base, part[i], D, {}, rank)
    <2> TAKE i \in 1 .. n
    <2>1. rank[cs[i]] <= rank[cs[i]]
      BY <1>2, <1>3
    <2> QED BY <1>3, <1>4, <2>1 DEF Wins
  <1>8. \A u \in S : \E i \in 0 .. n : u \in part[i]
    BY <1>3, <1>4, <1>5
  <1>9. Wins(BestOf(order, first, cs), base, S, D, {}, rank)
    BY <1>1, <1>2, <1>3, <1>6, <1>7, <1>8, WinsRanked
  <1> QED BY <1>9 DEF first, rank, order

\* The scan of 128-bit values returns the index of a place that wins.
LEMMA ScalarBEWins ==
  ASSUME NEW codes \in Seq(Codes), Len(codes) >= 1, NEW isMax \in BOOLEAN
  PROVE  \E v : /\ minMaxBE128Scalar(BE128Page(codes), isMax) = v[3]
                /\ Wins(v, At(BE128Page(codes), 0), Places(codes, Len(codes) - 1), Places(codes, Len(codes) - 1),
                        {}, PlaceRank(codes, isMax))
  <1> DEFINE N == Len(codes)
             P(i) == At(BE128Page(codes), i)
             D == Places(codes, N - 1)
             n == N - 1
             at == [i \in 1 .. n |-> i]
             cs == [i \in 1 .. n |-> P(i)]
             rank == PlaceRank(codes, isMax)
  <1>1. N \in Nat /\ n \in Nat /\ Len(BE128Page(codes)) = N
    BY PageLength
  <1>2. minMaxBE128Scalar(BE128Page(codes), isMax) = BestOf(OneOrder(isMax), P(0), cs)[3]
    BY <1>1 DEF minMaxBE128Scalar, OneOrder
  <1>3. D = {P(i) : i \in 0 .. n}
    BY DEF Places
  <1>4. rank[P(0)] \in Int /\ 0 \in 0 .. n
    BY <1>1, PlacesRanked
  <1>5. Wins(P(0), P(0), {P(0)}, D, {}, rank)
    <2>1. rank[P(0)] <= rank[P(0)] /\ P(0) \in D
      BY <1>3, <1>4
    <2> HIDE DEF P, D, rank
    <2> QED BY <2>1 DEF Wins
  <1> DEFINE R == Wins(BestOf(OneOrder(isMax), P(0), cs), P(0), D, D, {}, rank)
  <1>6. R
    <2>1. \A i \in 1 .. n : at[i] \in 0 .. (Len(codes) - 1) /\ 0 < at[i] /\ \A j \in 1 .. (i - 1) : at[j] < at[i]
      BY <1>1
    <2>2. DOMAIN cs = 1 .. n /\ (\A i \in 1 .. n : cs[i] = At(BE128Page(codes), at[i])) /\ (\A i \in 1 .. n : cs[i] \in D)
      BY <1>1, <1>3
    <2>3. \A u \in D : u \in {P(0)} \/ \E i \in 1 .. n : u = cs[i]
      BY <1>1, <1>3
    <2>4. P(0) \in D
      BY <1>3, <1>4
    <2>5. 0 \in 0 .. (Len(codes) - 1) /\ D \in SUBSET Places(codes, Len(codes) - 1) /\ D \in SUBSET D
      BY <1>4
    <2>6. n \in Nat
      BY <1>1
    <2>7. Run(codes, isMax, n, 0, at, cs, P(0), D, {P(0)}, D)
      <3> HIDE DEF at, cs, D, n
      <3> QED BY <1>5, <2>1, <2>2, <2>3, <2>4, <2>5 DEF Run
    <2> HIDE DEF at, cs, D, n
    <2> QED BY <2>5, <2>6, <2>7, RunWins
  <1> QED BY <1>2, <1>6

\* What one lane sees of the chunks of L values.
LaneBESees(codes, L, chunks, lane) == {At(BE128Page(codes), j * L + lane) : j \in 0 .. (chunks - 1)}

\* The chunks of a page that has one.
Chunked(codes, L, chunks) ==
  /\ L \in Nat \ {0} /\ chunks \in Nat \ {0} /\ L = Lanes512
  /\ chunks = Len(codes) \div L /\ chunks * L \in Nat /\ chunks * L <= Len(codes)

\* A page of at least one vector has chunks.
LEMMA ChunksAre ==
  ASSUME NEW codes \in Seq(Codes), Len(codes) >= Lanes512
  PROVE  Chunked(codes, Lanes512, Len(codes) \div Lanes512)
  <1>1. Len(codes) \in Nat /\ Lanes512 \in Nat \ {0}
    BY PageLength, KernelAssumption
  <1> DEFINE n == Len(codes)
             L == Lanes512
             chunks == n \div L
  <1>2. n \in Nat /\ L \in Nat \ {0} /\ n >= L
    BY <1>1
  <1> HIDE DEF n, L
  <1>3. chunks \in Nat /\ chunks * L <= n /\ n < chunks * L + L
    BY <1>2, DivisionOf
  <1>4. chunks # 0 /\ chunks * L \in Nat
    <2> HIDE DEF chunks
    <2>1. chunks = 0 => chunks * L = 0
      BY <1>2
    <2> QED BY <1>2, <1>3, <2>1, ProductOrder
  <1> QED BY <1>2, <1>3, <1>4 DEF Chunked, n, L

\* The places of a lane.
LEMMA LanePlaces ==
  ASSUME NEW L \in Nat \ {0}, NEW chunks \in Nat \ {0}, NEW lane \in 0 .. (L - 1), NEW j \in 0 .. (chunks - 1)
  PROVE  /\ j * L + lane \in 0 .. (chunks * L - 1)
         /\ j >= 1 => lane < j * L + lane
         /\ \A i \in 0 .. (j - 1) : i * L + lane < j * L + lane
  <1>1. j \in Nat /\ j * L \in Nat /\ chunks * L \in Nat /\ (j + 1) * L = j * L + L /\ (j + 1) * L <= chunks * L
    BY ProductOrder
  <1>2. j * L + lane \in 0 .. (chunks * L - 1)
    <2> DEFINE x == j * L
               y == chunks * L
    <2>1. x \in Nat /\ y \in Nat /\ x + L <= y
      BY <1>1
    <2> HIDE DEF x, y
    <2>2. x + lane \in 0 .. (y - 1)
      BY <2>1
    <2> QED BY <2>2 DEF x, y
  <1>3. ASSUME j >= 1 PROVE lane < j * L + lane
    BY <1>1, <1>3, ProductOrder
  <1>4. ASSUME NEW i \in 0 .. (j - 1) PROVE i * L + lane < j * L + lane
    BY <1>1, ProductOrder
  <1> QED BY <1>2, <1>3, <1>4

\* A lane wins in what it sees.
LEMMA LaneBEWins ==
  ASSUME NEW codes \in Seq(Codes), NEW L, NEW chunks, Chunked(codes, L, chunks), NEW isMax \in BOOLEAN,
         NEW lane \in 0 .. (L - 1)
  PROVE  Wins(LaneBE128(BE128Page(codes), isMax, lane), At(BE128Page(codes), 0), LaneBESees(codes, L, chunks, lane),
              Places(codes, chunks * L - 1), {}, PlaceRank(codes, isMax))
  <1> DEFINE N == Len(codes)
             P(i) == At(BE128Page(codes), i)
             T == chunks * L
             D == Places(codes, T - 1)
             n == chunks - 1
             at == [j \in 1 .. n |-> j * L + lane]
             cs == [j \in 1 .. n |-> P(j * L + lane)]
             rank == PlaceRank(codes, isMax)
             S == LaneBESees(codes, L, chunks, lane)
  <1>1. N \in Nat /\ Len(BE128Page(codes)) = N
    BY PageLength
  <1>2. L \in Nat \ {0} /\ chunks \in Nat \ {0} /\ n \in Nat /\ chunks = N \div L /\ L = Lanes512 /\ T \in Nat /\ T <= N
    BY DEF Chunked
  <1>3. LaneBE128(BE128Page(codes), isMax, lane) = BestOf(OneOrder(isMax), P(lane), cs)
    BY <1>1, <1>2 DEF LaneBE128, OneOrder
  <1>4. \A j \in 0 .. n : j * L + lane \in 0 .. (T - 1)
    BY <1>2, LanePlaces
  <1>5. 0 * L + lane = lane /\ 0 \in 0 .. n /\ lane \in 0 .. (T - 1)
    BY <1>2, <1>4
  <1>6. D = {P(i) : i \in 0 .. (T - 1)} /\ S = {P(j * L + lane) : j \in 0 .. n}
    BY DEF Places, LaneBESees
  <1>7. \A i \in 0 .. (T - 1) : i \in 0 .. (N - 1)
    <2> HIDE DEF T, N
    <2> QED BY <1>1, <1>2
  <1>8. D \in SUBSET Places(codes, N - 1)
    BY <1>6, <1>7 DEF Places
  <1>9. Run(codes, isMax, n, lane, at, cs, P(0), D, {P(lane)}, S)
    <2>1. \A i \in 1 .. n : at[i] \in 0 .. (N - 1) /\ lane < at[i] /\ \A j \in 1 .. (i - 1) : at[j] < at[i]
      <3> TAKE i \in 1 .. n
      <3>1. i \in 0 .. n /\ i >= 1 /\ n = chunks - 1 /\ i \in 0 .. (chunks - 1)
        BY <1>2
      <3>2. lane < i * L + lane /\ \A j \in 0 .. (i - 1) : j * L + lane < i * L + lane
        BY <1>2, <3>1, LanePlaces
      <3>3. \A j \in 1 .. (i - 1) : j \in 0 .. (i - 1) /\ j \in 1 .. n
        BY <1>2
      <3>4. at[i] = i * L + lane /\ \A j \in 1 .. (i - 1) : at[j] = j * L + lane
        BY <3>3
      <3> HIDE DEF at
      <3> QED BY <1>4, <1>7, <3>1, <3>2, <3>3, <3>4
    <2>2. DOMAIN cs = 1 .. n /\ \A i \in 1 .. n : cs[i] = P(at[i])
      OBVIOUS
    <2>3. \A i \in 1 .. n : i \in 0 .. n
      BY <1>2
    <2>4. \A i \in 1 .. n : cs[i] \in D
      BY <1>4, <1>6, <2>3
    <2>5. P(0) \in D
      <3>1. 0 \in 0 .. (T - 1)
        <4> HIDE DEF T
        <4> QED BY <1>2, <1>5
      <3> QED BY <1>6, <3>1
    <2>6. Wins(P(lane), P(0), {P(lane)}, D, {}, rank)
      <3>1. rank[P(lane)] \in Int
        BY <1>5, <1>7, PlacesRanked
      <3>2. rank[P(lane)] <= rank[P(lane)] /\ P(lane) \in D
        BY <1>5, <1>6, <3>1
      <3> HIDE DEF P, D, rank
      <3> QED BY <3>2 DEF Wins
    <2>7. S \in SUBSET D
      BY <1>4, <1>6
    <2>8. \A u \in S : u \in {P(lane)} \/ \E i \in 1 .. n : u = cs[i]
      <3> TAKE u \in S
      <3>1. PICK j \in 0 .. n : u = P(j * L + lane)
        BY <1>6
      <3>2. CASE j = 0
        BY <1>5, <3>1, <3>2
      <3>3. CASE j # 0
        <4>1. j \in 1 .. n
          BY <1>2, <3>3
        <4> QED BY <3>1, <4>1
      <3> QED BY <3>2, <3>3
    <2> HIDE DEF at, cs, D, n, S, T
    <2> QED BY <1>8, <2>1, <2>2, <2>4, <2>5, <2>6, <2>7, <2>8 DEF Run
  <1>10. lane \in 0 .. (Len(codes) - 1) /\ n \in Nat
    BY <1>2, <1>5, <1>7
  <1> HIDE DEF n, at, cs, D, S
  <1>11. Wins(BestOf(OneOrder(isMax), P(lane), cs), P(0), S, D, {}, rank)
    BY <1>9, <1>10, RunWins
  <1> QED BY <1>3, <1>11 DEF S, D

\* Every place below chunks * L is one of a lane.
LEMMA PlaceLane ==
  ASSUME NEW L \in Nat \ {0}, NEW chunks \in Nat \ {0}, NEW p \in 0 .. (chunks * L - 1)
  PROVE  \E lane \in 0 .. (L - 1) : \E j \in 0 .. (chunks - 1) : p = j * L + lane
  <1> DEFINE j == p \div L
             x == j * L
             lane == p - x
  <1>1. chunks * L \in Nat /\ p \in Nat
    BY ProductOrder
  <1>2. j \in Nat /\ x <= p /\ p < x + L
    BY <1>1, DivisionOf
  <1> HIDE DEF j
  <1>3. x \in Nat
    BY <1>2, ProductOrder
  <1>4. j < chunks
    <2>1. x < chunks * L
      <3> DEFINE y == chunks * L
      <3>1. p < y /\ y \in Nat
        BY <1>1
      <3> HIDE DEF x, y
      <3> QED BY <1>1, <1>2, <1>3, <3>1 DEF y
    <2> QED BY <1>2, <2>1, ProductOrder
  <1> HIDE DEF x
  <1>5. lane \in 0 .. (L - 1) /\ j \in 0 .. (chunks - 1) /\ p = x + lane
    BY <1>1, <1>2, <1>3, <1>4
  <1> QED BY <1>5 DEF x

\* The lanes together win in all of the chunks.
LEMMA MergedBEWins ==
  ASSUME NEW codes \in Seq(Codes), NEW L, NEW chunks, Chunked(codes, L, chunks), NEW isMax \in BOOLEAN
  PROVE  Wins(MergedBE128(BE128Page(codes), isMax), At(BE128Page(codes), 0), Places(codes, chunks * L - 1),
              Places(codes, chunks * L - 1), {}, PlaceRank(codes, isMax))
  <1> DEFINE P(i) == At(BE128Page(codes), i)
             T == chunks * L
             D == Places(codes, T - 1)
             Of(lane) == LaneBE128(BE128Page(codes), isMax, lane)
             Sees(lane) == LaneBESees(codes, L, chunks, lane)
             cs == [k \in 1 .. (L - 1) |-> Of(k)]
             part == [k \in 0 .. (L - 1) |-> Sees(k)]
             rank == PlaceRank(codes, isMax)
  <1>1. L \in Nat \ {0} /\ chunks \in Nat \ {0} /\ L = Lanes512 /\ T \in Nat /\ T <= Len(codes) /\ Len(codes) \in Nat
    BY PageLength DEF Chunked
  <1>2. MergedBE128(BE128Page(codes), isMax) = BestOf(FirstOrder(isMax), Of(0), cs)
    BY <1>1 DEF MergedBE128, FirstOrder
  <1>3. \A lane \in 0 .. (L - 1) : Wins(Of(lane), P(0), Sees(lane), D, {}, rank)
    BY LaneBEWins
  <1>4. D = {P(i) : i \in 0 .. (T - 1)}
    BY DEF Places
  <1>5. \A i \in 0 .. (T - 1) : i \in 0 .. (Len(codes) - 1)
    <2> HIDE DEF T
    <2> QED BY <1>1
  <1>6. (\A v \in D : rank[v] \in Int) /\ OrderRanks(FirstOrder(isMax), D, {}, rank)
    <2>1. \A i \in 0 .. (T - 1) : rank[P(i)] \in Int
      BY <1>5, PlacesRanked
    <2>2. \A i \in 0 .. (T - 1) : \A j \in 0 .. (T - 1) : Better(FirstOrder(isMax), P(i), P(j)) <=> rank[P(i)] < rank[P(j)]
      BY <1>5, PlacesRanked
    <2> HIDE DEF P, rank, D
    <2> QED BY <1>4, <2>1, <2>2 DEF OrderRanks
  <1>7. \A u \in D : \E lane \in 0 .. (L - 1) : u \in Sees(lane)
    <2> TAKE u \in D
    <2>1. PICK p \in 0 .. (T - 1) : u = P(p)
      BY <1>4
    <2>2. PICK lane \in 0 .. (L - 1), j \in 0 .. (chunks - 1) : p = j * L + lane
      BY <1>1, <2>1, PlaceLane
    <2>3. u \in Sees(lane)
      BY <2>1, <2>2 DEF LaneBESees
    <2> QED BY <2>3
  <1>8. P(0) \in D
    <2>1. 0 \in 0 .. (L - 1) /\ 0 \in 0 .. (chunks - 1)
      BY <1>1
    <2>2. 0 * L + 0 \in 0 .. (T - 1)
      BY <1>1, <2>1, LanePlaces
    <2>3. 0 * L + 0 = 0
      BY <1>1
    <2> QED BY <1>4, <2>2, <2>3
  <1> HIDE DEF Of, Sees, D, P, rank
  <1>9. L - 1 \in Nat /\ 0 \in 0 .. (L - 1) /\ \A k \in 1 .. (L - 1) : k \in 0 .. (L - 1)
    BY <1>1
  <1>10. /\ DOMAIN cs = 1 .. (L - 1)
         /\ Wins(Of(0), P(0), part[0], D, {}, rank)
         /\ \A k \in 1 .. (L - 1) : Wins(cs[k], P(0), part[k], D, {}, rank)
         /\ \A u \in D : \E k \in 0 .. (L - 1) : u \in part[k]
    BY <1>3, <1>7, <1>9
  <1>11. D \in SUBSET D
    OBVIOUS
  <1> HIDE DEF cs, part
  <1>12. Wins(BestOf(FirstOrder(isMax), Of(0), cs), P(0), D, D, {}, rank)
    BY <1>6, <1>8, <1>9, <1>10, <1>11, WinsParts
  <1> QED BY <1>2, <1>12 DEF D, P, rank

\* With the remainder, the vector kernel returns the index of a place that wins.
LEMMA VectorBEWins ==
  ASSUME NEW codes \in Seq(Codes), Len(codes) >= Lanes512, Len(codes) >= 1, NEW isMax \in BOOLEAN
  PROVE  \E v : /\ minMaxBE128SIMD(BE128Page(codes), isMax) = v[3]
                /\ Wins(v, At(BE128Page(codes), 0), Places(codes, Len(codes) - 1), Places(codes, Len(codes) - 1),
                        {}, PlaceRank(codes, isMax))
  <1> DEFINE N == Len(codes)
             P(i) == At(BE128Page(codes), i)
             L == Lanes512
             chunks == N \div L
             T == chunks * L
             D == Places(codes, N - 1)
             before == Places(codes, T - 1)
             n == N - T
             at == [i \in 1 .. n |-> T + i - 1]
             cs == [i \in 1 .. n |-> P(T + i - 1)]
             rank == PlaceRank(codes, isMax)
             merged == MergedBE128(BE128Page(codes), isMax)
  <1>1. N \in Nat /\ Len(BE128Page(codes)) = N
    BY PageLength
  <1>2. Chunked(codes, L, chunks)
    BY ChunksAre
  <1>3. L \in Nat \ {0} /\ chunks \in Nat \ {0} /\ T \in Nat /\ T <= N
    BY <1>2 DEF Chunked
  <1>4. minMaxBE128SIMD(BE128Page(codes), isMax) = BestOf(OneOrder(isMax), merged, cs)[3]
    BY <1>1 DEF minMaxBE128SIMD, OneOrder
  <1>5. Wins(merged, P(0), before, before, {}, rank)
    BY <1>2, MergedBEWins
  <1>6. D = {P(i) : i \in 0 .. (N - 1)} /\ before = {P(i) : i \in 0 .. (T - 1)}
    BY DEF Places
  <1> HIDE DEF chunks, T, N, L, merged
  <1>7. \A i \in 0 .. (T - 1) : i \in 0 .. (N - 1)
    BY <1>1, <1>3
  <1>8. PICK q \in 0 .. (T - 1) : merged = P(q)
    <2> HIDE DEF P, rank
    <2> QED BY <1>5, <1>6 DEF Wins
  <1>9. before \in SUBSET D
    BY <1>6, <1>7
  <1>10. Wins(P(q), P(0), before, D, {}, rank)
    <2> HIDE DEF P, rank, D, before
    <2> QED BY <1>5, <1>8, <1>9 DEF Wins
  <1>11. Run(codes, isMax, n, q, at, cs, P(0), D, before, D)
    <2>1. \A i \in 1 .. n : at[i] \in 0 .. (N - 1) /\ q < at[i] /\ \A j \in 1 .. (i - 1) : at[j] < at[i]
      BY <1>1, <1>3
    <2>2. DOMAIN cs = 1 .. n /\ (\A i \in 1 .. n : cs[i] = P(at[i])) /\ \A i \in 1 .. n : cs[i] \in D
      BY <1>6, <2>1
    <2>3. 0 \in 0 .. (N - 1)
      BY <1>1 DEF N
    <2>4. P(0) \in D /\ D \in SUBSET D /\ D \in SUBSET Places(codes, N - 1)
      BY <1>6, <2>3
    <2>5. \A u \in D : u \in before \/ \E i \in 1 .. n : u = cs[i]
      <3> TAKE u \in D
      <3>1. PICK p \in 0 .. (N - 1) : u = P(p)
        BY <1>6
      <3>2. CASE p < T
        BY <1>3, <1>6, <3>1, <3>2
      <3>3. CASE p >= T
        <4>1. p - T + 1 \in 1 .. n /\ T + (p - T + 1) - 1 = p
          BY <1>1, <1>3, <3>3
        <4>2. cs[p - T + 1] = P(p)
          BY <4>1
        <4> QED BY <3>1, <4>1, <4>2
      <3> QED BY <1>1, <1>3, <3>2, <3>3
    <2> HIDE DEF at, cs, D, n, before, P, rank
    <2> QED BY <1>10, <2>1, <2>2, <2>4, <2>5 DEF Run, N, P, D, rank
  <1>12. n \in Nat /\ q \in 0 .. (Len(codes) - 1)
    BY <1>1, <1>3, <1>7 DEF N
  <1> HIDE DEF n, at, cs, D, before
  <1>13. Wins(BestOf(OneOrder(isMax), P(q), cs), P(0), D, D, {}, rank)
    BY <1>11, <1>12, RunWins
  <1> QED BY <1>4, <1>8, <1>13 DEF D, N

\* The place that wins is the first of the best value.
LEMMA PlaceFound ==
  ASSUME NEW codes \in Seq(Codes), Len(codes) >= 1, NEW isMax \in BOOLEAN, NEW v,
         Wins(v, At(BE128Page(codes), 0), Places(codes, Len(codes) - 1), Places(codes, Len(codes) - 1),
              {}, PlaceRank(codes, isMax))
  PROVE  v[3] = FirstAt(codes, IF isMax THEN Greatest(Members(codes)) ELSE Least(Members(codes)))
  <1> DEFINE N == Len(codes)
             P(i) == At(BE128Page(codes), i)
             D == Places(codes, N - 1)
             rank == PlaceRank(codes, isMax)
             best == IF isMax THEN Greatest(Members(codes)) ELSE Least(Members(codes))
  <1>1. N \in Nat /\ DOMAIN codes = 1 .. N /\ \A i \in 1 .. N : codes[i] \in Codes
    BY PageLength, ElementOfSeq
  <1>2. D = {P(i) : i \in 0 .. (N - 1)}
    BY DEF Places
  <1>3. v \in D /\ \A u \in D : rank[v] <= rank[u]
    <2> HIDE DEF D, rank
    <2> QED BY DEF Wins, D, rank
  <1>4. PICK q \in 0 .. (N - 1) : v = P(q)
    BY <1>2, <1>3
  <1>5. v[3] = q
    BY <1>4, PlaceIs
  <1>6. \A i \in 0 .. (N - 1) : ~ Precedes(codes, isMax, i, q)
    <2> TAKE i \in 0 .. (N - 1)
    <2>1. rank[P(q)] <= rank[P(i)]
      BY <1>2, <1>3, <1>4
    <2>2. rank[P(i)] \in Int /\ rank[P(q)] \in Int /\ (rank[P(i)] < rank[P(q)] <=> Precedes(codes, isMax, i, q))
      BY PlacesRanked
    <2> HIDE DEF rank, P
    <2> QED BY <2>1, <2>2
  <1>7. q + 1 \in 1 .. N /\ \A i \in 1 .. N : i - 1 \in 0 .. (N - 1) /\ (i - 1) + 1 = i
    BY <1>1
  <1> HIDE DEF N
  <1>8. \A i \in 1 .. N : ~ Precedes(codes, isMax, i - 1, q)
    BY <1>6, <1>7
  <1>9. \A i \in 1 .. N : /\ IF isMax THEN codes[i] <= codes[q + 1] ELSE codes[i] >= codes[q + 1]
                          /\ i < q + 1 => codes[i] # codes[q + 1]
    BY <1>1, <1>7, <1>8 DEF Precedes, Codes
  <1>10. codes[q + 1] \in Members(codes) /\ (\A u \in Members(codes) : \E i \in 1 .. N : u = codes[i])
         /\ Members(codes) \in SUBSET Codes
    BY <1>1, <1>7 DEF Members
  <1>11. best = codes[q + 1]
    <2> DEFINE w == codes[q + 1]
               M == Members(codes)
    <2>1. CASE isMax
      <3>1. w \in M /\ \A u \in M : w >= u
        BY <1>1, <1>7, <1>9, <1>10, <2>1 DEF Codes
      <3> HIDE DEF w
      <3>2. \A x \in M : (\A u \in M : x >= u) => x = w
        BY <1>10, <3>1 DEF Codes
      <3>3. Greatest(M) = w
        BY <3>1, <3>2 DEF Greatest
      <3> QED BY <2>1, <3>3 DEF w
    <2>2. CASE ~ isMax
      <3>1. w \in M /\ \A u \in M : w <= u
        BY <1>1, <1>7, <1>9, <1>10, <2>2 DEF Codes
      <3> HIDE DEF w
      <3>2. \A x \in M : (\A u \in M : x <= u) => x = w
        BY <1>10, <3>1 DEF Codes
      <3>3. Least(M) = w
        BY <3>1, <3>2 DEF Least
      <3> QED BY <2>2, <3>3 DEF w
    <2> QED BY <2>1, <2>2
  <1> HIDE DEF best
  <1> DEFINE Is(i) == codes[i] = best /\ \A j \in 1 .. (i - 1) : codes[j] # best
  <1>12. q + 1 \in DOMAIN codes /\ Is(q + 1)
    BY <1>1, <1>11, <1>7, <1>9
  <1>13. \A i \in DOMAIN codes : Is(i) => i = q + 1
    <2> TAKE i \in DOMAIN codes
    <2> SUFFICES ASSUME Is(i) PROVE i = q + 1
      OBVIOUS
    <2>1. ~ (i < q + 1)
      BY <1>1, <1>9, <1>11
    <2>2. ~ (q + 1 < i)
      <3> SUFFICES ASSUME q + 1 < i PROVE FALSE
        OBVIOUS
      <3>1. q + 1 \in 1 .. (i - 1)
        BY <1>1, <1>7
      <3> QED BY <1>11, <3>1
    <2> QED BY <1>1, <1>7, <2>1, <2>2
  <1>14. FirstAt(codes, best) = (CHOOSE i \in DOMAIN codes : Is(i)) - 1
    BY DEF FirstAt
  <1> HIDE DEF Is
  <1>15. (CHOOSE i \in DOMAIN codes : Is(i)) = q + 1
    BY <1>12, <1>13
  <1>16. (q + 1) - 1 = q
    OBVIOUS
  <1>17. FirstAt(codes, best) = v[3]
    BY <1>5, <1>14, <1>15, <1>16, Zenon
  <1> QED BY <1>17 DEF best

\* The kernels of 128 bits return the first place of the least and of the greatest value.
LEMMA BE128Found ==
  ASSUME NEW codes \in Seq(Codes), codes # <<>>, NEW m \in Machines, NEW isMax \in BOOLEAN
  PROVE  minMaxBE128(m, BE128Page(codes), isMax) =
           FirstAt(codes, IF isMax THEN Greatest(Members(codes)) ELSE Least(Members(codes)))
  <1>1. Len(codes) >= 1 /\ Len(BE128Page(codes)) = Len(codes)
    BY PageLength, EmptySeq, LenProperties
  <1>2. CASE m = "avx512" /\ Len(codes) >= Lanes512
    BY <1>1, <1>2, VectorBEWins, PlaceFound DEF minMaxBE128
  <1>3. CASE ~ (m = "avx512" /\ Len(codes) >= Lanes512)
    BY <1>1, <1>3, ScalarBEWins, PlaceFound DEF minMaxBE128
  <1> QED BY <1>2, <1>3

-----------------------------------------------------------------------------
(* The order of a page.                                                      *)

\* Neighbours that are related make all pairs related, if the relation is transitive.
Chained(data, R) ==
  /\ \A i \in 1 .. (Len(data) - 1) : <<data[i], data[i + 1]>> \in R
  /\ \A i \in DOMAIN data : \A j \in DOMAIN data : \A k \in DOMAIN data :
        <<data[i], data[j]>> \in R /\ <<data[j], data[k]>> \in R => <<data[i], data[k]>> \in R

\* By induction on the distance between the two.
LEMMA NeighboursSuffice ==
  ASSUME NEW data, Len(data) \in Nat, DOMAIN data = 1 .. Len(data), NEW R, Chained(data, R),
         NEW a \in DOMAIN data, NEW b \in DOMAIN data, a < b
  PROVE  <<data[a], data[b]>> \in R
  <1> DEFINE n == Len(data)
             Stage(d) == a + d + 1 <= n => <<data[a], data[a + d + 1]>> \in R
             Reached == {d \in Nat : Stage(d)}
  <1>0. a \in 1 .. n /\ b \in 1 .. n /\ n \in Nat
    OBVIOUS
  <1>1. Stage(0)
    <2> SUFFICES ASSUME a + 0 + 1 <= n PROVE <<data[a], data[a + 0 + 1]>> \in R
      OBVIOUS
    <2>1. a \in 1 .. (n - 1) /\ a + 0 + 1 = a + 1
      BY <1>0
    <2> QED BY <2>1 DEF Chained
  <1>2. ASSUME NEW d \in Nat, Stage(d) PROVE Stage(d + 1)
    <2> SUFFICES ASSUME a + (d + 1) + 1 <= n PROVE <<data[a], data[a + (d + 1) + 1]>> \in R
      OBVIOUS
    <2> DEFINE k == a + d + 1
    <2>1. k \in 1 .. (n - 1) /\ k \in DOMAIN data /\ k + 1 \in DOMAIN data /\ a + (d + 1) + 1 = k + 1 /\ k <= n
      BY <1>0
    <2>2. <<data[a], data[k]>> \in R
      BY <1>2, <2>1
    <2> HIDE DEF k
    <2>3. <<data[k], data[k + 1]>> \in R
      BY <2>1 DEF Chained
    <2> QED BY <2>1, <2>2, <2>3 DEF Chained
  <1> HIDE DEF Stage
  <1>3. Reached \in SUBSET Nat /\ 0 \in Reached /\ \A k \in Reached : k + 1 \in Reached
    BY <1>1, <1>2
  <1> HIDE DEF Reached
  <1>4. b - a - 1 \in Nat
    BY <1>0
  <1>5. b - a - 1 \in Reached
    BY <1>3, <1>4, SetInduction
  <1>6. a + (b - a - 1) + 1 = b /\ b <= n
    BY <1>0
  <1> QED BY <1>5, <1>6 DEF Reached, Stage

\* The pairs of a page and its neighbours.
LEMMA PageOf ==
  ASSUME NEW data \in Seq(Int), Len(data) >= 2
  PROVE  /\ Len(data) \in Nat /\ DOMAIN data = 1 .. Len(data) /\ \A i \in 1 .. Len(data) : data[i] \in Int
         /\ \A m \in Machines : PairsChecked(m, Len(data)) = 0 .. (Len(data) - 2)
         /\ \A i \in 0 .. (Len(data) - 2) : i + 1 \in 1 .. (Len(data) - 1) /\ i + 2 = (i + 1) + 1
         /\ \A i \in 1 .. (Len(data) - 1) : /\ i - 1 \in 0 .. (Len(data) - 2) /\ (i - 1) + 1 = i /\ (i - 1) + 2 = i + 1
                                            /\ i \in 1 .. Len(data) /\ i + 1 \in 1 .. Len(data) /\ i < i + 1
  BY LenProperties, ElementOfSeq, EveryPairCompared, KernelAssumption

\* The neighbours of a page are in an order if all of its pairs are.
InOrder(data, R) == \A i \in DOMAIN data : \A j \in DOMAIN data : i < j => <<data[i], data[j]>> \in R

\* For a transitive relation, the pairs that a machine compares suffice.
LEMMA NeighboursOrder ==
  ASSUME NEW data \in Seq(Int), Len(data) >= 2, NEW R,
         \A a \in Int : \A b \in Int : \A c \in Int : <<a, b>> \in R /\ <<b, c>> \in R => <<a, c>> \in R
  PROVE  /\ (\A i \in 1 .. (Len(data) - 1) : <<data[i], data[i + 1]>> \in R) <=> InOrder(data, R)
         /\ \A m \in Machines :
               (\A i \in PairsChecked(m, Len(data)) : <<data[i + 1], data[i + 2]>> \in R) <=> InOrder(data, R)
  <1> DEFINE Neighbours == \A i \in 1 .. (Len(data) - 1) : <<data[i], data[i + 1]>> \in R
  <1>1. Neighbours => InOrder(data, R)
    <2> SUFFICES ASSUME Neighbours PROVE InOrder(data, R)
      OBVIOUS
    <2>1. Chained(data, R)
      BY PageOf DEF Chained
    <2>2. Len(data) \in Nat /\ DOMAIN data = 1 .. Len(data)
      BY PageOf
    <2> QED BY <2>1, <2>2, NeighboursSuffice DEF InOrder
  <1>2. InOrder(data, R) => Neighbours
    BY PageOf DEF InOrder
  <1>3. \A m \in Machines : (\A i \in PairsChecked(m, Len(data)) : <<data[i + 1], data[i + 2]>> \in R) <=> Neighbours
    <2> TAKE m \in Machines
    <2>1. PairsChecked(m, Len(data)) = 0 .. (Len(data) - 2)
      BY PageOf
    <2>2. (\A i \in 0 .. (Len(data) - 2) : <<data[i + 1], data[i + 2]>> \in R) => Neighbours
      <3> SUFFICES ASSUME \A i \in 0 .. (Len(data) - 2) : <<data[i + 1], data[i + 2]>> \in R,
                          NEW i \in 1 .. (Len(data) - 1)
                   PROVE  <<data[i], data[i + 1]>> \in R
        OBVIOUS
      <3>1. i - 1 \in 0 .. (Len(data) - 2) /\ (i - 1) + 1 = i /\ (i - 1) + 2 = i + 1
        BY PageOf
      <3> QED BY <3>1
    <2>3. Neighbours => \A i \in 0 .. (Len(data) - 2) : <<data[i + 1], data[i + 2]>> \in R
      BY PageOf
    <2> QED BY <2>1, <2>2, <2>3
  <1> QED BY <1>1, <1>2, <1>3

\* The comparisons of the order kernels, as relations.
Rising == {p \in Int \X Int : p[1] <= p[2]}
Falling == {p \in Int \X Int : p[1] >= p[2]}
RisingNumbers == {p \in Int \X Int : p[1] # NaN /\ p[2] # NaN /\ p[1] <= p[2]}
FallingNumbers == {p \in Int \X Int : p[1] # NaN /\ p[2] # NaN /\ p[1] >= p[2]}

\* They are the comparisons.
LEMMA RelationsAre ==
  ASSUME NEW a \in Int, NEW b \in Int
  PROVE  /\ <<a, b>> \in Rising <=> a <= b
         /\ <<a, b>> \in Falling <=> a >= b
         /\ <<a, b>> \in RisingNumbers <=> LessEqual(a, b)
         /\ <<a, b>> \in FallingNumbers <=> GreaterEqual(a, b)
         /\ NotGreater(a, b) <=> a <= b
         /\ NotLess(a, b) <=> a >= b
  BY DEF Rising, Falling, RisingNumbers, FallingNumbers, LessEqual, GreaterEqual, NotGreater,
    NotLess

\* They are transitive.
LEMMA RelationsOrder ==
  ASSUME NEW R \in {Rising, Falling, RisingNumbers, FallingNumbers}
  PROVE  \A a \in Int : \A b \in Int : \A c \in Int : <<a, b>> \in R /\ <<b, c>> \in R => <<a, c>> \in R
  <1> TAKE a \in Int, b \in Int, c \in Int
  <1>1. CASE R = Rising
    BY <1>1, RelationsAre
  <1>2. CASE R = Falling
    BY <1>2, RelationsAre
  <1>3. CASE R = RisingNumbers
    BY <1>3, RelationsAre DEF LessEqual
  <1>4. CASE R = FallingNumbers
    BY <1>4, RelationsAre DEF GreaterEqual
  <1> QED BY <1>1, <1>2, <1>3, <1>4

\* The pairs of the property are in these relations.
LEMMA PairsInOrder ==
  ASSUME NEW data \in Seq(Int), Len(data) >= 2
  PROVE  /\ Pairs(data, NotGreater) = InOrder(data, Rising)
         /\ Pairs(data, NotLess) = InOrder(data, Falling)
         /\ Pairs(data, LessEqual) = InOrder(data, RisingNumbers)
         /\ Pairs(data, GreaterEqual) = InOrder(data, FallingNumbers)
  BY PageOf, RelationsAre DEF Pairs, InOrder

\* An order kernel tells whether all pairs are in order.
LEMMA OrderedInOrder ==
  ASSUME NEW data \in Seq(Int), Len(data) >= 2, NEW m \in Machines
  PROVE  /\ Ordered(NotGreater, m, data) = Pairs(data, NotGreater)
         /\ Ordered(NotLess, m, data) = Pairs(data, NotLess)
         /\ Ordered(LessEqual, m, data) = Pairs(data, LessEqual)
         /\ Ordered(GreaterEqual, m, data) = Pairs(data, GreaterEqual)
  <1>1. \A i \in PairsChecked(m, Len(data)) : data[i + 1] \in Int /\ data[i + 2] \in Int
    BY PageOf
  <1> DEFINE Checked(R) == \A i \in PairsChecked(m, Len(data)) : <<data[i + 1], data[i + 2]>> \in R
  <1>2. /\ Ordered(NotGreater, m, data) = Checked(Rising)
        /\ Ordered(NotLess, m, data) = Checked(Falling)
        /\ Ordered(LessEqual, m, data) = Checked(RisingNumbers)
        /\ Ordered(GreaterEqual, m, data) = Checked(FallingNumbers)
    BY <1>1, RelationsAre DEF Ordered
  <1>3. \A R \in {Rising, Falling, RisingNumbers, FallingNumbers} : Checked(R) = InOrder(data, R)
    <2> TAKE R \in {Rising, Falling, RisingNumbers, FallingNumbers}
    <2>1. Checked(R) <=> InOrder(data, R)
      BY RelationsOrder, NeighboursOrder
    <2> QED BY <2>1 DEF InOrder
  <1> HIDE DEF Checked
  <1> QED BY <1>2, <1>3, PairsInOrder

\* So does one that flips the sign bit.
LEMMA BiasedInOrder ==
  ASSUME NEW data \in Seq(Codes), Len(data) >= 2, NEW m \in Machines
  PROVE  /\ Ordered(NotBiasedGreater, m, data) = Ordered(NotGreater, m, data)
         /\ Ordered(NotBiasedLess, m, data) = Ordered(NotLess, m, data)
  <1>1. data \in Seq(Int) /\ \A i \in 1 .. Len(data) : data[i] \in Codes
    BY ElementOfSeq DEF Codes
  <1>2. \A i \in PairsChecked(m, Len(data)) : i + 1 \in 1 .. Len(data) /\ i + 2 \in 1 .. Len(data)
    BY <1>1, PageOf
  <1>3. \A i \in PairsChecked(m, Len(data)) : data[i + 1] \in Codes /\ data[i + 2] \in Codes
    BY <1>1, <1>2
  <1>4. \A i \in PairsChecked(m, Len(data)) :
           /\ NotBiasedGreater(data[i + 1], data[i + 2]) <=> NotGreater(data[i + 1], data[i + 2])
           /\ NotBiasedLess(data[i + 1], data[i + 2]) <=> NotLess(data[i + 1], data[i + 2])
    BY <1>3, BiasedIs DEF NotBiasedGreater, NotBiasedLess, NotGreater, NotLess
  <1> QED BY <1>4 DEF Ordered

\* The order kernels of signed integers.
LEMMA AllSignedOrders ==
  ASSUME NEW data \in Seq(Int), Len(data) >= 2, NEW m \in Machines
  PROVE  \A i \in 1 .. 2 : SignedOrders(m, data)[i] = <<Pairs(data, NotGreater), Pairs(data, NotLess)>>
  <1> DEFINE up == Pairs(data, NotGreater)
             down == Pairs(data, NotLess)
  <1>1. Ordered(NotGreater, m, data) = up /\ Ordered(NotLess, m, data) = down
    BY OrderedInOrder
  <1> HIDE DEF up, down
  <1>2. SignedOrders(m, data) = << <<up, down>>, <<up, down>> >>
    BY <1>1, Zenon DEF SignedOrders, orderAscendingInt32, orderDescendingInt32, orderAscendingInt64, orderDescendingInt64
  <1> QED BY <1>2 DEF up, down

\* The order kernels of unsigned integers.
LEMMA AllUnsignedOrders ==
  ASSUME NEW data \in Seq(Codes), Len(data) >= 2, NEW m \in Machines
  PROVE  \A i \in 1 .. 2 : UnsignedOrders(m, data)[i] = <<Pairs(data, NotGreater), Pairs(data, NotLess)>>
  <1> DEFINE up == Pairs(data, NotGreater)
             down == Pairs(data, NotLess)
  <1>1. data \in Seq(Int)
    BY DEF Codes
  <1>2. /\ Ordered(NotGreater, m, data) = up /\ Ordered(NotLess, m, data) = down
        /\ Ordered(NotBiasedGreater, m, data) = up /\ Ordered(NotBiasedLess, m, data) = down
    BY <1>1, OrderedInOrder, BiasedInOrder
  <1> HIDE DEF up, down
  <1>3. UnsignedOrders(m, data) = << <<up, down>>, <<up, down>> >>
    BY <1>2, Zenon DEF UnsignedOrders, orderAscendingUint32, orderDescendingUint32, orderAscendingUint64, orderDescendingUint64
  <1> QED BY <1>3 DEF up, down

\* The order kernels of floats.
LEMMA AllFloatOrders ==
  ASSUME NEW data \in Seq(Int), Len(data) >= 2, NEW m \in Machines
  PROVE  \A i \in 1 .. 2 : FloatOrders(m, data)[i] = <<Pairs(data, LessEqual), Pairs(data, GreaterEqual)>>
  <1> DEFINE up == Pairs(data, LessEqual)
             down == Pairs(data, GreaterEqual)
  <1>1. Ordered(LessEqual, m, data) = up /\ Ordered(GreaterEqual, m, data) = down
    BY OrderedInOrder
  <1> HIDE DEF up, down
  <1>2. FloatOrders(m, data) = << <<up, down>>, <<up, down>> >>
    BY <1>1, Zenon DEF FloatOrders, orderAscendingFloat32, orderDescendingFloat32, orderAscendingFloat64, orderDescendingFloat64
  <1> QED BY <1>2 DEF up, down

\* The least element of a set of naturals.
LEMMA FirstOf ==
  ASSUME NEW T \in SUBSET Nat, T # {}
  PROVE  /\ (CHOOSE i \in T : \A j \in T : i <= j) \in T
         /\ \A j \in T : (CHOOSE i \in T : \A k \in T : i <= k) <= j
  BY LeastElement

\* The front of a page of bytes: equal values, then the first that differs.
LEMMA StreakSkipped ==
  ASSUME NEW codes \in Seq(Codes), Len(codes) >= 2
  PROVE  LET n == Len(codes)
             rest == skipBytesStreak(codes)
         IN  \/ (\A i \in 1 .. n : codes[i] = codes[1]) /\ Len(rest) = 1
             \/ \E f \in 2 .. n : /\ codes[f] # codes[1] /\ \A i \in 1 .. (f - 1) : codes[i] = codes[1]
                                  /\ Len(rest) = n - f + 2
                                  /\ \A i \in 1 .. (n - f + 2) : rest[i] = codes[f - 2 + i]
  <1> DEFINE n == Len(codes)
             differs == {i \in 2 .. n : codes[i] # codes[1]}
             f == CHOOSE i \in differs : \A j \in differs : i <= j
  <1>1. n \in Nat /\ DOMAIN codes = 1 .. n
    BY PageLength
  <1>2. CASE differs = {}
    <2>1. Len(skipBytesStreak(codes)) = 1
      BY <1>2 DEF skipBytesStreak
    <2>2. \A i \in 1 .. n : codes[i] = codes[1]
      <3> TAKE i \in 1 .. n
      <3>1. i = 1 \/ i \in 2 .. n
        BY <1>1
      <3> QED BY <1>2, <3>1
    <2> QED BY <2>1, <2>2
  <1>3. CASE differs # {}
    <2>1. differs \in SUBSET Nat
      BY <1>1
    <2>2. f \in differs /\ \A j \in differs : f <= j
      <3> HIDE DEF differs
      <3> QED BY <1>3, <2>1, FirstOf
    <2>3. skipBytesStreak(codes) = SubSeq(codes, f - 1, n)
      BY <1>3 DEF skipBytesStreak
    <2> HIDE DEF f
    <2>4. f \in 2 .. n /\ codes[f] # codes[1]
      BY <2>2
    <2>5. \A i \in 1 .. (f - 1) : codes[i] = codes[1]
      <3> SUFFICES ASSUME NEW i \in 1 .. (f - 1), codes[i] # codes[1] PROVE FALSE
        OBVIOUS
      <3>1. i \in 2 .. n
        BY <1>1, <2>4
      <3>2. i \in differs
        BY <3>1
      <3>3. f <= i
        BY <2>2, <3>2
      <3> QED BY <2>4, <3>3
    <2>6. f - 1 \in 1 .. (n + 1) /\ n \in (f - 2) .. n
      BY <1>1, <2>4
    <2>7. /\ Len(SubSeq(codes, f - 1, n)) = n - (f - 1) + 1
          /\ \A i \in 1 .. (n - (f - 1) + 1) : SubSeq(codes, f - 1, n)[i] = codes[(f - 1) + i - 1]
      BY <1>1, <2>4, SubSeqProperties
    <2>8. n - (f - 1) + 1 = n - f + 2 /\ \A i \in 1 .. (n - f + 2) : (f - 1) + i - 1 = f - 2 + i
      BY <1>1, <2>4
    <2>9. /\ Len(skipBytesStreak(codes)) = n - f + 2
          /\ \A i \in 1 .. (n - f + 2) : skipBytesStreak(codes)[i] = codes[f - 2 + i]
      BY <2>3, <2>7, <2>8
    <2> QED BY <2>4, <2>5, <2>9
  <1> QED BY <1>2, <1>3

\* orderOfBytes tells the order of all pairs.
LEMMA BytesOrder ==
  ASSUME NEW codes \in Seq(Codes), Len(codes) >= 2
  PROVE  orderOfBytes(codes) = IF Pairs(codes, NotGreater) THEN 1 ELSE IF Pairs(codes, NotLess) THEN -1 ELSE 0
  <1> DEFINE n == Len(codes)
             rest == skipBytesStreak(codes)
             up == Pairs(codes, NotGreater)
             down == Pairs(codes, NotLess)
  <1>1. /\ n \in Nat /\ DOMAIN codes = 1 .. n /\ n >= 2 /\ codes \in Seq(Int)
        /\ \A i \in 1 .. n : codes[i] \in Int
    BY PageLength, ElementOfSeq DEF Codes
  <1>2. /\ up <=> \A i \in 1 .. (n - 1) : codes[i] <= codes[i + 1]
        /\ down <=> \A i \in 1 .. (n - 1) : codes[i] >= codes[i + 1]
    <2>1. \A i \in 1 .. (n - 1) : i \in 1 .. n /\ i + 1 \in 1 .. n
      BY <1>1
    <2>2. \A R \in {Rising, Falling} : (\A i \in 1 .. (n - 1) : <<codes[i], codes[i + 1]>> \in R) <=> InOrder(codes, R)
      BY <1>1, RelationsOrder, NeighboursOrder
    <2>3. \A i \in 1 .. (n - 1) : /\ <<codes[i], codes[i + 1]>> \in Rising <=> codes[i] <= codes[i + 1]
                                  /\ <<codes[i], codes[i + 1]>> \in Falling <=> codes[i] >= codes[i + 1]
      BY <1>1, <2>1, RelationsAre
    <2>4. up = InOrder(codes, Rising) /\ down = InOrder(codes, Falling)
      BY <1>1, PairsInOrder
    <2> HIDE DEF up, down
    <2>5. up <=> \A i \in 1 .. (n - 1) : codes[i] <= codes[i + 1]
      BY <2>2, <2>3, <2>4
    <2>6. down <=> \A i \in 1 .. (n - 1) : codes[i] >= codes[i + 1]
      BY <2>2, <2>3, <2>4
    <2> QED BY <2>5, <2>6
  <1> HIDE DEF up, down
  <1>3. CASE (\A i \in 1 .. n : codes[i] = codes[1]) /\ Len(rest) = 1
    <2>1. orderOfBytes(codes) = 1
      BY <1>1, <1>3 DEF orderOfBytes
    <2>2. \A i \in 1 .. (n - 1) : i \in 1 .. n /\ i + 1 \in 1 .. n /\ 1 \in 1 .. n
      BY <1>1
    <2>3. \A i \in 1 .. (n - 1) : codes[i] = codes[1] /\ codes[i + 1] = codes[1] /\ codes[1] \in Int
      BY <1>1, <1>3, <2>2
    <2>4. up
      BY <1>2, <2>3
    <2> QED BY <2>1, <2>4 DEF up
  <1>4. ASSUME NEW f \in 2 .. n, codes[f] # codes[1], \A i \in 1 .. (f - 1) : codes[i] = codes[1],
               Len(rest) = n - f + 2, \A i \in 1 .. (n - f + 2) : rest[i] = codes[f - 2 + i]
        PROVE  orderOfBytes(codes) = IF up THEN 1 ELSE IF down THEN -1 ELSE 0
    <2>1. rest[1] = codes[1] /\ rest[2] = codes[f]
      BY <1>1, <1>4
    <2>2. codes[1] \in Int /\ codes[f] \in Int /\ f - 1 \in 1 .. (n - 1) /\ codes[f - 1] = codes[1] /\ (f - 1) + 1 = f
      BY <1>1, <1>4
    <2> DEFINE upRest == \A i \in 2 .. (Len(rest) - 1) : rest[i] <= rest[i + 1]
               downRest == \A i \in 2 .. (Len(rest) - 1) : rest[i] >= rest[i + 1]
    <2>3. \A i \in 2 .. (Len(rest) - 1) : /\ f - 2 + i \in f .. (n - 1)
                                          /\ rest[i] = codes[f - 2 + i] /\ rest[i + 1] = codes[(f - 2 + i) + 1]
      <3> TAKE i \in 2 .. (Len(rest) - 1)
      <3>1. i \in 1 .. (n - f + 2) /\ i + 1 \in 1 .. (n - f + 2) /\ f - 2 + (i + 1) = (f - 2 + i) + 1 /\ f - 2 + i \in f .. (n - 1)
        BY <1>1, <1>4
      <3> QED BY <1>4, <3>1
    <2>4. \A p \in f .. (n - 1) : /\ p - f + 2 \in 2 .. (Len(rest) - 1)
                                  /\ rest[p - f + 2] = codes[p] /\ rest[(p - f + 2) + 1] = codes[p + 1]
      <3> TAKE p \in f .. (n - 1)
      <3>1. p - f + 2 \in 2 .. (Len(rest) - 1) /\ f - 2 + (p - f + 2) = p
        BY <1>1, <1>4
      <3> QED BY <2>3, <3>1
    <2>5. orderOfBytes(codes) = IF codes[1] < codes[f] THEN IF upRest THEN 1 ELSE 0 ELSE IF downRest THEN -1 ELSE 0
      BY <1>1, <1>4, <2>1 DEF orderOfBytes
    <2> HIDE DEF rest
    <2>6. upRest <=> \A p \in f .. (n - 1) : codes[p] <= codes[p + 1]
      BY <2>3, <2>4
    <2>7. downRest <=> \A p \in f .. (n - 1) : codes[p] >= codes[p + 1]
      BY <2>3, <2>4
    <2> HIDE DEF upRest, downRest
    <2>8. \A i \in 1 .. (f - 2) : codes[i] = codes[1] /\ codes[i + 1] = codes[1]
      BY <1>4
    <2>9. \A i \in 1 .. (n - 1) : i \in 1 .. (f - 2) \/ i = f - 1 \/ i \in f .. (n - 1)
      BY <1>1
    <2>10. \A i \in f .. (n - 1) : i \in 1 .. (n - 1)
      BY <1>1
    <2>11. CASE codes[1] < codes[f]
      <3>1. ~ down
        BY <1>2, <2>2, <2>11
      <3>2. up <=> upRest
        BY <1>2, <2>10, <2>11, <2>2, <2>6, <2>8, <2>9
      <3> QED BY <2>5, <2>11, <3>1, <3>2
    <2>12. CASE ~ (codes[1] < codes[f])
      <3>0. codes[f] < codes[1]
        BY <1>4, <2>2, <2>12
      <3>1. ~ up
        BY <1>2, <2>2, <3>0
      <3>2. down <=> downRest
        BY <1>2, <2>10, <2>2, <2>7, <2>8, <2>9, <3>0
      <3> QED BY <2>5, <2>12, <3>1, <3>2
    <2> QED BY <2>11, <2>12
  <1> QED BY <1>3, <1>4, StreakSkipped DEF up, down

\* A streak is made of one value.
LEMMA StreakIs ==
  ASSUME NEW data \in Seq(BOOLEAN), NEW b \in BOOLEAN
  PROVE  Streak(data, b) \in 0 .. Len(data) /\ \A i \in 1 .. Streak(data, b) : data[i] = b
  <1> DEFINE n == Len(data)
             ends == {i \in DOMAIN data : data[i] # b}
             f == CHOOSE i \in ends : \A j \in ends : i <= j
  <1>1. n \in Nat /\ DOMAIN data = 1 .. n
    BY LenProperties
  <1>2. CASE ends = {}
    BY <1>1, <1>2 DEF Streak
  <1>3. CASE ends # {}
    <2>1. ends \in SUBSET Nat
      BY <1>1
    <2>2. f \in ends /\ \A j \in ends : f <= j
      <3> HIDE DEF ends
      <3> QED BY <1>3, <2>1, FirstOf
    <2>3. Streak(data, b) = f - 1
      BY <1>3 DEF Streak
    <2> HIDE DEF f
    <2>4. f \in 1 .. n /\ f - 1 \in 0 .. n
      BY <1>1, <2>2
    <2>5. \A i \in 1 .. (f - 1) : data[i] = b
      <3> SUFFICES ASSUME NEW i \in 1 .. (f - 1), data[i] # b PROVE FALSE
        OBVIOUS
      <3>1. i \in 1 .. n
        BY <1>1, <2>4
      <3>2. f <= i
        BY <1>1, <2>2, <3>1
      <3> QED BY <2>4, <3>2
    <2> QED BY <2>3, <2>4, <2>5
  <1> QED BY <1>2, <1>3

\* orderOfBool claims no order that two values break.
LEMMA BoolOrder ==
  ASSUME NEW data \in Seq(BOOLEAN), Len(data) >= 2
  PROVE  /\ orderOfBool(data) \in {-1, 0, 1}
         /\ orderOfBool(data) = 1 => \A i \in 1 .. Len(data) : \A j \in 1 .. Len(data) : i < j => ~ (data[i] /\ ~ data[j])
         /\ orderOfBool(data) = -1 => \A i \in 1 .. Len(data) : \A j \in 1 .. Len(data) : i < j => ~ (~ data[i] /\ data[j])
  <1> DEFINE n == Len(data)
             first == Streak(data, data[1])
             sub == SubSeq(data, first + 1, n)
             second == Streak(sub, ~ data[1])
  <1>1. n \in Nat /\ n >= 2 /\ DOMAIN data = 1 .. n /\ \A i \in 1 .. n : data[i] \in BOOLEAN
    BY LenProperties, ElementOfSeq
  <1>2. data[1] \in BOOLEAN
    BY <1>1
  <1>3. first \in 0 .. n /\ \A i \in 1 .. first : data[i] = data[1]
    BY <1>2, StreakIs
  <1>4. orderOfBool(data) = IF first = n THEN 1 ELSE IF first + second # n THEN 0 ELSE IF data[1] THEN -1 ELSE 1
    BY <1>1 DEF orderOfBool
  <1> HIDE DEF first
  <1>5. orderOfBool(data) \in {-1, 0, 1}
    BY <1>4
  <1>6. CASE first = n
    BY <1>2, <1>3, <1>4, <1>6
  <1>7. CASE first # n /\ first + second = n
    <2>0. n \in Nat /\ first \in 0 .. n /\ first # n /\ first + second = n
      BY <1>1, <1>3, <1>7, Zenon
    <2>1. /\ sub \in Seq(BOOLEAN) /\ Len(sub) = n - first
          /\ \A i \in 1 .. (n - first) : sub[i] = data[first + i]
      <3>1. first + 1 \in 1 .. n + 1 /\ n \in (first + 1) - 1 .. n /\ first + 1 <= n
        <4> HIDE DEF n, sub, second
        <4> QED BY <2>0
      <3>2. /\ SubSeq(data, first + 1, n) \in Seq(BOOLEAN)
            /\ Len(SubSeq(data, first + 1, n)) = n - (first + 1) + 1
            /\ \A i \in 1 .. (n - (first + 1) + 1) : SubSeq(data, first + 1, n)[i] = data[(first + 1) + i - 1]
        BY <1>1, <3>1, SubSeqProperties
      <3>3. n - (first + 1) + 1 = n - first /\ \A i \in 1 .. (n - first) : (first + 1) + i - 1 = first + i
        <4> HIDE DEF n, sub, second
        <4> QED BY <2>0
      <3> QED BY <3>2, <3>3
    <2>2. \A i \in 1 .. second : sub[i] = ~ data[1]
      BY <1>2, <2>1, StreakIs
    <2>3. second = n - first
      <3>1. second \in 0 .. Len(sub)
        BY <1>2, <2>1, StreakIs
      <3>2. second \in Int
        <4> HIDE DEF n, second
        <4> QED BY <2>0, <2>1, <3>1
      <3> HIDE DEF n, second
      <3> QED BY <2>0, <3>2
    <2> HIDE DEF sub, second
    <2>4. \A i \in 1 .. n : data[i] = IF i <= first THEN data[1] ELSE ~ data[1]
      <3> TAKE i \in 1 .. n
      <3>1. CASE i <= first
        BY <1>1, <1>3, <3>1
      <3>2. CASE ~ (i <= first)
        <4>1. i - first \in 1 .. (n - first) /\ first + (i - first) = i
          BY <1>1, <1>3, <3>2
        <4> QED BY <2>1, <2>2, <2>3, <3>2, <4>1
      <3> QED BY <3>1, <3>2
    <2>5. ASSUME NEW i \in 1 .. n, NEW j \in 1 .. n, i < j PROVE ~ (data[i] # data[1] /\ data[j] = data[1])
      BY <1>1, <1>2, <1>3, <2>4, <2>5
    <2>6. CASE data[1] = TRUE
      BY <1>1, <1>4, <1>5, <1>7, <2>5, <2>6
    <2>7. CASE data[1] = FALSE
      BY <1>1, <1>4, <1>5, <1>7, <2>5, <2>7
    <2> QED BY <1>2, <2>6, <2>7
  <1>8. CASE first # n /\ first + second # n
    BY <1>4, <1>8
  <1> QED BY <1>5, <1>6, <1>7, <1>8

-----------------------------------------------------------------------------
\* What the kernels found is what they compute of the page.
KernelInv ==
  /\ scanned \in Seq(Codes)
  /\ machine \in Machines
  /\ found = <<>> \/ found = <<Results(machine, scanned)>>

\* The pages of the model are lists of codes.
LEMMA PagesAreCodes == \A page \in ScannedPages : page \in Seq(Codes)
  <1> DEFINE Page(n, c, p, q, x, y) == [[i \in 1 .. n |-> c] EXCEPT ![p] = x, ![q] = y]
             PagesOf(n) == {Page(n, c, p, q, x, y) : c \in {1, 3}, p \in 1 .. n, q \in 1 .. n, x \in Codes, y \in {0, 3}}
  <1>1. <<>> \in Seq(Codes)
    OBVIOUS
  <1>2. ScannedPages = {<<>>} \cup UNION {PagesOf(n) : n \in 1 .. MaxData}
    BY DEF ScannedPages
  <1> HIDE DEF Page
  <1>3. ASSUME NEW n \in 1 .. MaxData, NEW page \in PagesOf(n) PROVE page \in Seq(Codes)
    <2>1. PICK c \in {1, 3}, p \in 1 .. n, q \in 1 .. n, x \in Codes, y \in {0, 3} : page = Page(n, c, p, q, x, y)
      OBVIOUS
    <2>2. c \in Codes /\ y \in Codes /\ n \in Nat
      BY KernelAssumption DEF Codes
    <2> HIDE DEF PagesOf
    <2>3. page \in [1 .. n -> Codes]
      BY <2>1, <2>2 DEF Page
    <2> QED BY <2>2, <2>3, SeqDef
  <1> HIDE DEF PagesOf
  <1> DEFINE Lengths == {PagesOf(n) : n \in 1 .. MaxData}
  <1>4. \A T \in Lengths : \A page \in T : page \in Seq(Codes)
    BY <1>3
  <1>5. ScannedPages = {<<>>} \cup UNION Lengths
    BY <1>2
  <1> HIDE DEF Lengths
  <1>6. \A page \in UNION Lengths : page \in Seq(Codes)
    BY <1>4
  <1> QED BY <1>1, <1>5, <1>6

\* It is an invariant.
LEMMA KernelInvCorrect == KernelSpec => []KernelInv
  <1>1. KernelInit => KernelInv
    BY PagesAreCodes DEF KernelInit, KernelInv
  <1>2. KernelInv /\ [KernelNext]_kernelVars => KernelInv'
    BY DEF KernelInv, KernelNext, Scanned, kernelVars
  <1> QED BY <1>1, <1>2, PTL DEF KernelSpec

\* What each type of column reads in a page.
LEMMA PagesAre ==
  ASSUME NEW codes \in Seq(Codes)
  PROVE  /\ SignedPage(codes) \in Seq(Int) /\ Len(SignedPage(codes)) = Len(codes)
         /\ FloatPage(codes) \in Seq(Int) /\ Len(FloatPage(codes)) = Len(codes)
         /\ codes \in Seq(Int)
  <1>1. Len(codes) \in Nat /\ DOMAIN codes = 1 .. Len(codes) /\ \A i \in 1 .. Len(codes) : codes[i] \in Int
    BY PageLength, ElementOfSeq DEF Codes
  <1>2. NaN \in Int /\ codes \in Seq(Int)
    BY DEF NaN, Codes
  <1>3. \A i \in DOMAIN codes : codes[i] - 2 \in Int
    BY <1>1
  <1>4. SignedPage(codes) \in Seq(Int) /\ Len(SignedPage(codes)) = Len(codes)
    BY <1>1, <1>3 DEF SignedPage
  <1>5. \A i \in DOMAIN codes : (IF codes[i] = 3 THEN NaN ELSE codes[i] - 1) \in Int
    BY <1>1, <1>2
  <1>6. FloatPage(codes) \in Seq(Int) /\ Len(FloatPage(codes)) = Len(codes)
    BY <1>1, <1>5 DEF FloatPage
  <1> QED BY <1>2, <1>4, <1>6

\* What a column of booleans reads in it.
LEMMA BoolPageIs ==
  ASSUME NEW codes \in Seq(Codes)
  PROVE  /\ [i \in DOMAIN codes |-> codes[i] >= 2] \in Seq(BOOLEAN)
         /\ Len([i \in DOMAIN codes |-> codes[i] >= 2]) = Len(codes)
  <1>1. Len(codes) \in Nat /\ DOMAIN codes = 1 .. Len(codes)
    BY PageLength
  <1> QED BY <1>1

\* The bounds found are true.
LEMMA BoundsHold ==
  ASSUME KernelInv PROVE BoundsAreTrue
  <1> SUFFICES ASSUME found # <<>> PROVE BoundsAreTrue
    BY DEF BoundsAreTrue
  <1> DEFINE R == Results(machine, scanned)
  <1>1. scanned \in Seq(Codes) /\ machine \in Machines /\ found[1] = R
    BY DEF KernelInv
  <1>2. \A i \in 1 .. 4 : R.signed[i] = TrueBounds(SignedPage(scanned))
    BY <1>1, PagesAre, AllSignedBounds DEF Results
  <1>3. \A i \in 1 .. 4 : R.unsigned[i] = TrueBounds(scanned)
    BY <1>1, AllUnsignedBounds DEF Results
  <1>4. \A i \in 1 .. 4 : R.float[i] = TrueBounds(FloatPage(scanned))
    BY <1>1, PagesAre, AllFloatBounds DEF Results
  <1>5. ASSUME scanned # <<>>
        PROVE  R.be128 = <<FirstAt(scanned, Least(Members(scanned))), FirstAt(scanned, Greatest(Members(scanned)))>>
    <2>1. R.be128 = <<minMaxBE128(machine, BE128Page(scanned), FALSE), minMaxBE128(machine, BE128Page(scanned), TRUE)>>
      BY <1>5 DEF Results
    <2>2. minMaxBE128(machine, BE128Page(scanned), FALSE) = FirstAt(scanned, Least(Members(scanned)))
      BY <1>1, <1>5, BE128Found
    <2>3. minMaxBE128(machine, BE128Page(scanned), TRUE) = FirstAt(scanned, Greatest(Members(scanned)))
      BY <1>1, <1>5, BE128Found
    <2> QED BY <2>1, <2>2, <2>3
  <1> HIDE DEF R
  <1> QED BY <1>1, <1>2, <1>3, <1>4, <1>5 DEF BoundsAreTrue

\* The orders found are true.
LEMMA OrdersHold ==
  ASSUME KernelInv PROVE OrdersAreTrue
  <1> SUFFICES ASSUME found # <<>>, Len(scanned) >= 2 PROVE OrdersAreTrue
    BY DEF OrdersAreTrue
  <1> DEFINE R == Results(machine, scanned)
             bools == [i \in DOMAIN scanned |-> scanned[i] >= 2]
  <1>1. scanned \in Seq(Codes) /\ machine \in Machines /\ found[1] = R
    BY DEF KernelInv
  <1>2. \A i \in 1 .. 2 : R.signedOrders[i] = <<Pairs(SignedPage(scanned), NotGreater), Pairs(SignedPage(scanned), NotLess)>>
    BY <1>1, PagesAre, AllSignedOrders DEF Results
  <1>3. \A i \in 1 .. 2 : R.unsignedOrders[i] = <<Pairs(scanned, NotGreater), Pairs(scanned, NotLess)>>
    BY <1>1, AllUnsignedOrders DEF Results
  <1>4. \A i \in 1 .. 2 : R.floatOrders[i] = <<Pairs(FloatPage(scanned), LessEqual), Pairs(FloatPage(scanned), GreaterEqual)>>
    BY <1>1, PagesAre, AllFloatOrders DEF Results
  <1>5. R.bytes = IF Pairs(scanned, NotGreater) THEN 1 ELSE IF Pairs(scanned, NotLess) THEN -1 ELSE 0
    BY <1>1, BytesOrder DEF Results
  <1>6. R.bool = orderOfBool(bools)
    BY DEF Results
  <1>7. bools \in Seq(BOOLEAN) /\ Len(bools) = Len(scanned) /\ DOMAIN scanned = 1 .. Len(scanned)
        /\ (\A i \in DOMAIN scanned : scanned[i] \in Int /\ (bools[i] <=> scanned[i] >= 2))
    <2>1. bools \in Seq(BOOLEAN) /\ Len(bools) = Len(scanned)
      BY <1>1, BoolPageIs
    <2>2. DOMAIN scanned = 1 .. Len(scanned) /\ \A i \in DOMAIN scanned : scanned[i] \in Int
      BY <1>1, PageLength, PagesAre, ElementOfSeq
    <2>3. \A i \in DOMAIN scanned : bools[i] <=> scanned[i] >= 2
      OBVIOUS
    <2> HIDE DEF bools
    <2> QED BY <2>1, <2>2, <2>3
  <1> HIDE DEF R, bools
  <1>8. /\ R.bool \in {-1, 0, 1}
        /\ R.bool = 1 => \A i \in DOMAIN scanned : \A j \in DOMAIN scanned : i < j => ~ (bools[i] /\ ~ bools[j])
        /\ R.bool = -1 => \A i \in DOMAIN scanned : \A j \in DOMAIN scanned : i < j => ~ (~ bools[i] /\ bools[j])
    BY <1>6, <1>7, BoolOrder
  <1>9. /\ R.bool = 1 => Pairs(scanned, LAMBDA a, b : ~ (a >= 2 /\ b < 2))
        /\ R.bool = -1 => Pairs(scanned, LAMBDA a, b : ~ (a < 2 /\ b >= 2))
    BY <1>7, <1>8 DEF Pairs
  <1> QED BY <1>1, <1>2, <1>3, <1>4, <1>5, <1>8, <1>9 DEF OrdersAreTrue

(* The kernels of every type report the least and the greatest value of the  *)
(* page and the order of its values, on every machine, for every number of   *)
(* lanes and every length (page_minmax_simd_amd64.go, order_simd_amd64.go):  *)
(* KernelsScanEverything.                                                    *)
THEOREM KernelsScanEverythingCorrect == KernelSpec => []KernelsScanEverything
  <1>1. KernelInv => KernelsScanEverything
    BY BoundsHold, OrdersHold DEF KernelsScanEverything
  <1> QED BY <1>1, KernelInvCorrect, PTL

=============================================================================
