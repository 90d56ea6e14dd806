-------------------------- MODULE TournamentProofs --------------------------
(***************************************************************************)
(* The merge of any number of readers with a tournament tree of losers:    *)
(* the runner-up is always on the path of the winner, the merge implements *)
(* SortedMerge, no buffer is refilled while its rows are with the caller,  *)
(* and every call with room makes progress.                                *)
(*                                                                         *)
(* The tree keeps losers only.  The proofs look at it through a function w *)
(* from positions to players, the winner below every position: at each     *)
(* node one of the two winners below wins again and the other one is the   *)
(* loser that the tree keeps there (Tree), and the winner's head is not    *)
(* the larger one (Ordered).  While the winner's own head is stale, the    *)
(* second holds off the winner's line only; playing the games on that line *)
(* again makes it hold everywhere (ReplayTree).                            *)
(***************************************************************************)
EXTENDS MergedRowReader, FiniteSetTheorems, SequenceTheorems, WellFoundedInduction, TLAPS

-----------------------------------------------------------------------------
(* Induction over data, from the least element of a set of naturals.       *)

LessOnNat == {p \in Nat \X Nat : p[1] < p[2]}

\* Every nonempty set of naturals has a least element.
LEMMA LeastElement ==
  ASSUME NEW T \in SUBSET Nat, T # {}
  PROVE  \E x \in T : \A y \in T : x <= y
  <1>1. IsWellFoundedOn(LessOnNat, Nat)
    BY NatLessThanWellFounded DEF LessOnNat, OpToRel
  <1>2. PICK x \in T : \A y \in T : ~ (<<y, x>> \in LessOnNat)
    BY <1>1, WFMin
  <1>3. \A y \in T : ~(y < x)
    <2> TAKE y \in T
    <2>1. <<y, x>> \in Nat \X Nat /\ <<y, x>>[1] = y /\ <<y, x>>[2] = x
      OBVIOUS
    <2> QED BY <1>2, <2>1 DEF LessOnNat
  <1>4. \A y \in T : x <= y
    BY <1>3
  <1> QED BY <1>4

\* A set of naturals with 0 and the successor of each of its elements.
LEMMA SetInduction ==
  ASSUME NEW S \in SUBSET Nat, 0 \in S, \A k \in S : k + 1 \in S
  PROVE  \A k \in Nat : k \in S
  <1> SUFFICES ASSUME Nat \ S # {} PROVE FALSE
    OBVIOUS
  <1>1. PICK least \in Nat \ S : \A y \in Nat \ S : least <= y
    BY LeastElement
  <1>2. least # 0 /\ least - 1 \in Nat
    BY <1>1
  <1>3. least - 1 \in S
    BY <1>1, <1>2
  <1>4. (least - 1) + 1 \in S
    BY <1>3
  <1> QED BY <1>1, <1>4

\* Every nonempty set of naturals with a bound has a greatest element.
LEMMA GreatestElement ==
  ASSUME NEW L \in Nat, NEW T \in SUBSET (0 .. L), T # {}
  PROVE  \E x \in T : \A y \in T : x >= y
  <1> DEFINE R == {L - x : x \in T}
  <1>1. R \in SUBSET Nat /\ R # {}
    <2>1. \A x \in T : x \in 0 .. L
      OBVIOUS
    <2>2. \A x \in T : L - x \in Nat
      BY <2>1
    <2> QED BY <2>2
  <1> HIDE DEF R
  <1>2. PICK r \in R : \A y \in R : r <= y
    BY <1>1, LeastElement
  <1>3. PICK x \in T : r = L - x
    BY <1>2 DEF R
  <1>4. \A y \in T : L - y \in R
    BY DEF R
  <1>5. \A y \in T : x >= y
    <2> TAKE y \in T
    <2>1. L - x <= L - y /\ x \in Int /\ y \in Int
      BY <1>2, <1>3, <1>4
    <2> QED BY <2>1
  <1> QED BY <1>5

-----------------------------------------------------------------------------
(* Positions of the tree *)

N == NumReaders
Pos == 0 .. 2 * N

\* The node above a position.
Up(q) == (q - 1) \div 2

\* The node above a position is a smaller position, and has two below it.
LEMMA UpType ==
  ASSUME NEW q \in Pos, q # 0
  PROVE  /\ Up(q) \in Nodes /\ Up(q) \in Pos /\ Up(q) < q /\ Up(q) >= 0
         /\ q = 2 * Up(q) + 1 \/ q = 2 * Up(q) + 2
  BY MergeAssumption DEF Pos, N, Up, Nodes, Readers

\* The two positions below a node.
LEMMA KidsType ==
  ASSUME NEW p \in Nodes
  PROVE  /\ p \in Pos /\ 2 * p + 1 \in Pos /\ 2 * p + 2 \in Pos
         /\ Up(2 * p + 1) = p /\ Up(2 * p + 2) = p
         /\ p < 2 * p + 1 /\ p < 2 * p + 2 /\ 2 * p + 1 # 0 /\ 2 * p + 2 # 0
  BY MergeAssumption DEF Pos, N, Up, Nodes, Readers

\* The leaves are positions below the nodes.
LEMMA LeafType ==
  ASSUME NEW i \in Readers
  PROVE  /\ N + i \in Pos /\ N + i \notin Nodes /\ N + i # 0
         /\ N + i < 2 * N /\ i \in Nat /\ N + i >= N
  BY MergeAssumption DEF Pos, N, Nodes, Readers

\* A position is a leaf, a node or out of bounds.
LEMMA PosCases ==
  ASSUME NEW q \in Pos
  PROVE  q \in Nodes \/ (q - N \in Readers /\ q = N + (q - N)) \/ q = 2 * N
  BY MergeAssumption DEF Pos, N, Nodes, Readers

\* The recursion of PathFrom has a solution.
LEMMA PathExists ==
  \E path : path = [q \in Pos |-> IF q = 0 THEN << >> ELSE <<Up(q)>> \o path[Up(q)]]
  <1> DEFINE R(q, f) == IF q = 0 THEN << >> ELSE <<Up(q)>> \o f[Up(q)]
             P(k) == \E path : path = [q \in 0 .. k |-> R(q, path)]
             S == {k \in Nat : P(k)}
  <1>1. P(0)
    <2>1. 0 .. 0 = {0}
      OBVIOUS
    <2> DEFINE f == [q \in 0 .. 0 |-> << >>]
    <2>2. f = [q \in 0 .. 0 |-> R(q, f)]
      BY <2>1
    <2> HIDE DEF f, R
    <2> QED BY <2>2
  <1>2. ASSUME NEW k \in Nat, P(k) PROVE P(k + 1)
    <2>1. PICK f : f = [q \in 0 .. k |-> R(q, f)]
      BY <1>2
    <2> DEFINE h == [q \in 0 .. (k + 1) |-> R(q, f)]
    <2>2. \A q \in 0 .. k : h[q] = f[q]
      <3> HIDE DEF R
      <3>1. \A q \in 0 .. k : q \in 0 .. (k + 1)
        OBVIOUS
      <3> QED BY <2>1, <3>1
    <2>3. \A q \in 0 .. (k + 1) : q # 0 => Up(q) \in 0 .. k
      BY DEF Up
    <2>4. \A q \in 0 .. (k + 1) : R(q, f) = R(q, h)
      <3> HIDE DEF h
      <3> QED BY <2>2, <2>3
    <2>5. h = [q \in 0 .. (k + 1) |-> R(q, h)]
      <3> HIDE DEF R
      <3>1. h = [q \in 0 .. (k + 1) |-> R(q, f)]
        OBVIOUS
      <3> HIDE DEF h
      <3> QED BY <2>4, <3>1
    <2> HIDE DEF h, R
    <2> QED BY <2>5
  <1> HIDE DEF P
  <1>3. S \in SUBSET Nat /\ 0 \in S /\ \A k \in S : k + 1 \in S
    BY <1>1, <1>2
  <1> HIDE DEF S
  <1>4. 2 * N \in Nat
    BY MergeAssumption DEF N
  <1>5. 2 * N \in S
    BY <1>3, <1>4, SetInduction
  <1>6. P(2 * N)
    BY <1>5 DEF S
  <1> QED BY <1>6 DEF P, Pos

\* The path from a position is the node above it and the path from there.
LEMMA PathUnfolds ==
  /\ PathFrom(0) = << >>
  /\ \A q \in Pos : q # 0 => PathFrom(q) = <<Up(q)>> \o PathFrom(Up(q))
  <1> DEFINE path == CHOOSE path : path = [q \in 0 .. 2 * NumReaders |->
                        IF q = 0 THEN << >> ELSE <<(q - 1) \div 2>> \o path[(q - 1) \div 2]]
  <1>1. path = [q \in 0 .. 2 * NumReaders |->
                  IF q = 0 THEN << >> ELSE <<(q - 1) \div 2>> \o path[(q - 1) \div 2]]
    BY PathExists DEF Pos, N, Up
  <1>2. \A p : PathFrom(p) = path[p]
    BY DEF PathFrom
  <1> HIDE DEF path
  <1>3. 0 \in Pos /\ \A q \in Pos : q # 0 => Up(q) \in Pos
    BY UpType, MergeAssumption DEF Pos, N
  <1> QED BY <1>1, <1>2, <1>3 DEF Pos, N, Up

\* A path consists of nodes.
LEMMA PathType == \A q \in Pos : PathFrom(q) \in Seq(Nodes)
  <1> DEFINE P(k) == \A q \in Pos : q <= k => PathFrom(q) \in Seq(Nodes)
             S == {k \in Nat : P(k)}
  <1>1. P(0)
    <2>1. \A q \in Pos : q <= 0 => q = 0
      BY MergeAssumption DEF Pos, N
    <2>2. PathFrom(0) = << >> /\ << >> \in Seq(Nodes)
      BY PathUnfolds
    <2> QED BY <2>1, <2>2
  <1>2. ASSUME NEW k \in Nat, P(k) PROVE P(k + 1)
    <2> SUFFICES ASSUME NEW q \in Pos, q <= k + 1, q # 0 PROVE PathFrom(q) \in Seq(Nodes)
      <3>1. PathFrom(0) = << >>
        BY PathUnfolds
      <3>2. << >> \in Seq(Nodes)
        OBVIOUS
      <3>3. \A q \in Pos : q = 0 => PathFrom(q) \in Seq(Nodes)
        BY <3>1, <3>2
      <3> QED BY <3>3
    <2>1. Up(q) \in Nodes /\ Up(q) \in Pos /\ Up(q) <= k
      BY UpType, MergeAssumption DEF Pos, N
    <2>2. PathFrom(Up(q)) \in Seq(Nodes)
      BY <1>2, <2>1
    <2>3. PathFrom(q) = <<Up(q)>> \o PathFrom(Up(q)) /\ <<Up(q)>> \in Seq(Nodes)
      BY <2>1, PathUnfolds
    <2> QED BY <2>2, <2>3
  <1> HIDE DEF P
  <1>3. S \in SUBSET Nat /\ 0 \in S /\ \A k \in S : k + 1 \in S
    BY <1>1, <1>2
  <1> HIDE DEF S
  <1>4. \A k \in Nat : P(k)
    BY <1>3, SetInduction DEF S
  <1>5. \A q \in Pos : q \in Nat /\ q <= q
    BY MergeAssumption DEF Pos, N
  <1> QED BY <1>4, <1>5 DEF P

\* The nodes above a position, and with the position itself.
Above(q) == {PathFrom(q)[a] : a \in 1 .. Len(PathFrom(q))}
Line(q) == {q} \cup Above(q)

\* The nodes above a position are the next one and those above that one.
LEMMA AboveUnfolds ==
  /\ Above(0) = {}
  /\ \A q \in Pos : q # 0 => Above(q) = {Up(q)} \cup Above(Up(q)) /\ Above(q) = Line(Up(q))
  <1>1. Above(0) = {}
    BY PathUnfolds DEF Above
  <1>2. ASSUME NEW q \in Pos, q # 0 PROVE Above(q) = {Up(q)} \cup Above(Up(q))
    <2> DEFINE s == PathFrom(Up(q))
               r == PathFrom(q)
    <2>1. s \in Seq(Nodes) /\ Up(q) \in Nodes /\ r = <<Up(q)>> \o s
      BY <1>2, UpType, PathType, PathUnfolds
    <2> HIDE DEF s, r
    <2>2. /\ Len(s) \in Nat /\ Len(r) = Len(s) + 1 /\ r[1] = Up(q)
          /\ \A a \in 1 .. Len(s) : r[a + 1] = s[a]
      BY <2>1
    <2>3. \A a \in 1 .. Len(r) : a = 1 \/ (a - 1 \in 1 .. Len(s) /\ r[a] = s[a - 1])
      BY <2>2
    <2>4. \A a \in 1 .. Len(s) : a + 1 \in 1 .. Len(r)
      BY <2>2
    <2>5. 1 \in 1 .. Len(r)
      BY <2>2
    <2> DEFINE R == {r[a] : a \in 1 .. Len(r)}
               U == {s[a] : a \in 1 .. Len(s)}
    <2>6. \A x \in R : x \in {Up(q)} \cup U
      BY <2>2, <2>3
    <2>7. \A x \in U : x \in R
      BY <2>2, <2>4
    <2>8. Up(q) \in R
      BY <2>2, <2>5
    <2> HIDE DEF R, U
    <2>9. R = {Up(q)} \cup U
      BY <2>6, <2>7, <2>8
    <2> QED BY <2>9 DEF R, U, r, s, Above
  <1> QED BY <1>1, <1>2 DEF Line

-----------------------------------------------------------------------------
(* The games on a path, one after the other *)

\* One game of replayGames.
Play(acc, p, u) ==
  IF Challenges(acc.losers[p], acc.winner, u)
    THEN [winner |-> acc.losers[p], losers |-> [acc.losers EXCEPT ![p] = acc.winner]]
    ELSE acc

\* The results of the games on the sets of places of a path, as the fold has them.
Played(u, base, path, res) ==
  res = [s \in SUBSET (DOMAIN path) |->
           IF s = {} THEN base ELSE Play(res[s \ {Max(s)}], path[Max(s)], u)]

\* There are such results.
LEMMA PlayedExists ==
  ASSUME NEW u, NEW base, NEW path, NEW L \in Nat, DOMAIN path = 1 .. L
  PROVE  \E res : Played(u, base, path, res)
  <1> DEFINE S == SUBSET (1 .. L)
             Small(k) == {s \in S : Cardinality(s) <= k}
             Result(s, f) == IF s = {} THEN base ELSE Play(f[s \ {Max(s)}], path[Max(s)], u)
             P(k) == \E f : f = [s \in Small(k) |-> Result(s, f)]
             T == {k \in Nat : P(k)}
  <1>0. IsFiniteSet(1 .. L)
    BY FS_Interval
  <1>1. \A s \in S : /\ IsFiniteSet(s) /\ Cardinality(s) \in Nat
                     /\ s # {} => Max(s) \in s
                     /\ \A x \in s : Cardinality(s \ {x}) = Cardinality(s) - 1
    <2> TAKE s \in S
    <2>1. IsFiniteSet(s) /\ Cardinality(s) \in Nat
      BY <1>0, FS_Subset, FS_CardinalityType
    <2>2. \A x \in s : Cardinality(s \ {x}) = Cardinality(s) - 1
      BY <2>1, FS_RemoveElement
    <2>3. s # {} => Max(s) \in s
      <3> SUFFICES ASSUME s # {} PROVE Max(s) \in s
        OBVIOUS
      <3>1. \E x \in s : \A y \in s : x >= y
        <4>1. s \in SUBSET (0 .. L)
          OBVIOUS
        <4> QED BY <4>1, GreatestElement
      <3> QED BY <3>1 DEF Max
    <2> QED BY <2>1, <2>2, <2>3
  <1>2. P(0)
    <2>1. \A s \in Small(0) : s = {}
      <3> TAKE s \in Small(0)
      <3>1. s \in S /\ Cardinality(s) = 0
        BY <1>1
      <3> QED BY <1>1, <3>1, FS_EmptySet
    <2> HIDE DEF Small
    <2>2. [s \in Small(0) |-> base] = [s \in Small(0) |-> Result(s, [t \in Small(0) |-> base])]
      BY <2>1
    <2> QED BY <2>2
  <1>3. ASSUME NEW k \in Nat, P(k) PROVE P(k + 1)
    <2>1. PICK f : f = [s \in Small(k) |-> Result(s, f)]
      BY <1>3
    <2> DEFINE h == [s \in Small(k + 1) |-> Result(s, f)]
    <2>2. \A s \in Small(k + 1) : s # {} => s \ {Max(s)} \in Small(k)
      <3> SUFFICES ASSUME NEW s \in Small(k + 1), s # {} PROVE s \ {Max(s)} \in Small(k)
        OBVIOUS
      <3>1. s \in S /\ Cardinality(s) <= k + 1
        OBVIOUS
      <3>2. Max(s) \in s /\ Cardinality(s \ {Max(s)}) = Cardinality(s) - 1
        BY <1>1, <3>1
      <3>3. Cardinality(s) \in Nat
        BY <1>1, <3>1
      <3> DEFINE r == s \ {Max(s)}
      <3>6. r \in S
        BY <3>1
      <3>7. Cardinality(r) = Cardinality(s) - 1
        BY <3>2
      <3> HIDE DEF r
      <3>4. r \in S /\ Cardinality(r) <= k
        <4> HIDE DEF S
        <4> QED BY <3>1, <3>3, <3>6, <3>7
      <3>5. r \in Small(k)
        BY <3>4
      <3> QED BY <3>5 DEF r
    <2>3. \A s \in Small(k) : s \in Small(k + 1)
      <3> TAKE s \in Small(k)
      <3>1. s \in S /\ Cardinality(s) <= k /\ Cardinality(s) \in Nat
        BY <1>1
      <3> QED BY <3>1
    <2> HIDE DEF Small
    <2>4. \A s \in Small(k) : h[s] = f[s]
      BY <2>1, <2>3
    <2>5. \A s \in Small(k + 1) : Result(s, f) = Result(s, h)
      BY <2>2, <2>4
    <2>6. h = [s \in Small(k + 1) |-> Result(s, h)]
      <3> HIDE DEF Result
      <3>1. h = [s \in Small(k + 1) |-> Result(s, f)]
        OBVIOUS
      <3> HIDE DEF h
      <3> QED BY <2>5, <3>1
    <2> HIDE DEF h, Result
    <2> QED BY <2>6
  <1> HIDE DEF P
  <1>9. T \in SUBSET Nat /\ 0 \in T /\ \A k \in T : k + 1 \in T
    BY <1>2, <1>3
  <1> HIDE DEF T
  <1>4. \A k \in Nat : k \in T
    BY <1>9, SetInduction
  <1>5. P(Cardinality(1 .. L))
    BY <1>0, <1>4, FS_CardinalityType DEF T
  <1>6. Small(Cardinality(1 .. L)) = S
    BY <1>0, FS_Subset
  <1>7. PICK f : f = [s \in S |-> Result(s, f)]
    BY <1>5, <1>6 DEF P
  <1>8. Played(u, base, path, f)
    BY <1>7 DEF Played
  <1> QED BY <1>8

\* replayGames plays them all.
LEMMA ReplayIsPlayed ==
  ASSUME NEW u, NEW champion, NEW L \in Nat, DOMAIN PathFrom(winnerLeaf) = 1 .. L
  PROVE  \E res : /\ Played(u, [winner |-> champion, losers |-> losers], PathFrom(winnerLeaf), res)
                  /\ Replayed(champion, u) = res[1 .. L]
  <1> DEFINE path == PathFrom(winnerLeaf)
             base == [winner |-> champion, losers |-> losers]
             res == CHOOSE f : f = [s \in SUBSET (DOMAIN path) |->
                      IF s = {} THEN base
                      ELSE LET x == Max(s) IN
                           IF Challenges(f[s \ {x}].losers[path[x]], f[s \ {x}].winner, u)
                             THEN [winner |-> f[s \ {x}].losers[path[x]],
                                   losers |-> [f[s \ {x}].losers EXCEPT ![path[x]] = f[s \ {x}].winner]]
                             ELSE f[s \ {x}]]
  <1>1. Replayed(champion, u) = res[DOMAIN path]
    BY DEF Replayed, FoldLeft, MapThenFoldSet
  <1>2. Played(u, base, path, res)
    <2>1. \E f : Played(u, base, path, f)
      <3> HIDE DEF path, base
      <3> QED BY PlayedExists DEF path
    <2> HIDE DEF base, path
    <2> QED BY <2>1 DEF Played, Play
  <1> HIDE DEF res
  <1> QED BY <1>1, <1>2

\* What holds at the root and below every position where it holds.
LEMMA UpInduction ==
  ASSUME NEW T \in SUBSET Pos, 0 \in T, \A q \in Pos : q # 0 /\ Up(q) \in T => q \in T
  PROVE  \A q \in Pos : q \in T
  <1> SUFFICES ASSUME Pos \ T # {} PROVE FALSE
    OBVIOUS
  <1>1. Pos \in SUBSET Nat
    BY MergeAssumption DEF Pos, N
  <1>2. Pos \ T \in SUBSET Nat
    BY <1>1
  <1>3. PICK q \in Pos \ T : \A y \in Pos \ T : q <= y
    BY <1>2, LeastElement
  <1>4. q # 0 /\ q \in Pos
    BY <1>3
  <1>5. Up(q) \in Pos /\ Up(q) < q
    BY <1>4, UpType
  <1>6. ~(q <= Up(q))
    <2>1. Up(q) \in Nat /\ q \in Nat
      BY <1>1, <1>4, <1>5
    <2> QED BY <1>5, <2>1
  <1>7. Up(q) \in T
    BY <1>3, <1>5, <1>6
  <1> QED BY <1>3, <1>4, <1>7

\* The line of a position goes upwards and ends at the root.
LEMMA LineBounds ==
  ASSUME NEW q \in Pos
  PROVE  /\ \A x \in Above(q) : x \in Nodes /\ x \in Pos /\ x < q
         /\ \A x \in Line(q) : x \in Pos /\ x <= q
         /\ 0 \in Line(q)
  <1> DEFINE P(k) == 0 \in Line(k) /\ \A x \in Above(k) : x \in Nodes /\ x \in Pos /\ x < k
             T == {k \in Pos : P(k)}
  <1>0. Pos \in SUBSET Nat /\ 0 \in Pos
    BY MergeAssumption DEF Pos, N
  <1>1. P(0)
    BY AboveUnfolds DEF Line
  <1>2. ASSUME NEW k \in Pos, k # 0, P(Up(k)) PROVE P(k)
    <2>1. Up(k) \in Nodes /\ Up(k) \in Pos /\ Up(k) < k
      BY <1>2, UpType
    <2>2. Above(k) = Line(Up(k)) /\ Above(k) = {Up(k)} \cup Above(Up(k))
      BY <1>2, AboveUnfolds
    <2>3. \A x \in Above(k) : x \in Nodes /\ x \in Pos /\ x < k
      <3> TAKE x \in Above(k)
      <3>1. CASE x = Up(k)
        BY <2>1, <3>1
      <3>2. CASE x \in Above(Up(k))
        <4>1. x \in Nodes /\ x \in Pos /\ x < Up(k)
          BY <1>2, <3>2
        <4>2. x \in Nat /\ k \in Nat /\ Up(k) \in Nat
          BY <1>0, <2>1, <4>1
        <4> QED BY <2>1, <4>1, <4>2
      <3> QED BY <2>2, <3>1, <3>2
    <2>4. 0 \in Line(k)
      BY <1>2, <2>2 DEF Line
    <2> QED BY <2>3, <2>4
  <1> HIDE DEF P
  <1>3. T \in SUBSET Pos /\ 0 \in T /\ \A k \in Pos : k # 0 /\ Up(k) \in T => k \in T
    BY <1>0, <1>1, <1>2
  <1> HIDE DEF T
  <1>4. q \in T
    BY <1>3, UpInduction
  <1>5. P(q)
    BY <1>4 DEF T
  <1>6. \A x \in Line(q) : x \in Pos /\ x <= q
    <2> TAKE x \in Line(q)
    <2>1. CASE x = q
      BY <1>0, <2>1
    <2>2. CASE x \in Above(q)
      <3>1. x \in Pos /\ x < q
        BY <1>5, <2>2 DEF P
      <3>2. x \in Nat /\ q \in Nat
        BY <1>0, <3>1
      <3> QED BY <3>1, <3>2
    <2> QED BY <2>1, <2>2 DEF Line
  <1> QED BY <1>5, <1>6 DEF P

\* With a position, a line has all the nodes above it.
LEMMA LineUp ==
  ASSUME NEW q \in Pos, NEW x \in Line(q), NEW y \in Above(x)
  PROVE  y \in Above(q)
  <1> DEFINE P(k) == \A a \in Line(k) : \A b \in Above(a) : b \in Above(k)
             T == {k \in Pos : P(k)}
  <1>1. 0 \in Pos
    BY MergeAssumption DEF Pos, N
  <1>2. P(0)
    BY AboveUnfolds DEF Line
  <1>3. ASSUME NEW k \in Pos, k # 0, P(Up(k)) PROVE P(k)
    <2> SUFFICES ASSUME NEW a \in Line(k), NEW b \in Above(a) PROVE b \in Above(k)
      OBVIOUS
    <2>1. CASE a = k
      BY <2>1
    <2>2. CASE a \in Above(k)
      BY <1>3, <2>2, AboveUnfolds
    <2> QED BY <2>1, <2>2 DEF Line
  <1> HIDE DEF P
  <1>4. T \in SUBSET Pos /\ 0 \in T /\ \A k \in Pos : k # 0 /\ Up(k) \in T => k \in T
    BY <1>1, <1>2, <1>3
  <1> HIDE DEF T
  <1>5. q \in T
    BY <1>4, UpInduction
  <1> QED BY <1>5 DEF P, T

\* Of two positions of a line, one is above the other.
LEMMA LineComparable ==
  ASSUME NEW q \in Pos, NEW a \in Line(q), NEW b \in Line(q), a < b
  PROVE  a \in Above(b)
  <1> DEFINE P(k) == \A x, y \in Line(k) : x < y => x \in Above(y)
             T == {k \in Pos : P(k)}
  <1>1. Pos \in SUBSET Nat /\ 0 \in Pos
    BY MergeAssumption DEF Pos, N
  <1>2. P(0)
    BY AboveUnfolds DEF Line
  <1>3. ASSUME NEW k \in Pos, k # 0, P(Up(k)) PROVE P(k)
    <2> SUFFICES ASSUME NEW x \in Line(k), NEW y \in Line(k), x < y PROVE x \in Above(y)
      OBVIOUS
    <2>1. Above(k) = Line(Up(k))
      BY <1>3, AboveUnfolds
    <2>2. x \in Nat /\ y \in Nat /\ x <= k /\ y <= k /\ k \in Nat
      BY <1>1, LineBounds
    <2>3. x \in Above(k)
      BY <2>2 DEF Line
    <2>4. CASE y = k
      BY <2>3, <2>4
    <2>5. CASE y \in Above(k)
      BY <1>3, <2>1, <2>3, <2>5
    <2> QED BY <2>4, <2>5 DEF Line
  <1> HIDE DEF P
  <1>4. T \in SUBSET Pos /\ 0 \in T /\ \A k \in Pos : k # 0 /\ Up(k) \in T => k \in T
    BY <1>1, <1>2, <1>3
  <1> HIDE DEF T
  <1>5. q \in T
    BY <1>4, UpInduction
  <1> QED BY <1>5 DEF P, T

\* A line comes to a node from one of the two positions below it, never from both.
LEMMA Siblings ==
  ASSUME NEW q \in Pos, NEW a \in Line(q), NEW b \in Line(q), a # 0, b # 0, Up(a) = Up(b)
  PROVE  a = b
  <1>1. Pos \in SUBSET Nat /\ a \in Pos /\ b \in Pos
    BY LineBounds, MergeAssumption DEF Pos, N
  <1>2. ASSUME NEW x \in Line(q), NEW y \in Line(q), x \in Pos, y \in Pos, y # 0, x # 0, Up(x) = Up(y), x < y
        PROVE FALSE
    <2>1. x \in Above(y)
      BY <1>2, LineComparable
    <2>2. x \in Line(Up(y)) /\ Up(y) \in Pos
      BY <1>2, <2>1, AboveUnfolds, UpType
    <2>3. x <= Up(y)
      BY <2>2, LineBounds
    <2>4. Up(x) < x /\ Up(x) \in Pos
      BY <1>2, UpType
    <2>5. Up(x) \in Nat /\ x \in Nat
      BY <1>1, <1>2, <2>4
    <2>6. x <= Up(x) /\ Up(x) < x
      BY <1>2, <2>3, <2>4
    <2> QED BY <2>5, <2>6
  <1>3. ~(a < b) /\ ~(b < a)
    BY <1>1, <1>2
  <1> QED BY <1>1, <1>3

-----------------------------------------------------------------------------
(* The tree of losers, seen through the winner below every position.  *)

\* The game at node p: one of the two players below wins, the other one loses.
Pair(w, l, p) ==
  \/ w[p] = w[2 * p + 1] /\ l[p] = w[2 * p + 2]
  \/ w[p] = w[2 * p + 2] /\ l[p] = w[2 * p + 1]

\* The players at the leaves.
Seats(w) ==
  /\ w \in [Pos -> Player]
  /\ w[2 * N] = -1
  /\ \A i \in Readers : w[N + i] \in {i, -1}

Tree(w, l) == Seats(w) /\ \A p \in Nodes : Pair(w, l, p)

\* The winner of the game at p has the smaller head.
Ordered(w, l, u, p) ==
  l[p] # -1 => w[p] # -1 /\ HeadKey(w[p], u) <= HeadKey(l[p], u)

\* The two players of a game.
LEMMA Kids ==
  ASSUME NEW w, NEW l, NEW p \in Nodes, Pair(w, l, p)
  PROVE  \E a, b \in Pos : /\ a # b /\ a # 0 /\ b # 0 /\ Up(a) = p /\ Up(b) = p
                           /\ p < a /\ p < b /\ w[a] = w[p] /\ w[b] = l[p]
  <1> DEFINE a == 2 * p + 1
             b == 2 * p + 2
  <1>1. a \in Pos /\ b \in Pos /\ a # 0 /\ b # 0 /\ Up(a) = p /\ Up(b) = p /\ p < a /\ p < b
    BY KidsType
  <1>2. a # b
    BY DEF Nodes, Readers
  <1>3. (w[a] = w[p] /\ w[b] = l[p]) \/ (w[b] = w[p] /\ w[a] = l[p])
    BY DEF Pair
  <1> HIDE DEF a, b
  <1> QED BY <1>1, <1>2, <1>3

\* Who comes to a game wins or loses it.
LEMMA WinsOrLoses ==
  ASSUME NEW w, NEW l, Tree(w, l), NEW q \in Pos, q # 0
  PROVE  w[Up(q)] = w[q] \/ l[Up(q)] = w[q]
  <1>1. Up(q) \in Nodes /\ (q = 2 * Up(q) + 1 \/ q = 2 * Up(q) + 2)
    BY UpType
  <1>2. Pair(w, l, Up(q))
    BY <1>1 DEF Tree
  <1> DEFINE p == Up(q)
  <1>3. Pair(w, l, p) /\ (q = 2 * p + 1 \/ q = 2 * p + 2)
    BY <1>1, <1>2
  <1> HIDE DEF p
  <1>4. w[p] = w[q] \/ l[p] = w[q]
    BY <1>3 DEF Pair
  <1> QED BY <1>4 DEF p

\* A player only wins above its own leaf.
LEMMA WinsAboveLeaf ==
  ASSUME NEW w, NEW l, Tree(w, l), NEW x \in Pos, w[x] # -1
  PROVE  w[x] \in Readers /\ x \in Line(N + w[x])
  <1> DEFINE Bad == {q \in Pos : w[q] # -1 /\ q \notin Line(N + w[q])}
  <1>1. \A q \in Pos : w[q] # -1 => w[q] \in Readers
    BY DEF Tree, Seats, Player
  <1>2. Bad = {}
    <2> SUFFICES ASSUME Bad # {} PROVE FALSE
      OBVIOUS
    <2>1. 2 * N \in Nat /\ Bad \in SUBSET (0 .. 2 * N)
      BY MergeAssumption DEF Pos, N
    <2>2. PICK q \in Bad : \A y \in Bad : q >= y
      BY <2>1, GreatestElement
    <2>3. q \in Pos /\ w[q] # -1 /\ q \notin Line(N + w[q]) /\ w[q] \in Readers
      BY <1>1, <2>2
    <2>4. q # 2 * N
      BY <2>3 DEF Tree, Seats
    <2>5. ~(q - N \in Readers /\ q = N + (q - N))
      <3> DEFINE i == q - N
      <3> SUFFICES ASSUME i \in Readers, q = N + i PROVE FALSE
        OBVIOUS
      <3> HIDE DEF i
      <3>1. w[q] = i
        BY <2>3 DEF Tree, Seats
      <3> QED BY <2>3, <3>1 DEF Line
    <2>6. q \in Nodes
      BY <2>3, <2>4, <2>5, PosCases
    <2>7. PICK k \in Pos : k # 0 /\ Up(k) = q /\ q < k /\ w[k] = w[q]
      BY <2>6, Kids DEF Tree
    <2>8. k \notin Bad
      BY <2>1, <2>2, <2>3, <2>7 DEF Pos
    <2>9. k \in Line(N + w[q])
      BY <2>3, <2>7, <2>8
    <2>10. N + w[q] \in Pos
      BY <2>3, LeafType
    <2>11. q \in Above(k)
      BY <2>7, AboveUnfolds
    <2>12. q \in Above(N + w[q])
      BY <2>9, <2>10, <2>11, LineUp
    <2> QED BY <2>3, <2>12 DEF Line
  <1> QED BY <1>1, <1>2

\* Who has won at q has won everywhere between its leaf and q.
LEMMA WinsBelow ==
  ASSUME NEW w, NEW l, Tree(w, l), NEW c \in Readers,
         NEW b \in Line(N + c), NEW q \in Line(b), w[q] = c
  PROVE  w[b] = c
  <1> DEFINE Won == {x \in Line(b) : w[x] = c}
  <1>0. Pos \in SUBSET Nat /\ N + c \in Pos /\ c # -1
    BY LeafType, MergeAssumption DEF Pos, N, Readers
  <1>1. b \in Pos
    BY <1>0, LineBounds
  <1>2. SUFFICES ASSUME w[b] # c PROVE FALSE
    OBVIOUS
  <1>3. 2 * N \in Nat /\ Won \in SUBSET (0 .. 2 * N) /\ Won # {}
    <2>1. \A x \in Line(b) : x \in Pos
      BY <1>1, LineBounds
    <2>2. Won \in SUBSET Pos
      BY <2>1
    <2>3. q \in Won
      OBVIOUS
    <2> HIDE DEF Won
    <2> QED BY <2>2, <2>3, MergeAssumption DEF Pos, N
  <1>4. PICK x \in Won : \A y \in Won : x >= y
    BY <1>3, GreatestElement
  <1>5. x \in Line(b) /\ w[x] = c
    BY <1>4
  <1>6. x \in Above(b)
    BY <1>2, <1>5 DEF Line
  <1>7. x \in Nodes /\ x \in Pos /\ x < b
    BY <1>1, <1>6, LineBounds
  <1>8. PICK k \in Pos : k # 0 /\ Up(k) = x /\ x < k /\ w[k] = w[x]
    BY <1>7, Kids DEF Tree
  <1>9. k \in Line(N + c)
    BY <1>0, <1>5, <1>8, WinsAboveLeaf
  <1>10. k \in Nat /\ b \in Nat /\ x \in Nat
    BY <1>0, <1>1, <1>7, <1>8
  <1>11. CASE b < k
    <2>1. b \in Above(k)
      BY <1>0, <1>9, <1>11, LineComparable
    <2>2. b \in Line(x)
      BY <1>8, <2>1, AboveUnfolds
    <2>3. b <= x
      BY <1>7, <2>2, LineBounds
    <2> QED BY <1>7, <1>10, <2>3
  <1>12. CASE k = b
    BY <1>2, <1>5, <1>8, <1>12
  <1>13. CASE k < b
    <2>1. k \in Above(b)
      BY <1>0, <1>9, <1>13, LineComparable
    <2>2. k \in Won
      BY <1>5, <1>8, <2>1 DEF Line
    <2>3. x >= k
      BY <1>4, <2>2
    <2> QED BY <1>8, <1>10, <2>3
  <1> QED BY <1>10, <1>11, <1>12, <1>13

\* Who has won a game is at its own leaf.
LEMMA WinnerSits ==
  ASSUME NEW w, NEW l, Tree(w, l), NEW q \in Pos, w[q] # -1
  PROVE  w[q] \in Readers /\ w[N + w[q]] = w[q]
  BY WinsAboveLeaf, WinsBelow DEF Line

\* The winner has won on all the way to its leaf.
LEMMA WinnerLine ==
  ASSUME NEW w, NEW l, Tree(w, l), w[0] # -1, NEW b \in Line(N + w[0])
  PROVE  w[b] = w[0] /\ w[0] \in Readers
  <1>1. 0 \in Pos
    BY MergeAssumption DEF Pos, N
  <1>2. w[0] \in Readers /\ N + w[0] \in Pos
    BY <1>1, WinsAboveLeaf, LeafType
  <1>3. b \in Pos /\ 0 \in Line(b)
    BY <1>2, LineBounds
  <1> QED BY <1>2, <1>3, WinsBelow

\* Nobody loses twice, ...
LEMMA LosesOnce ==
  ASSUME NEW w, NEW l, Tree(w, l), NEW i \in Readers,
         NEW p \in Nodes, NEW r \in Nodes, l[p] = i, l[r] = i, p < r
  PROVE  FALSE
  <1> DEFINE leaf == N + i
  <1>0. Pos \in SUBSET Nat /\ leaf \in Pos /\ i # -1 /\ p \in Pos /\ r \in Pos
    BY LeafType, KidsType, MergeAssumption DEF Pos, N, Readers
  <1>1. PICK q \in Pos : q # 0 /\ Up(q) = p /\ w[q] = i
    BY Kids DEF Tree
  <1>2. PICK a, b \in Pos : /\ a # b /\ a # 0 /\ b # 0 /\ Up(a) = r /\ Up(b) = r
                            /\ w[a] = w[r] /\ w[b] = i
    BY Kids DEF Tree
  <1>3. q \in Line(leaf) /\ b \in Line(leaf)
    BY <1>0, <1>1, <1>2, WinsAboveLeaf
  <1>4. w[r] # i
    <2> SUFFICES ASSUME w[r] = i PROVE FALSE
      OBVIOUS
    <2>1. a \in Line(leaf)
      BY <1>0, <1>2, WinsAboveLeaf
    <2> HIDE DEF leaf
    <2> QED BY <1>0, <1>2, <1>3, <2>1, Siblings
  <1>5. r \in Line(leaf)
    <2>1. r \in Above(b)
      BY <1>2, AboveUnfolds
    <2> HIDE DEF leaf
    <2> QED BY <1>0, <1>3, <2>1, LineUp DEF Line
  <1>6. q \in Line(r)
    <2> HIDE DEF leaf
    <2>1. q \in Nat /\ r \in Nat /\ p \in Nat
      BY <1>0, <1>1
    <2>2. CASE r < q
      <3>1. r \in Above(q)
        BY <1>0, <1>3, <1>5, <2>2, LineComparable
      <3>2. r \in Line(p)
        BY <1>1, <3>1, AboveUnfolds
      <3>3. r <= p
        BY <1>0, <3>2, LineBounds
      <3> QED BY <2>1, <3>3
    <2>3. CASE q = r
      BY <2>3 DEF Line
    <2>4. CASE q < r
      BY <1>0, <1>3, <1>5, <2>4, LineComparable DEF Line
    <2> QED BY <2>1, <2>2, <2>3, <2>4
  <1>7. w[r] = i
    BY <1>1, <1>5, <1>6, WinsBelow
  <1> QED BY <1>4, <1>7

\* Every player but the winner of the whole tree loses a game.
LEMMA LosesSomewhere ==
  ASSUME NEW w, NEW l, Tree(w, l), NEW i \in Readers, w[N + i] = i, w[0] # i
  PROVE  \E p \in Nodes : l[p] = i
  <1> DEFINE Won == {q \in Pos : w[q] = i}
  <1>1. Won \in SUBSET Nat /\ Won # {} /\ Pos \in SUBSET Nat
    BY LeafType, MergeAssumption DEF Pos, N
  <1>2. PICK q \in Won : \A y \in Won : q <= y
    BY <1>1, LeastElement
  <1>3. q \in Pos /\ w[q] = i /\ q # 0
    BY <1>2
  <1>4. Up(q) \in Nodes /\ Up(q) \in Pos /\ Up(q) < q
    BY <1>3, UpType
  <1>5. ~(q <= Up(q))
    <2>1. q \in Nat /\ Up(q) \in Nat
      BY <1>1, <1>3, <1>4
    <2> QED BY <1>4, <2>1
  <1>6. w[Up(q)] # i
    BY <1>2, <1>4, <1>5
  <1>7. l[Up(q)] = i
    BY <1>3, <1>6, WinsOrLoses
  <1> QED BY <1>4, <1>7

\* The smallest head of the others has lost to the winner directly.
LEMMA RunnerUpLostToWinner ==
  ASSUME NEW w, NEW l, NEW u, Tree(w, l), w[0] # -1,
         \A p \in Nodes \ Above(N + w[0]) : Ordered(w, l, u, p),
         \A q \in Pos : w[q] \notin {-1, w[0]} => HeadKey(w[q], u) \in Int,
         NEW i \in Readers, i # w[0], w[N + i] = i
  PROVE  \E p \in Above(N + w[0]) : l[p] \in Readers /\ HeadKey(l[p], u) <= HeadKey(i, u)
  <1> DEFINE Small == {q \in Pos : w[q] \notin {-1, w[0]} /\ HeadKey(w[q], u) <= HeadKey(i, u)}
             c == w[0]
  <1>0. Pos \in SUBSET Nat /\ N + i \in Pos /\ i # -1 /\ 0 \in Pos
    BY LeafType, MergeAssumption DEF Pos, N, Readers
  <1>1. HeadKey(i, u) \in Int
    BY <1>0
  <1>2. Small \in SUBSET Nat /\ Small # {}
    <2>1. HeadKey(i, u) <= HeadKey(i, u)
      BY <1>1
    <2>2. N + i \in Small
      BY <1>0, <2>1
    <2> QED BY <1>0, <2>2
  <1>3. PICK q \in Small : \A y \in Small : q <= y
    BY <1>2, LeastElement
  <1>4. q \in Pos /\ w[q] \notin {-1, c} /\ HeadKey(w[q], u) <= HeadKey(i, u) /\ q # 0
    BY <1>3
  <1> DEFINE p == Up(q)
  <1>5. p \in Nodes /\ p \in Pos /\ p < q
    BY <1>4, UpType
  <1>6. p \notin Small
    <2>1. ~(q <= p)
      <3>1. q \in Nat /\ p \in Nat
        BY <1>0, <1>4, <1>5
      <3> QED BY <1>5, <3>1
    <2> QED BY <1>3, <2>1
  <1>7. l[p] = w[q]
    BY <1>4, <1>5, <1>6, WinsOrLoses
  <1>8. w[q] \in Readers /\ HeadKey(w[q], u) \in Int
    BY <1>4, WinsAboveLeaf
  <1> HIDE DEF p
  <1>9. p \in Above(N + c)
    <2> SUFFICES ASSUME p \notin Above(N + c) PROVE FALSE
      OBVIOUS
    <2>1. w[p] # -1 /\ HeadKey(w[p], u) <= HeadKey(w[q], u)
      BY <1>4, <1>5, <1>7 DEF Ordered
    <2>2. w[p] # c
      <3> SUFFICES ASSUME w[p] = c PROVE FALSE
        OBVIOUS
      <3>1. c \in Readers /\ p \in Line(N + c)
        BY <1>5, <2>1, WinsAboveLeaf
      <3>2. p # N + c
        BY <1>5, <3>1, LeafType
      <3> QED BY <3>1, <3>2 DEF Line
    <2>3. HeadKey(w[p], u) \in Int
      BY <1>5, <2>1, <2>2
    <2>4. HeadKey(w[p], u) <= HeadKey(i, u)
      <3> DEFINE x == HeadKey(w[p], u)
                 y == HeadKey(w[q], u)
                 z == HeadKey(i, u)
      <3>1. x \in Int /\ y \in Int /\ z \in Int /\ x <= y /\ y <= z
        BY <1>1, <1>4, <1>8, <2>1, <2>3
      <3> HIDE DEF x, y, z
      <3>2. x <= z
        BY <3>1
      <3> QED BY <3>2 DEF x, z
    <2> QED BY <1>5, <1>6, <2>1, <2>2, <2>4
  <1> QED BY <1>4, <1>7, <1>8, <1>9

-----------------------------------------------------------------------------
(* The games of the winner are played again. *)

\* The opponent in the next game.
LEMMA Opponent ==
  ASSUME NEW b \in Pos, b # 0
  PROVE  \E k \in Pos : /\ k # b /\ k # 0 /\ Up(k) = Up(b) /\ Up(b) < k
                        /\ \/ b = 2 * Up(b) + 1 /\ k = 2 * Up(b) + 2
                           \/ b = 2 * Up(b) + 2 /\ k = 2 * Up(b) + 1
  <1> DEFINE p == Up(b)
             c == 2 * p + 1
             d == 2 * p + 2
  <1>1. p \in Nodes /\ (b = c \/ b = d)
    BY UpType
  <1>2. c \in Pos /\ d \in Pos /\ Up(c) = p /\ Up(d) = p /\ p < c /\ p < d /\ c # 0 /\ d # 0
    BY <1>1, KidsType
  <1>3. c # d
    BY <1>1 DEF Nodes, Readers
  <1> HIDE DEF c, d
  <1>4. CASE b = c
    BY <1>2, <1>3, <1>4 DEF c, d
  <1>5. CASE b = d
    BY <1>2, <1>3, <1>5 DEF c, d
  <1> QED BY <1>1, <1>4, <1>5

\* The games up to b have been played: below b the tree is one of a tournament,
\* above b are those who lost to the winner there.
Come(v, acc, b, u, leaf) ==
  /\ Seats(v) /\ v[b] = acc.winner /\ acc.losers \in [Nodes -> Player]
  /\ \A p \in Nodes \ Above(b) : Pair(v, acc.losers, p) /\ Ordered(v, acc.losers, u, p)
  /\ \A p \in Above(b) : \A k \in Pos :
       k # 0 /\ Up(k) = p /\ k \notin Line(leaf) => acc.losers[p] = v[k]
  /\ \A q \in Pos \ Above(b) : v[q] # -1 => HeadKey(v[q], u) \in Int

\* The outcome of one game.
LEMMA GameOutcome ==
  ASSUME NEW acc, NEW p \in Nodes, NEW u, acc.losers \in [Nodes -> Player], acc.winner \in Player,
         acc.winner # -1 => HeadKey(acc.winner, u) \in Int,
         acc.losers[p] # -1 => HeadKey(acc.losers[p], u) \in Int
  PROVE  LET a == Play(acc, p, u)
         IN  /\ a.losers \in [Nodes -> Player] /\ a.winner \in Player
             /\ \A r \in Nodes : r # p => a.losers[r] = acc.losers[r]
             /\ \/ a.winner = acc.winner /\ a.losers[p] = acc.losers[p]
                \/ a.winner = acc.losers[p] /\ a.losers[p] = acc.winner
             /\ a.losers[p] # -1 =>
                  a.winner # -1 /\ HeadKey(a.winner, u) <= HeadKey(a.losers[p], u)
  <1> DEFINE x == acc.winner
             y == acc.losers[p]
             a == Play(acc, p, u)
  <1>1. x \in Player /\ y \in Player
    OBVIOUS
  <1>2. \A z \in Player : z \in Int /\ (z # -1 <=> z >= 0)
    BY MergeAssumption DEF Player, Readers
  <1>3. CASE Challenges(y, x, u)
    <2>1. a = [winner |-> y, losers |-> [acc.losers EXCEPT ![p] = x]]
      BY <1>3 DEF Play
    <2> HIDE DEF x, y, a
    <2>2. a.winner = y /\ a.losers = [acc.losers EXCEPT ![p] = x]
      BY <2>1
    <2>3. /\ a.losers \in [Nodes -> Player] /\ a.losers[p] = x
          /\ \A r \in Nodes : r # p => a.losers[r] = acc.losers[r]
      BY <1>1, <2>2
    <2>4. y # -1
      BY <1>1, <1>2, <1>3 DEF Challenges
    <2>5. x # -1 => HeadKey(y, u) < HeadKey(x, u)
      BY <1>1, <1>2, <1>3 DEF Challenges
    <2>6. x # -1 => HeadKey(y, u) <= HeadKey(x, u)
      <3> SUFFICES ASSUME x # -1 PROVE HeadKey(y, u) <= HeadKey(x, u)
        OBVIOUS
      <3> DEFINE g == HeadKey(y, u)
                 h == HeadKey(x, u)
      <3>1. g \in Int /\ h \in Int /\ g < h
        BY <2>4, <2>5 DEF x, y
      <3> HIDE DEF g, h
      <3>2. g <= h
        BY <3>1
      <3> QED BY <3>2 DEF g, h
    <2> QED BY <1>1, <2>2, <2>3, <2>4, <2>6 DEF x, y, a
  <1>4. CASE ~Challenges(y, x, u)
    <2>1. a = acc
      BY <1>4 DEF Play
    <2>2. y # -1 => x # -1 /\ ~(HeadKey(y, u) < HeadKey(x, u))
      <3> HIDE DEF x, y
      <3> QED BY <1>1, <1>2, <1>4 DEF Challenges
    <2>3. y # -1 => HeadKey(x, u) <= HeadKey(y, u)
      <3> SUFFICES ASSUME y # -1 PROVE HeadKey(x, u) <= HeadKey(y, u)
        OBVIOUS
      <3> DEFINE g == HeadKey(y, u)
                 h == HeadKey(x, u)
      <3>1. g \in Int /\ h \in Int /\ ~(g < h)
        BY <2>2
      <3> HIDE DEF g, h
      <3>2. h <= g
        BY <3>1
      <3> QED BY <3>2 DEF g, h
    <2> HIDE DEF a
    <2> QED BY <1>1, <2>1, <2>2, <2>3 DEF a
  <1> QED BY <1>3, <1>4

\* One game further up.
LEMMA OneMoreGame ==
  ASSUME NEW v, NEW acc, NEW b, NEW u, NEW leaf \in Pos, b \in Line(leaf), b # 0,
         Come(v, acc, b, u, leaf)
  PROVE  \E v2 : /\ Come(v2, Play(acc, Up(b), u), Up(b), u, leaf)
                 /\ \A i \in Readers : v2[N + i] = v[N + i]
  <1> DEFINE p == Up(b)
             a == Play(acc, p, u)
             v2 == [v EXCEPT ![p] = a.winner]
  <1>0. Pos \in SUBSET Nat /\ v \in [Pos -> Player] /\ b \in Pos
    BY LineBounds, MergeAssumption DEF Pos, N, Come, Seats
  <1>1. /\ p \in Nodes /\ p \in Pos /\ p < b
        /\ Above(b) = Line(p) /\ Above(b) = {p} \cup Above(p)
    BY <1>0, UpType, AboveUnfolds
  <1>2. PICK k \in Pos : /\ k # b /\ k # 0 /\ Up(k) = p /\ p < k
                         /\ \/ b = 2 * p + 1 /\ k = 2 * p + 2
                            \/ b = 2 * p + 2 /\ k = 2 * p + 1
    BY <1>0, Opponent
  <1> HIDE DEF p
  <1>3. k \notin Line(leaf)
    BY <1>2, Siblings DEF p
  <1>4. acc.losers[p] = v[k] /\ acc.winner = v[b]
    BY <1>1, <1>2, <1>3 DEF Come
  <1>5. b \notin Above(b) /\ k \notin Above(b) /\ p \notin Above(p) /\ p # b /\ p # k
    <2>1. b \in Nat /\ k \in Nat /\ p \in Nat
      BY <1>0, <1>1, <1>2
    <2>2. ~(b < b) /\ ~(p < p) /\ ~(k <= p) /\ p # b /\ p # k
      BY <1>1, <1>2, <2>1
    <2>3. b \notin Above(b) /\ p \notin Above(p)
      BY <1>0, <1>1, <2>2, LineBounds
    <2>4. k \notin Above(b)
      BY <1>1, <2>2, LineBounds
    <2> QED BY <2>2, <2>3, <2>4
  <1>6. /\ v[b] \in Player /\ v[k] \in Player
        /\ v[b] # -1 => HeadKey(v[b], u) \in Int
        /\ v[k] # -1 => HeadKey(v[k], u) \in Int
    BY <1>0, <1>2, <1>5 DEF Come
  <1>7. /\ a.losers \in [Nodes -> Player] /\ a.winner \in Player
        /\ \A r \in Nodes : r # p => a.losers[r] = acc.losers[r]
        /\ \/ a.winner = v[b] /\ a.losers[p] = v[k]
           \/ a.winner = v[k] /\ a.losers[p] = v[b]
        /\ a.losers[p] # -1 => a.winner # -1 /\ HeadKey(a.winner, u) <= HeadKey(a.losers[p], u)
    BY <1>1, <1>4, <1>6, GameOutcome DEF Come
  <1> HIDE DEF a
  <1>8. /\ v2 \in [Pos -> Player] /\ v2[p] = a.winner
        /\ \A q \in Pos : q # p => v2[q] = v[q]
    BY <1>0, <1>1, <1>7
  <1> HIDE DEF v2
  <1>9. \A i \in Readers : v2[N + i] = v[N + i]
    <2> TAKE i \in Readers
    <2>1. N + i \in Pos /\ N + i \notin Nodes
      BY LeafType
    <2> QED BY <1>1, <1>8, <2>1
  <1>10. Seats(v2)
    BY <1>1, <1>8, <1>9, MergeAssumption DEF Pos, N, Nodes, Readers, Come, Seats
  <1>11. \A q \in Pos \ Above(p) : v2[q] # -1 => HeadKey(v2[q], u) \in Int
    <2> TAKE q \in Pos \ Above(p)
    <2>1. CASE q = p
      BY <1>6, <1>7, <1>8, <2>1
    <2>2. CASE q # p
      BY <1>1, <1>8, <2>2 DEF Come
    <2> QED BY <2>1, <2>2
  <1>12. \A r \in Above(p) : \A x \in Pos :
           x # 0 /\ Up(x) = r /\ x \notin Line(leaf) => a.losers[r] = v2[x]
    <2> SUFFICES ASSUME NEW r \in Above(p), NEW x \in Pos, x # 0, Up(x) = r, x \notin Line(leaf)
                 PROVE  a.losers[r] = v2[x]
      OBVIOUS
    <2>1. p \in Line(leaf)
      BY <1>1, LineUp DEF Line
    <2>2. x # p /\ r # p /\ r \in Above(b) /\ r \in Nodes
      BY <1>1, <1>5, <2>1, LineBounds
    <2>3. acc.losers[r] = v[x]
      BY <2>2 DEF Come
    <2> QED BY <1>7, <1>8, <2>2, <2>3
  <1>13. ASSUME NEW r \in Nodes \ Above(p)
         PROVE  Pair(v2, a.losers, r) /\ Ordered(v2, a.losers, u, r)
    <2>1. CASE r = p
      <3>1. v2[b] = v[b] /\ v2[k] = v[k]
        BY <1>0, <1>2, <1>5, <1>8
      <3>2. \/ v2[2 * p + 1] = v[b] /\ v2[2 * p + 2] = v[k]
            \/ v2[2 * p + 1] = v[k] /\ v2[2 * p + 2] = v[b]
        BY <1>2, <3>1
      <3>3. Pair(v2, a.losers, p)
        BY <1>7, <1>8, <3>2 DEF Pair
      <3>4. Ordered(v2, a.losers, u, p)
        BY <1>7, <1>8 DEF Ordered
      <3> QED BY <2>1, <3>3, <3>4
    <2>2. CASE r # p
      <3>1. r \in Nodes \ Above(b) /\ r \in Nodes /\ r \in Pos
        BY <1>1, <2>2, KidsType
      <3> DEFINE x == 2 * r + 1
                 y == 2 * r + 2
      <3>2. x \in Pos /\ y \in Pos /\ Up(x) = r /\ Up(y) = r /\ x # 0 /\ y # 0
        BY <3>1, KidsType
      <3>3. x # p /\ y # p
        BY <1>1, <3>2, AboveUnfolds
      <3>4. v2[x] = v[x] /\ v2[y] = v[y] /\ v2[r] = v[r] /\ a.losers[r] = acc.losers[r]
        <4> HIDE DEF x, y
        <4> QED BY <1>7, <1>8, <2>2, <3>1, <3>2, <3>3
      <3>5. Pair(v, acc.losers, r) /\ Ordered(v, acc.losers, u, r)
        BY <3>1 DEF Come
      <3> QED BY <3>4, <3>5 DEF Pair, Ordered
    <2> QED BY <2>1, <2>2
  <1>14. Come(v2, a, p, u, leaf)
    BY <1>7, <1>8, <1>10, <1>11, <1>12, <1>13 DEF Come
  <1> QED BY <1>9, <1>14 DEF a, p

\* A path goes from one position to the one above it, and ends at the root.
LEMMA PathSteps ==
  ASSUME NEW leaf \in Pos, leaf # 0
  PROVE  LET s == PathFrom(leaf)
         IN  /\ s \in Seq(Nodes) /\ Len(s) \in Nat /\ Len(s) # 0
             /\ s[1] = Up(leaf) /\ s[Len(s)] = 0
             /\ \A a \in 1 .. Len(s) - 1 : s[a] # 0 /\ s[a + 1] = Up(s[a])
  <1> DEFINE P(q) == q # 0 =>
               LET s == PathFrom(q)
               IN  /\ s \in Seq(Nodes) /\ Len(s) \in Nat /\ Len(s) # 0
                   /\ s[1] = Up(q) /\ s[Len(s)] = 0
                   /\ \A a \in 1 .. Len(s) - 1 : s[a] # 0 /\ s[a + 1] = Up(s[a])
             T == {q \in Pos : P(q)}
  <1>1. 0 \in Pos /\ P(0)
    BY MergeAssumption DEF Pos, N
  <1>2. ASSUME NEW q \in Pos, q # 0, P(Up(q)) PROVE P(q)
    <2> DEFINE s == PathFrom(q)
               p == Up(q)
               t == PathFrom(p)
    <2>1. p \in Nodes /\ p \in Pos
      BY <1>2, UpType
    <2>2. s = <<p>> \o t /\ t \in Seq(Nodes)
      BY <1>2, <2>1, PathUnfolds, PathType
    <2>3. p = 0 => t = << >>
      BY PathUnfolds
    <2>4. p # 0 => /\ Len(t) # 0 /\ t[1] = Up(p) /\ t[Len(t)] = 0
                   /\ \A a \in 1 .. Len(t) - 1 : t[a] # 0 /\ t[a + 1] = Up(t[a])
      BY <1>2
    <2> HIDE DEF s, p, t
    <2>5. /\ s \in Seq(Nodes) /\ Len(t) \in Nat /\ Len(s) = Len(t) + 1 /\ s[1] = p
          /\ \A a \in 1 .. Len(t) : s[a + 1] = t[a]
      BY <2>1, <2>2
    <2>6. CASE p = 0
      BY <2>3, <2>5, <2>6 DEF p, s
    <2>7. CASE p # 0
      <3>1. Len(t) \in 1 .. Len(t) /\ 1 \in 1 .. Len(t)
        BY <2>4, <2>5, <2>7
      <3>2. s[Len(s)] = 0 /\ s[2] = Up(p)
        BY <2>4, <2>5, <2>7, <3>1
      <3>3. ASSUME NEW a \in 1 .. Len(s) - 1 PROVE s[a] # 0 /\ s[a + 1] = Up(s[a])
        <4>1. CASE a = 1
          BY <2>5, <2>7, <3>2, <4>1
        <4>2. CASE a # 1
          <5> DEFINE d == a - 1
          <5>1. d \in 1 .. Len(t) - 1 /\ d \in 1 .. Len(t) /\ d + 1 \in 1 .. Len(t) /\ a = d + 1
            BY <2>5, <4>2
          <5> HIDE DEF d
          <5>2. s[a] = t[d] /\ s[a + 1] = t[d + 1]
            BY <2>5, <5>1
          <5>3. t[d] # 0 /\ t[d + 1] = Up(t[d])
            BY <2>4, <2>7, <5>1
          <5> QED BY <5>2, <5>3
        <4> QED BY <4>1, <4>2
      <3>4. Len(s) \in Nat /\ Len(s) # 0
        BY <2>5
      <3> QED BY <2>5, <3>2, <3>3, <3>4 DEF p, s
    <2> QED BY <2>6, <2>7
  <1> HIDE DEF P
  <1>3. T \in SUBSET Pos /\ 0 \in T /\ \A q \in Pos : q # 0 /\ Up(q) \in T => q \in T
    BY <1>1, <1>2
  <1> HIDE DEF T
  <1>4. leaf \in T
    BY <1>3, UpInduction
  <1>5. P(leaf)
    BY <1>4 DEF T
  <1> QED BY <1>5 DEF P

\* The results after a games and after one more.
LEMMA PlayedStep ==
  ASSUME NEW u, NEW base, NEW path, NEW L \in Nat, DOMAIN path = 1 .. L,
         NEW res, Played(u, base, path, res)
  PROVE  /\ res[{}] = base
         /\ \A a \in 0 .. L - 1 : res[1 .. (a + 1)] = Play(res[1 .. a], path[a + 1], u)
  <1>1. \A s \in SUBSET (1 .. L) :
          res[s] = IF s = {} THEN base ELSE Play(res[s \ {Max(s)}], path[Max(s)], u)
    BY DEF Played
  <1>2. res[{}] = base
    BY <1>1
  <1>3. ASSUME NEW a \in 0 .. L - 1
        PROVE  res[1 .. (a + 1)] = Play(res[1 .. a], path[a + 1], u)
    <2> DEFINE s == 1 .. (a + 1)
    <2>1. s \in SUBSET (1 .. L) /\ s # {} /\ a + 1 \in s
      <3>1. a \in Nat /\ a + 1 <= L
        OBVIOUS
      <3>2. a + 1 \in s
        BY <3>1
      <3>3. \A x \in s : x \in 1 .. L
        BY <3>1
      <3> HIDE DEF s
      <3> QED BY <3>2, <3>3
    <2>2. Max(s) = a + 1
      <3>1. \A y \in s : a + 1 >= y
        OBVIOUS
      <3>2. \A x \in s : (\A y \in s : x >= y) => x = a + 1
        OBVIOUS
      <3> HIDE DEF s
      <3> QED BY <2>1, <3>1, <3>2 DEF Max
    <2>3. s \ {a + 1} = 1 .. a
      OBVIOUS
    <2> HIDE DEF s
    <2>4. res[s] = Play(res[s \ {Max(s)}], path[Max(s)], u)
      BY <1>1, <2>1
    <2> QED BY <2>2, <2>3, <2>4 DEF s
  <1> QED BY <1>2, <1>3

\* The games on the winner's line can be played again with the champion in the
\* winner's place, and the heads that u leaves.
BeforeGames(w, champion, u) ==
  /\ Tree(w, losers) /\ w[0] # -1 /\ winnerLeaf = N + w[0]
  /\ losers \in [Nodes -> Player] /\ champion \in {w[0], -1}
  /\ \A p \in Nodes \ Above(winnerLeaf) : Ordered(w, losers, u, p)
  /\ \A q \in Pos : w[q] \notin {-1, w[0]} => HeadKey(w[q], u) \in Int
  /\ champion # -1 => HeadKey(champion, u) \in Int

\* The result is a tree whose games are all decided.
AfterGames(w, champion, r, u) ==
  \E v : /\ Tree(v, r.losers) /\ r.losers \in [Nodes -> Player] /\ v[0] = r.winner
         /\ \A p \in Nodes : Ordered(v, r.losers, u, p)
         /\ \A i \in Readers : v[N + i] = IF i = w[0] THEN champion ELSE w[N + i]

\* Before the first game: the champion is in the winner's seat, and each loser
\* on the winner's line came to its game from elsewhere.
LEMMA BeforeReplay ==
  ASSUME NEW w, NEW u, NEW champion, BeforeGames(w, champion, u)
  PROVE  LET v == [w EXCEPT ![winnerLeaf] = champion]
         IN  /\ Come(v, [winner |-> champion, losers |-> losers], winnerLeaf, u, winnerLeaf)
             /\ \A i \in Readers : v[N + i] = IF i = w[0] THEN champion ELSE w[N + i]
  <1> USE DEF BeforeGames
  <1> DEFINE v == [w EXCEPT ![winnerLeaf] = champion]
             acc == [winner |-> champion, losers |-> losers]
             c == w[0]
  <1>0. /\ 0 \in Pos /\ c \in Readers /\ winnerLeaf \in Pos /\ winnerLeaf \notin Nodes
        /\ winnerLeaf # 0 /\ winnerLeaf < 2 * N
    BY MergeAssumption, WinsAboveLeaf, LeafType DEF Pos, N
  <1>1. w \in [Pos -> Player] /\ champion \in Player
    BY <1>0 DEF Tree, Seats, Player
  <1>2. v \in [Pos -> Player] /\ v[winnerLeaf] = champion /\ \A q \in Pos : q # winnerLeaf => v[q] = w[q]
    BY <1>0, <1>1
  <1> HIDE DEF v
  <1>3. \A i \in Readers : v[N + i] = IF i = c THEN champion ELSE w[N + i]
    <2> TAKE i \in Readers
    <2>1. CASE i = c
      BY <1>2, <2>1
    <2>2. CASE i # c
      BY <1>0, <1>2, <2>2, LeafType, MergeAssumption DEF N, Readers
    <2> QED BY <2>1, <2>2
  <1>4. Seats(v)
    BY <1>0, <1>2, <1>3, MergeAssumption DEF Pos, N, Tree, Seats
  <1>5. ASSUME NEW p \in Nodes \ Above(winnerLeaf)
        PROVE  Pair(v, losers, p) /\ Ordered(v, losers, u, p)
    <2> DEFINE x == 2 * p + 1
               y == 2 * p + 2
    <2>1. x \in Pos /\ y \in Pos /\ p \in Pos /\ Up(x) = p /\ Up(y) = p
      BY KidsType
    <2>2. Up(winnerLeaf) \in Above(winnerLeaf)
      BY <1>0, AboveUnfolds
    <2>3. x # winnerLeaf /\ y # winnerLeaf /\ p # winnerLeaf
      BY <1>0, <2>1, <2>2
    <2>4. v[x] = w[x] /\ v[y] = w[y] /\ v[p] = w[p]
      <3> HIDE DEF x, y
      <3> QED BY <1>2, <2>1, <2>3
    <2>5. Pair(w, losers, p) /\ Ordered(w, losers, u, p)
      BY DEF Tree
    <2> QED BY <2>4, <2>5 DEF Pair, Ordered
  <1>6. ASSUME NEW p \in Above(winnerLeaf), NEW k \in Pos, k # 0, Up(k) = p, k \notin Line(winnerLeaf)
        PROVE  losers[p] = v[k]
    <2>1. p \in Line(winnerLeaf) /\ k # winnerLeaf /\ v[k] = w[k] /\ p \in Nodes
      BY <1>0, <1>2, <1>6, LineBounds DEF Line
    <2>2. w[p] = c
      BY <2>1, WinnerLine
    <2>3. w[k] # c
      <3> SUFFICES ASSUME w[k] = c PROVE FALSE
        OBVIOUS
      <3> QED BY <1>6, WinsAboveLeaf
    <2>4. losers[p] = w[k]
      BY <1>6, <2>2, <2>3, WinsOrLoses
    <2> QED BY <2>1, <2>4
  <1>7. ASSUME NEW q \in Pos \ Above(winnerLeaf), v[q] # -1 PROVE HeadKey(v[q], u) \in Int
    <2>1. CASE q = winnerLeaf
      BY <1>2, <1>7, <2>1
    <2>2. CASE q # winnerLeaf
      <3>1. v[q] = w[q] /\ w[q] # -1
        BY <1>2, <1>7, <2>2
      <3>2. w[q] # c
        <4> SUFFICES ASSUME w[q] = c PROVE FALSE
          OBVIOUS
        <4>1. q \in Line(winnerLeaf)
          BY <3>1, WinsAboveLeaf
        <4> QED BY <2>2, <4>1 DEF Line
      <3> QED BY <3>1, <3>2
    <2> QED BY <2>1, <2>2
  <1>8. acc.winner = champion /\ acc.losers = losers
    OBVIOUS
  <1> HIDE DEF acc
  <1>9. Come(v, acc, winnerLeaf, u, winnerLeaf)
    BY <1>2, <1>4, <1>5, <1>6, <1>7, <1>8 DEF Come
  <1> QED BY <1>3, <1>9 DEF v, acc

\* After the last game the tree is one of a tournament again.
LEMMA ReplayTree ==
  ASSUME NEW w, NEW u, NEW champion, BeforeGames(w, champion, u)
  PROVE  AfterGames(w, champion, Replayed(champion, u), u)
  <1> USE DEF BeforeGames
  <1> DEFINE path == PathFrom(winnerLeaf)
             L == Len(path)
             base == [winner |-> champion, losers |-> losers]
             At(a) == IF a = 0 THEN winnerLeaf ELSE path[a]
             Sits(v) == \A i \in Readers : v[N + i] = IF i = w[0] THEN champion ELSE w[N + i]
  <1>0. 0 \in Pos /\ winnerLeaf \in Pos /\ winnerLeaf # 0
    BY MergeAssumption, WinsAboveLeaf, LeafType DEF Pos, N
  <1>1. /\ path \in Seq(Nodes) /\ L \in Nat /\ L # 0 /\ DOMAIN path = 1 .. L
        /\ path[1] = Up(winnerLeaf) /\ path[L] = 0
        /\ \A a \in 1 .. L - 1 : path[a] # 0 /\ path[a + 1] = Up(path[a])
    BY <1>0, PathSteps
  <1>2. \A a \in 1 .. L : path[a] \in Above(winnerLeaf)
    BY DEF Above
  <1>3. ASSUME NEW a \in 0 .. L - 1
        PROVE  At(a) \in Line(winnerLeaf) /\ At(a) # 0 /\ path[a + 1] = Up(At(a)) /\ At(a + 1) = path[a + 1]
    <2> HIDE DEF path, L
    <2>1. At(a + 1) = path[a + 1]
      OBVIOUS
    <2>2. CASE a = 0
      BY <1>0, <1>1, <2>1, <2>2 DEF Line
    <2>3. CASE a # 0
      BY <1>1, <1>2, <2>1, <2>3 DEF Line
    <2> QED BY <2>2, <2>3
  <1>4. PICK res : Played(u, base, path, res) /\ Replayed(champion, u) = res[1 .. L]
    BY <1>1, ReplayIsPlayed
  <1>5. /\ res[{}] = base
        /\ \A a \in 0 .. L - 1 : res[1 .. (a + 1)] = Play(res[1 .. a], path[a + 1], u)
    <2> HIDE DEF path, L, base
    <2> QED BY <1>1, <1>4, PlayedStep
  <1> DEFINE P(a) == a <= L => \E v : Come(v, res[1 .. a], At(a), u, winnerLeaf) /\ Sits(v)
             T == {a \in Nat : P(a)}
  <1>6. P(0)
    <2>1. Come([w EXCEPT ![winnerLeaf] = champion], base, winnerLeaf, u, winnerLeaf)
          /\ Sits([w EXCEPT ![winnerLeaf] = champion])
      BY BeforeReplay
    <2>2. 1 .. 0 = {} /\ At(0) = winnerLeaf
      OBVIOUS
    <2> HIDE DEF base, Sits, At
    <2> QED BY <1>5, <2>1, <2>2
  <1>7. ASSUME NEW a \in Nat, P(a) PROVE P(a + 1)
    <2> HIDE DEF path, L, base, At
    <2> SUFFICES ASSUME a + 1 <= L
                 PROVE \E v : Come(v, res[1 .. (a + 1)], At(a + 1), u, winnerLeaf) /\ Sits(v)
      OBVIOUS
    <2>1. a \in 0 .. L - 1 /\ a <= L
      BY <1>1
    <2>2. PICK v : Come(v, res[1 .. a], At(a), u, winnerLeaf) /\ Sits(v)
      BY <1>7, <2>1
    <2> DEFINE b == At(a)
               acc == res[1 .. a]
    <2>3. b \in Line(winnerLeaf) /\ b # 0 /\ Come(v, acc, b, u, winnerLeaf)
      BY <1>3, <2>1, <2>2
    <2>4. At(a + 1) = Up(b) /\ res[1 .. (a + 1)] = Play(acc, Up(b), u)
      BY <1>3, <1>5, <2>1
    <2> HIDE DEF b, acc
    <2>5. \E v2 : /\ Come(v2, Play(acc, Up(b), u), Up(b), u, winnerLeaf)
                  /\ \A i \in Readers : v2[N + i] = v[N + i]
      BY <1>0, <2>3, OneMoreGame
    <2> QED BY <2>2, <2>4, <2>5
  <1> HIDE DEF P
  <1>8. T \in SUBSET Nat /\ 0 \in T /\ \A a \in T : a + 1 \in T
    BY <1>6, <1>7
  <1> HIDE DEF T
  <1>9. L \in T
    BY <1>1, <1>8, SetInduction
  <1>10. P(L)
    BY <1>9 DEF T
  <1>11. At(L) = 0 /\ L <= L
    BY <1>1
  <1> HIDE DEF L, path, At, Sits
  <1>12. PICK v : Come(v, res[1 .. L], 0, u, winnerLeaf) /\ Sits(v)
    BY <1>10, <1>11 DEF P
  <1> DEFINE r == Replayed(champion, u)
  <1>13. r = res[1 .. L]
    BY <1>4
  <1> HIDE DEF r
  <1>14. \A p \in Nodes : p \in Nodes \ Above(0)
    BY AboveUnfolds
  <1>15. /\ Seats(v) /\ v[0] = r.winner /\ r.losers \in [Nodes -> Player]
         /\ \A p \in Nodes : Pair(v, r.losers, p) /\ Ordered(v, r.losers, u, p)
    BY <1>12, <1>13, <1>14 DEF Come
  <1>16. Tree(v, r.losers)
    BY <1>15 DEF Tree
  <1> QED BY <1>12, <1>15, <1>16 DEF r, Sits, AfterGames

-----------------------------------------------------------------------------
(* The inductive invariant *)

\* What was emitted is in the buffer's past, what was read in the reader's.
Windows == \A i \in Readers : used[i] <= taken[i] /\ taken[i] <= Len(input[i])

BuffersOK == TypeOK /\ Windows /\ input \in [Readers -> SortedInput]

\* The readers that take part in the tournament.
Alive(w) == {i \in Readers : w[N + i] = i}

\* The tree while there is a winner.  The winner's own head may be stale: then
\* the games on its line are not decided.
Standing(w) ==
  /\ Tree(w, losers)
  /\ w[0] = winner /\ winner # -1 /\ winnerLeaf = N + winner
  /\ \A p \in Nodes \ Above(winnerLeaf) : Ordered(w, losers, used, p)
  /\ ~empty(winner) => \A p \in Nodes : Ordered(w, losers, used, p)
  /\ count = Cardinality(Alive(w))
  /\ \A i \in Readers : IF w[N + i] = i THEN i # winner => used[i] < taken[i]
                                       ELSE used[i] = taken[i] /\ used[i] = Len(input[i])

\* Before initialize, every reader is in its place and nothing was read.
NothingRead ==
  /\ pc = "idle"
  /\ \A i \in Readers : leaves[i] = i /\ used[i] = taken[i]

\* While initialize reads, the readers up to pos have rows or were given up.
Seated ==
  /\ \A i \in Readers :
       IF i < pos THEN IF leaves[i] = i THEN used[i] < taken[i]
                       ELSE leaves[i] = -1 /\ used[i] = taken[i] /\ used[i] = Len(input[i])
       ELSE leaves[i] = i /\ used[i] = taken[i]
  /\ count = Cardinality({i \in Readers : leaves[i] = i})

\* After a failure in initialize the caller gives up: the readers that were not
\* reached would be forgotten.
NoRetryOfInitialize == "initialize" \notin Retries

\* When no reader is left, all their rows were emitted.
Finished ==
  (NoRetryOfInitialize /\ initialized /\ pc \notin {"initialize", "failed"} /\ count = 0)
    => \A i \in Readers : used[i] = Len(input[i])

TournamentInv ==
  /\ BuffersOK
  /\ ~initialized => NothingRead
  /\ initialized /\ pc = "initialize" => Seated
  /\ initialized /\ pc # "initialize" /\ count # 0 => \E w : Standing(w)
  /\ pc = "eof" => count = 0
  /\ Finished

-----------------------------------------------------------------------------
(* Facts about the buffers *)

\* The input of a reader is a sorted sequence.
LEMMA InputType ==
  ASSUME BuffersOK, NEW i \in Readers
  PROVE  /\ input[i] \in Seq(Int) /\ Len(input[i]) \in Nat
         /\ \A j, k \in 1 .. Len(input[i]) : j <= k => input[i][j] <= input[i][k]
  <1>1. input[i] \in SortedInput
    BY DEF BuffersOK, TypeOK
  <1>2. PICK m \in 0 .. MaxInput : input[i] \in [1 .. m -> Key]
    BY <1>1 DEF SortedInput
  <1>3. m \in Nat
    BY MergeAssumption
  <1>4. \A j \in 1 .. m : input[i][j] \in Int
    BY <1>2, MergeAssumption
  <1>5. input[i] = [j \in 1 .. m |-> input[i][j]]
    BY <1>2
  <1>6. input[i] \in Seq(Int)
    BY <1>3, <1>4, <1>5
  <1>7. SortedKeys(input[i])
    BY <1>1 DEF SortedInput
  <1> QED BY <1>6, <1>7 DEF SortedKeys

\* The buffer of the next read is neither empty nor larger than allowed.
LEMMA BufferLenType ==
  ASSUME BuffersOK, NEW i \in Readers
  PROVE  BufferLen(i) \in 1 .. maxRowBufferSize
  BY MergeAssumption DEF BuffersOK, TypeOK, BufferLen, Lesser

\* A read that returns rows makes the reader ready.
LEMMA FillReady ==
  ASSUME BuffersOK, NEW i \in Readers, Fill(i)
  PROVE  /\ taken' \in [Readers -> Nat] /\ len' \in [Readers -> 0 .. maxRowBufferSize]
         /\ full' \in [Readers -> BOOLEAN]
         /\ UNCHANGED <<input, used>>
         /\ used[i] < taken'[i]
         /\ \A j \in Readers : /\ used[j] <= taken'[j] /\ taken'[j] <= Len(input[j])
                               /\ taken[j] <= taken'[j] /\ (j # i => taken'[j] = taken[j])
  <1>1. /\ BufferLen(i) \in 1 .. maxRowBufferSize /\ Len(input[i]) \in Nat
        /\ maxRowBufferSize \in Nat
    BY BufferLenType, InputType, MergeAssumption
  <1>2. PICK m \in 1 .. Lesser(BufferLen(i), Len(input[i]) - taken[i]) :
          /\ taken' = [taken EXCEPT ![i] = @ + m]
          /\ len' = [len EXCEPT ![i] = BufferLen(i)]
          /\ full' = [full EXCEPT ![i] = (m = BufferLen(i))]
          /\ UNCHANGED <<input, used>>
    BY DEF Fill
  <1>3. \A j \in Readers : taken[j] \in Nat /\ used[j] \in Nat /\ used[j] <= taken[j]
                           /\ taken[j] <= Len(input[j])
    BY DEF BuffersOK, TypeOK, Windows
  <1>4. m \in Nat \ {0} /\ taken[i] + m <= Len(input[i])
    BY <1>1, <1>2, <1>3 DEF Lesser
  <1>5. taken' \in [Readers -> Nat] /\ len' \in [Readers -> 0 .. maxRowBufferSize]
    <2>1. BufferLen(i) \in 0 .. maxRowBufferSize /\ taken[i] + m \in Nat
      BY <1>1, <1>3, <1>4
    <2> HIDE DEF BufferLen
    <2> QED BY <1>2, <2>1 DEF BuffersOK, TypeOK
  <1>6. full' \in [Readers -> BOOLEAN]
    BY <1>2, Zenon DEF BuffersOK, TypeOK
  <1>7. taken'[i] = taken[i] + m /\ \A j \in Readers : j # i => taken'[j] = taken[j]
    BY <1>2 DEF BuffersOK, TypeOK
  <1>8. used[i] < taken'[i]
    BY <1>3, <1>4, <1>7
  <1>9. \A j \in Readers : /\ used[j] <= taken'[j] /\ taken'[j] <= Len(input[j])
                           /\ taken[j] <= taken'[j]
    BY <1>3, <1>4, <1>7
  <1> QED BY <1>2, <1>5, <1>6, <1>7, <1>8, <1>9

\* A read that finds the end, or fails, leaves the rows alone.
LEMMA FillLeaves ==
  ASSUME BuffersOK, NEW i \in Readers,
         len' = [len EXCEPT ![i] = BufferLen(i)], UNCHANGED <<input, taken, used, full>>
  PROVE  /\ taken' \in [Readers -> Nat] /\ len' \in [Readers -> 0 .. maxRowBufferSize]
         /\ full' \in [Readers -> BOOLEAN]
         /\ Windows'
  BY BufferLenType, MergeAssumption DEF BuffersOK, TypeOK, Windows

\* A run of a reader as a batch.
LEMMA RunOfType ==
  ASSUME BuffersOK, NEW i \in Readers, NEW m \in Nat
  PROVE  /\ RunOf(i, m) \in Seq(Readers \X (Nat \ {0})) /\ Len(RunOf(i, m)) = m
         /\ \A j \in 1 .. m : RunOf(i, m)[j] = <<i, used[i] + j>>
  <1>1. used[i] \in Nat
    BY DEF BuffersOK, TypeOK
  <1>2. \A j \in 1 .. m : <<i, used[i] + j>> \in Readers \X (Nat \ {0})
    BY <1>1
  <1>3. RunOf(i, m) \in Seq(Readers \X (Nat \ {0}))
    BY <1>2 DEF RunOf
  <1> QED BY <1>3 DEF RunOf

\* Rows that are in the buffers and for which there is room can be emitted.
LEMMA EmitType ==
  ASSUME BuffersOK, NEW batch \in Seq(Readers \X (Nat \ {0})), NEW u \in [Readers -> Nat],
         \A i \in Readers : used[i] <= u[i] /\ u[i] <= taken[i],
         n + Len(batch) <= want, Emit(batch, u)
  PROVE  /\ n' \in Nat /\ n' <= want' /\ want' = want
         /\ out' \in Seq(Readers \X (Nat \ {0}))
         /\ used' = u /\ Windows'
         /\ UNCHANGED <<input, taken, len, full, want, faults>>
  <1>1. n \in Nat /\ want \in Nat /\ out \in Seq(Readers \X (Nat \ {0})) /\ Len(batch) \in Nat
    BY DEF BuffersOK, TypeOK
  <1>2. /\ out' = out \o batch /\ n' = n + Len(batch) /\ used' = u
        /\ UNCHANGED <<input, taken, len, full, want, faults>>
    BY DEF Emit
  <1>3. out' \in Seq(Readers \X (Nat \ {0}))
    BY <1>1, <1>2
  <1>4. n' \in Nat /\ n' <= want' /\ want' = want
    BY <1>1, <1>2
  <1>5. Windows'
    BY <1>2 DEF BuffersOK, Windows
  <1> QED BY <1>2, <1>3, <1>4, <1>5

\* What is used after a run was emitted stays within the buffers.
LEMMA AdvanceType ==
  ASSUME BuffersOK, NEW i \in Readers, NEW m \in Nat, used[i] + m <= taken[i]
  PROVE  /\ Advance(i, m) \in [Readers -> Nat] /\ Advance(i, m)[i] = used[i] + m
         /\ \A k \in Readers : k # i => Advance(i, m)[k] = used[k]
         /\ \A k \in Readers : used[k] <= Advance(i, m)[k] /\ Advance(i, m)[k] <= taken[k]
  <1>1. \A k \in Readers : used[k] \in Nat /\ taken[k] \in Nat /\ used[k] <= taken[k]
    BY DEF BuffersOK, TypeOK, Windows
  <1>2. /\ Advance(i, m) \in [Readers -> Nat] /\ Advance(i, m)[i] = used[i] + m
        /\ \A k \in Readers : k # i => Advance(i, m)[k] = used[k]
    BY <1>1 DEF BuffersOK, TypeOK, Advance
  <1> QED BY <1>1, <1>2

-----------------------------------------------------------------------------
(* The first games *)

\* The head of a reader with rows left.
LEMMA HeadType ==
  ASSUME BuffersOK, NEW i \in Readers, NEW u, u[i] \in Nat, u[i] < Len(input[i])
  PROVE  HeadKey(i, u) \in Int
  BY InputType DEF HeadKey

\* The heads of all players but the winner can be compared.
LEMMA StandingHeads ==
  ASSUME BuffersOK, NEW w, Standing(w)
  PROVE  \A q \in Pos : w[q] \notin {-1, w[0]} => HeadKey(w[q], used) \in Int
  <1> SUFFICES ASSUME NEW q \in Pos, w[q] \notin {-1, w[0]} PROVE HeadKey(w[q], used) \in Int
    OBVIOUS
  <1>1. w[q] \in Readers /\ w[N + w[q]] = w[q]
    BY WinnerSits DEF Standing
  <1> DEFINE i == w[q]
  <1>2. i \in Readers /\ used[i] < taken[i]
    BY <1>1 DEF Standing
  <1> HIDE DEF i
  <1>3. used[i] \in Nat /\ taken[i] \in Nat /\ taken[i] <= Len(input[i]) /\ Len(input[i]) \in Nat
    BY <1>2, InputType DEF BuffersOK, TypeOK, Windows
  <1>4. HeadKey(i, used) \in Int
    BY <1>2, <1>3, HeadType
  <1> QED BY <1>4 DEF i

\* If nobody has won, nobody plays.
LEMMA NoWinnerNoPlayer ==
  ASSUME NEW w, NEW l, NEW u, Tree(w, l), \A p \in Nodes : Ordered(w, l, u, p), w[0] = -1
  PROVE  \A q \in Pos : w[q] = -1
  <1> DEFINE T == {q \in Pos : w[q] = -1}
  <1>1. 0 \in Pos
    BY MergeAssumption DEF Pos, N
  <1>2. ASSUME NEW q \in Pos, q # 0, w[Up(q)] = -1 PROVE w[q] = -1
    <2>1. Up(q) \in Nodes
      BY <1>2, UpType
    <2>2. w[Up(q)] = w[q] \/ l[Up(q)] = w[q]
      BY <1>2, WinsOrLoses
    <2>3. l[Up(q)] # -1 => w[Up(q)] # -1
      BY <2>1 DEF Ordered
    <2> QED BY <1>2, <2>2, <2>3
  <1>3. T \in SUBSET Pos /\ 0 \in T /\ \A q \in Pos : q # 0 /\ Up(q) \in T => q \in T
    BY <1>1, <1>2
  <1> HIDE DEF T
  <1>4. \A q \in Pos : q \in T
    BY <1>3, UpInduction
  <1> QED BY <1>4 DEF T

\* The readers are counted.
LEMMA ReadersCounted ==
  /\ IsFiniteSet(Readers) /\ Cardinality(Readers) = N
  /\ \A S : S \subseteq Readers =>
       IsFiniteSet(S) /\ Cardinality(S) \in 0 .. N /\ (Cardinality(S) = 0 <=> S = {})
  <1>1. N \in Nat \ {0}
    BY MergeAssumption DEF N
  <1>2. IsFiniteSet(Readers) /\ Cardinality(Readers) = N
    <2>1. 0 \in Int /\ N - 1 \in Int
      BY <1>1
    <2>2. IsFiniteSet(0 .. (N - 1)) /\ Cardinality(0 .. (N - 1)) = IF 0 > N - 1 THEN 0 ELSE (N - 1) - 0 + 1
      BY <2>1, FS_Interval
    <2>3. Readers = 0 .. (N - 1)
      BY DEF Readers, N
    <2> QED BY <1>1, <2>2, <2>3
  <1>3. ASSUME NEW S, S \subseteq Readers
        PROVE  IsFiniteSet(S) /\ Cardinality(S) \in 0 .. N /\ (Cardinality(S) = 0 <=> S = {})
    BY <1>1, <1>2, <1>3, FS_Subset, FS_CardinalityType, FS_EmptySet
  <1> QED BY <1>2, <1>3

\* One reader less.
LEMMA OneReaderLess ==
  ASSUME NEW S, S \subseteq Readers, NEW c \in S
  PROVE  /\ Cardinality(S \ {c}) = Cardinality(S) - 1
         /\ Cardinality(S) - 1 \in 0 .. N
  <1>1. IsFiniteSet(S) /\ Cardinality(S) \in 0 .. N
    BY ReadersCounted
  <1>2. Cardinality(S \ {c}) = Cardinality(S) - 1
    BY <1>1, FS_RemoveElement
  <1>3. Cardinality(S \ {c}) \in 0 .. N
    BY ReadersCounted
  <1> QED BY <1>2, <1>3

\* The winner at a position, from the winners at the greater ones.
WinnerAt(p, w) ==
  IF p = 2 * N THEN -1
  ELSE IF p >= N THEN leaves[p - N]
  ELSE GameWinner(w[2 * p + 1], w[2 * p + 2])

\* The recursion of the first games has a solution.
LEMMA WinnersExist ==
  \E w : w = [p \in Pos |-> WinnerAt(p, w)]
  <1> DEFINE From(k) == (2 * N - k) .. 2 * N
             P(k) == \E f : f = [p \in From(k) |-> WinnerAt(p, f)]
             T == {k \in Nat : k <= 2 * N => P(k)}
  <1>0. N \in Nat /\ 2 * N \in Nat
    BY MergeAssumption DEF N
  <1>1. P(0)
    <2> DEFINE f == [p \in From(0) |-> -1]
    <2>1. \A p \in From(0) : p = 2 * N
      BY <1>0
    <2>2. \A p \in From(0) : WinnerAt(p, f) = -1
      BY <2>1 DEF WinnerAt
    <2> HIDE DEF From
    <2>3. f = [p \in From(0) |-> WinnerAt(p, f)]
      BY <2>2
    <2> HIDE DEF f
    <2> QED BY <2>3
  <1>2. ASSUME NEW k \in Nat, k + 1 <= 2 * N, P(k) PROVE P(k + 1)
    <2>1. PICK f : f = [p \in From(k) |-> WinnerAt(p, f)]
      BY <1>2
    <2> DEFINE h == [p \in From(k + 1) |-> WinnerAt(p, f)]
    <2>2. \A p \in From(k) : p \in From(k + 1)
      BY <1>0, <1>2
    <2>3. \A p \in From(k + 1) :
            p # 2 * N /\ ~(p >= N) => 2 * p + 1 \in From(k) /\ 2 * p + 2 \in From(k)
      BY <1>0, <1>2
    <2> HIDE DEF From
    <2>4. \A p \in From(k) : h[p] = f[p]
      BY <2>1, <2>2
    <2> HIDE DEF h
    <2>5. \A p \in From(k + 1) : WinnerAt(p, f) = WinnerAt(p, h)
      BY <2>3, <2>4 DEF WinnerAt
    <2>6. h = [p \in From(k + 1) |-> WinnerAt(p, h)]
      BY <2>5 DEF h
    <2> QED BY <2>6
  <1> HIDE DEF P
  <1>3. T \in SUBSET Nat /\ 0 \in T /\ \A k \in T : k + 1 \in T
    <2>1. \A k \in T : k \in Nat /\ (k + 1 <= 2 * N => P(k + 1))
      <3> TAKE k \in T
      <3>1. k + 1 <= 2 * N => k <= 2 * N
        BY <1>0
      <3> QED BY <1>2, <3>1
    <2> QED BY <1>1, <2>1
  <1> HIDE DEF T
  <1>4. 2 * N \in T
    BY <1>0, <1>3, SetInduction
  <1>5. P(2 * N)
    BY <1>0, <1>4 DEF T
  <1>6. From(2 * N) = Pos
    BY <1>0 DEF Pos
  <1> QED BY <1>5, <1>6 DEF P

\* InitialWinners is that solution.
LEMMA WinnersUnfold ==
  InitialWinners = [p \in Pos |-> WinnerAt(p, InitialWinners)]
  <1> DEFINE w == CHOOSE w : w = [p \in 0 .. 2 * NumReaders |->
                    IF p = 2 * NumReaders THEN -1
                    ELSE IF p >= NumReaders THEN leaves[p - NumReaders]
                    ELSE GameWinner(w[2 * p + 1], w[2 * p + 2])]
  <1>1. w = [p \in 0 .. 2 * NumReaders |->
               IF p = 2 * NumReaders THEN -1
               ELSE IF p >= NumReaders THEN leaves[p - NumReaders]
               ELSE GameWinner(w[2 * p + 1], w[2 * p + 2])]
    BY WinnersExist DEF Pos, N, WinnerAt
  <1>2. InitialWinners = w
    BY DEF InitialWinners
  <1> HIDE DEF w
  <1>3. w = [p \in Pos |-> WinnerAt(p, w)]
    BY <1>1 DEF Pos, N, WinnerAt
  <1> QED BY <1>2, <1>3

\* The outcome of a game whose heads can be compared.
LEMMA GameType ==
  ASSUME NEW a \in Player, NEW b \in Player,
         a # -1 => HeadKey(a, used) \in Int, b # -1 => HeadKey(b, used) \in Int
  PROVE  /\ GameWinner(a, b) \in Player /\ GameLoser(a, b) \in Player
         /\ \/ GameWinner(a, b) = a /\ GameLoser(a, b) = b
            \/ GameWinner(a, b) = b /\ GameLoser(a, b) = a
         /\ GameLoser(a, b) # -1 =>
              GameWinner(a, b) # -1 /\ HeadKey(GameWinner(a, b), used) <= HeadKey(GameLoser(a, b), used)
  <1>1. \A z \in Player : z \in Int /\ (z = -1 <=> z < 0)
    BY MergeAssumption DEF Player, Readers
  <1> DEFINE x == HeadKey(a, used)
             y == HeadKey(b, used)
  <1>2. CASE a < 0
    BY <1>1, <1>2 DEF GameWinner, GameLoser
  <1>3. CASE ~(a < 0) /\ b < 0
    BY <1>1, <1>3 DEF GameWinner, GameLoser
  <1>4. CASE ~(a < 0) /\ ~(b < 0)
    <2>1. a # -1 /\ b # -1 /\ x \in Int /\ y \in Int
      BY <1>1, <1>4
    <2>2. CASE Beats(a, b)
      <3>1. GameWinner(a, b) = a /\ GameLoser(a, b) = b /\ x < y
        BY <1>4, <2>2 DEF GameWinner, GameLoser, Beats
      <3> HIDE DEF x, y
      <3>2. x <= y
        BY <2>1, <3>1
      <3> QED BY <2>1, <3>1, <3>2 DEF x, y
    <2>3. CASE ~Beats(a, b)
      <3>1. GameWinner(a, b) = b /\ GameLoser(a, b) = a /\ ~(x < y)
        BY <1>4, <2>3 DEF GameWinner, GameLoser, Beats
      <3> HIDE DEF x, y
      <3>2. y <= x
        BY <2>1, <3>1
      <3> QED BY <2>1, <3>1, <3>2 DEF x, y
    <2> QED BY <2>2, <2>3
  <1> QED BY <1>2, <1>3, <1>4

\* The first games make a tree of a tournament.
LEMMA FirstGames ==
  ASSUME BuffersOK, \A i \in Readers : leaves[i] \in {i, -1},
         \A i \in Readers : leaves[i] = i => used[i] < taken[i]
  PROVE  LET w == InitialWinners
             l == [p \in Nodes |-> GameLoser(w[2 * p + 1], w[2 * p + 2])]
         IN  /\ Tree(w, l) /\ l \in [Nodes -> Player] /\ w[0] \in Player
             /\ \A p \in Nodes : Ordered(w, l, used, p)
             /\ \A i \in Readers : w[N + i] = leaves[i]
  <1> DEFINE w == InitialWinners
             l == [p \in Nodes |-> GameLoser(w[2 * p + 1], w[2 * p + 2])]
             Heads(x) == x = -1 \/ (x \in Readers /\ HeadKey(x, used) \in Int)
             Bad == {q \in Pos : ~Heads(w[q])}
  <1>1. w = [p \in Pos |-> WinnerAt(p, w)]
    BY WinnersUnfold
  <1> HIDE DEF w
  <1>2. \A i \in Readers : leaves[i] = i => HeadKey(i, used) \in Int
    <2> SUFFICES ASSUME NEW i \in Readers, leaves[i] = i PROVE HeadKey(i, used) \in Int
      OBVIOUS
    <2>1. /\ used[i] \in Nat /\ taken[i] \in Nat /\ taken[i] <= Len(input[i])
          /\ Len(input[i]) \in Nat /\ used[i] < taken[i]
      BY InputType DEF BuffersOK, TypeOK, Windows
    <2>2. used[i] < Len(input[i])
      BY <2>1
    <2> QED BY <2>1, <2>2, HeadType
  <1>3. \A i \in Readers : w[N + i] = leaves[i]
    <2> TAKE i \in Readers
    <2>1. N + i \in Pos /\ N + i # 2 * N /\ N + i >= N /\ (N + i) - N = i
      BY LeafType, MergeAssumption DEF N, Readers
    <2>2. w[N + i] = WinnerAt(N + i, w)
      BY <1>1, <2>1
    <2> QED BY <2>1, <2>2 DEF WinnerAt
  <1>4. w[2 * N] = -1
    BY <1>1, MergeAssumption DEF N, Pos, WinnerAt
  <1>5. \A p \in Nodes : w[p] = GameWinner(w[2 * p + 1], w[2 * p + 2])
    <2> TAKE p \in Nodes
    <2>1. p \in Pos /\ p # 2 * N /\ ~(p >= N)
      BY KidsType, MergeAssumption DEF N, Nodes, Readers
    <2>2. w[p] = WinnerAt(p, w)
      BY <1>1, <2>1
    <2> QED BY <2>1, <2>2 DEF WinnerAt
  <1>6. ASSUME NEW x, Heads(x) PROVE x \in Player /\ (x # -1 => HeadKey(x, used) \in Int)
    BY <1>6 DEF Player
  <1>7. Bad = {}
    <2> SUFFICES ASSUME Bad # {} PROVE FALSE
      OBVIOUS
    <2>1. 2 * N \in Nat /\ Bad \in SUBSET (0 .. 2 * N)
      BY MergeAssumption DEF Pos, N
    <2>2. PICK q \in Bad : \A y \in Bad : q >= y
      BY <2>1, GreatestElement
    <2>3. q \in Pos /\ ~Heads(w[q])
      BY <2>2
    <2>4. q # 2 * N
      BY <1>4, <2>3
    <2>5. ~(q - N \in Readers /\ q = N + (q - N))
      <3> DEFINE i == q - N
      <3> SUFFICES ASSUME i \in Readers, q = N + i PROVE FALSE
        OBVIOUS
      <3> HIDE DEF i
      <3>1. w[q] = leaves[i] /\ leaves[i] \in {i, -1}
        BY <1>3
      <3> QED BY <1>2, <2>3, <3>1
    <2>6. q \in Nodes
      BY <2>3, <2>4, <2>5, PosCases
    <2> DEFINE c == 2 * q + 1
               d == 2 * q + 2
    <2>7. c \in Pos /\ d \in Pos /\ q < c /\ q < d /\ w[q] = GameWinner(w[c], w[d])
      BY <1>5, <2>6, KidsType
    <2> HIDE DEF c, d
    <2>8. q \in Nat /\ c \in Nat /\ d \in Nat
      BY <2>3, <2>7, MergeAssumption DEF Pos, N
    <2>9. ~(q >= c) /\ ~(q >= d)
      BY <2>7, <2>8
    <2>10. Heads(w[c]) /\ Heads(w[d])
      BY <2>2, <2>7, <2>9
    <2>11. w[q] = w[c] \/ w[q] = w[d]
      <3> HIDE DEF Heads
      <3> QED BY <1>6, <2>7, <2>10, GameType
    <2> QED BY <2>3, <2>10, <2>11
  <1>8. \A q \in Pos : w[q] \in Player /\ (w[q] # -1 => HeadKey(w[q], used) \in Int)
    <2>1. \A q \in Pos : Heads(w[q])
      BY <1>7
    <2> HIDE DEF Heads
    <2> QED BY <1>6, <2>1
  <1>9. ASSUME NEW p \in Nodes
        PROVE  /\ l[p] \in Player /\ Pair(w, l, p) /\ Ordered(w, l, used, p)
    <2> DEFINE c == 2 * p + 1
               d == 2 * p + 2
    <2>1. c \in Pos /\ d \in Pos
      BY KidsType
    <2>2. w[p] = GameWinner(w[c], w[d]) /\ l[p] = GameLoser(w[c], w[d])
      BY <1>5
    <2> HIDE DEF l
    <2>3. Pair(w, l, p) <=> \/ w[p] = w[c] /\ l[p] = w[d]
                            \/ w[p] = w[d] /\ l[p] = w[c]
      BY DEF Pair
    <2> HIDE DEF c, d
    <2>4. /\ w[c] \in Player /\ w[d] \in Player
          /\ w[c] # -1 => HeadKey(w[c], used) \in Int
          /\ w[d] # -1 => HeadKey(w[d], used) \in Int
      BY <1>8, <2>1
    <2>5. /\ l[p] \in Player
          /\ \/ w[p] = w[c] /\ l[p] = w[d]
             \/ w[p] = w[d] /\ l[p] = w[c]
          /\ l[p] # -1 => w[p] # -1 /\ HeadKey(w[p], used) <= HeadKey(l[p], used)
      BY <2>2, <2>4, GameType
    <2> QED BY <2>3, <2>5 DEF Ordered
  <1>10. w \in [Pos -> Player]
    BY <1>1, <1>8
  <1>11. Seats(w)
    BY <1>3, <1>4, <1>10 DEF Seats
  <1>12. l \in [Nodes -> Player]
    BY <1>9
  <1> HIDE DEF l
  <1>13. Tree(w, l)
    BY <1>9, <1>11 DEF Tree
  <1>14. w[0] \in Player
    BY <1>8, MergeAssumption DEF Pos, N
  <1> QED BY <1>3, <1>9, <1>12, <1>13, <1>14 DEF w, l

-----------------------------------------------------------------------------
(* The invariant *)

\* The tree after a step.
LEMMA StandingNext ==
  ASSUME NEW v, input' = input, Tree(v, losers'), v[0] = winner', winner' # -1,
         winnerLeaf' = N + winner',
         \A p \in Nodes \ Above(N + winner') : Ordered(v, losers', used', p),
         used'[winner'] # taken'[winner'] => \A p \in Nodes : Ordered(v, losers', used', p),
         count' = Cardinality(Alive(v)),
         \A i \in Readers : IF v[N + i] = i THEN i # winner' => used'[i] < taken'[i]
                            ELSE used'[i] = taken'[i] /\ used'[i] = Len(input[i])
  PROVE  Standing(v)'
  <1>1. Tree(v, losers)'
    BY DEF Tree, Seats, Pair
  <1>2. (v[0] = winner /\ winner # -1 /\ winnerLeaf = N + winner)'
    OBVIOUS
  <1>3. \A p : Ordered(v, losers', used', p) => Ordered(v, losers, used, p)'
    BY DEF Ordered, HeadKey
  <1>4. (\A p \in Nodes \ Above(winnerLeaf) : Ordered(v, losers, used, p))'
    BY <1>3
  <1>5. (~empty(winner) => \A p \in Nodes : Ordered(v, losers, used, p))'
    BY <1>3 DEF empty
  <1>6. (count = Cardinality(Alive(v)))'
    BY DEF Alive
  <1>7. (\A i \in Readers : IF v[N + i] = i THEN i # winner => used[i] < taken[i]
                            ELSE used[i] = taken[i] /\ used[i] = Len(input[i]))'
    OBVIOUS
  <1> QED BY <1>1, <1>2, <1>4, <1>5, <1>6, <1>7 DEF Standing

\* A step that leaves the tree and the buffers alone.
LEMMA StandingKept ==
  ASSUME NEW w, Standing(w), UNCHANGED <<input, taken, used, losers, winner, winnerLeaf, count>>
  PROVE  Standing(w)'
  BY StandingNext DEF Standing, empty

\* Before the first call nothing was read.
LEMMA InitTournament == Init => TournamentInv
  <1> SUFFICES ASSUME Init PROVE TournamentInv
    OBVIOUS
  <1>1. input \in [Readers -> SortedInput]
    BY DEF Init, BuffersInit
  <1>2. \A i \in Readers : Len(input[i]) \in Nat
    <2> TAKE i \in Readers
    <2>1. PICK m \in 0 .. MaxInput : input[i] \in [1 .. m -> Key]
      BY <1>1 DEF SortedInput
    <2>2. m \in Nat
      BY MergeAssumption
    <2>3. input[i] = [j \in 1 .. m |-> input[i][j]]
      BY <2>1
    <2> QED BY <2>2, <2>3
  <1>3. \A i \in Readers : used[i] = 0 /\ taken[i] = 0
    BY DEF Init, BuffersInit
  <1>4. TypeOK
    <2>1. << >> \in Seq(Readers \X (Nat \ {0}))
      OBVIOUS
    <2>2. maxRowBufferSize \in Nat /\ runDetectionStreak \in Nat /\ NumReaders \in Nat \ {0}
      BY MergeAssumption
    <2>3. 0 \in Readers
      BY <2>2 DEF Readers
    <2>4. \A i \in Readers : used[i] <= taken[i] /\ taken[i] <= Len(input[i])
      BY <1>2, <1>3
    <2>5. losers \in [Nodes -> Player] /\ winner \in Player /\ leaves \in [Readers -> Player]
      BY <2>3 DEF Init, Player
    <2> QED BY <2>1, <2>2, <2>4, <2>5 DEF Init, BuffersInit, TypeOK
  <1>5. BuffersOK
    BY <1>1, <1>4 DEF BuffersOK, TypeOK, Windows
  <1> QED BY <1>3, <1>5 DEF Init, BuffersInit, TournamentInv, NothingRead, Finished

\* A call begins: the first one initializes, the others go on.
LEMMA ReadRowsTournament ==
  ASSUME TournamentInv, NEW m \in BatchSizes, ReadRows(m)
  PROVE  TournamentInv'
  <1>1. /\ pc = "idle" /\ want' = m /\ n' = 0 /\ pos' = 0 /\ initialized' = TRUE
        /\ count' = IF initialized THEN count ELSE NumReaders
        /\ pc' = IF initialized THEN "merge" ELSE "initialize"
        /\ UNCHANGED <<input, taken, used, len, full, out, faults, losers, winner, winnerLeaf,
                       streak, leaves>>
    BY DEF ReadRows, bufferVars
  <1>2. m \in Nat /\ NumReaders \in Nat
    BY MergeAssumption
  <1>3. BuffersOK'
    BY <1>1, <1>2 DEF TournamentInv, BuffersOK, TypeOK, Windows
  <1>4. CASE initialized
    BY <1>1, <1>3, <1>4, StandingKept DEF TournamentInv, Finished, NoRetryOfInitialize
  <1>5. CASE ~initialized
    <2>1. \A i \in Readers : leaves'[i] = i /\ used'[i] = taken'[i]
      BY <1>1, <1>5 DEF TournamentInv, NothingRead
    <2>2. {i \in Readers : leaves'[i] = i} = Readers
      BY <2>1
    <2>3. \A i \in Readers : ~(i < pos')
      BY <1>1 DEF Readers
    <2>4. Seated'
      BY <1>1, <1>5, <2>1, <2>2, <2>3, ReadersCounted DEF Seated, N
    <2> QED BY <1>1, <1>3, <1>5, <2>4 DEF TournamentInv, Finished
  <1> QED BY <1>4, <1>5

\* A reader is seated or given up.
LEMMA InitializeTournament ==
  ASSUME TournamentInv, Initialize
  PROVE  TournamentInv'
  <1>1. /\ pc = "initialize" /\ pos \in Readers /\ pos' = pos + 1 /\ pos' \in 0 .. NumReaders
        /\ UNCHANGED <<want, n, out, pc, faults, losers, winner, winnerLeaf, streak, initialized>>
    BY MergeAssumption DEF TournamentInv, BuffersOK, TypeOK, Initialize, callVars, Readers
  <1>2. BuffersOK /\ initialized /\ Seated
    BY <1>1 DEF TournamentInv, NothingRead
  <1>3. \A i \in Readers : i \in Nat /\ (i < pos' <=> (i < pos \/ i = pos))
    BY <1>1 DEF Readers
  <1>4. leaves[pos] = pos /\ used[pos] = taken[pos]
    BY <1>1, <1>2 DEF Seated, Readers
  <1>5. CASE Fill(pos) /\ UNCHANGED <<leaves, count>>
    <2>1. /\ taken' \in [Readers -> Nat] /\ len' \in [Readers -> 0 .. maxRowBufferSize]
          /\ full' \in [Readers -> BOOLEAN] /\ UNCHANGED <<input, used>>
          /\ used[pos] < taken'[pos]
          /\ \A j \in Readers : /\ used[j] <= taken'[j] /\ taken'[j] <= Len(input[j])
                                /\ (j # pos => taken'[j] = taken[j])
      BY <1>1, <1>2, <1>5, FillReady
    <2>2. BuffersOK'
      BY <1>1, <1>2, <1>5, <2>1 DEF BuffersOK, TypeOK, Windows
    <2>3. \A i \in Readers :
            IF i < pos' THEN IF leaves[i] = i THEN used[i] < taken'[i]
                             ELSE leaves[i] = -1 /\ used[i] = taken'[i] /\ used[i] = Len(input[i])
            ELSE leaves[i] = i /\ used[i] = taken'[i]
      <3> TAKE i \in Readers
      <3>1. CASE i = pos
        BY <1>3, <1>4, <2>1, <3>1
      <3>2. CASE i # pos
        BY <1>2, <1>3, <2>1, <3>2 DEF Seated
      <3> QED BY <3>1, <3>2
    <2>4. Seated'
      BY <1>2, <1>5, <2>1, <2>3 DEF Seated
    <2> QED BY <1>1, <1>2, <2>2, <2>4 DEF TournamentInv, Finished
  <1>6. CASE /\ FillEOF(pos) /\ leaves' = [leaves EXCEPT ![pos] = -1] /\ count' = count - 1
    <2>1. /\ taken' \in [Readers -> Nat] /\ len' \in [Readers -> 0 .. maxRowBufferSize]
          /\ full' \in [Readers -> BOOLEAN] /\ Windows' /\ UNCHANGED <<input, taken, used, full>>
          /\ taken[pos] = Len(input[pos])
      BY <1>1, <1>2, <1>6, FillLeaves DEF FillEOF, Exhausted
    <2>2. leaves' \in [Readers -> Player] /\ leaves'[pos] = -1
          /\ \A i \in Readers : i # pos => leaves'[i] = leaves[i]
      BY <1>1, <1>2, <1>6 DEF BuffersOK, TypeOK, Player
    <2> DEFINE S == {i \in Readers : leaves[i] = i}
               R == {i \in Readers : leaves'[i] = i}
    <2>3. pos \in S /\ R = S \ {pos} /\ S \subseteq Readers /\ pos # -1
      BY <1>1, <1>4, <2>2 DEF Readers
    <2>4. count = Cardinality(S)
      BY <1>2 DEF Seated
    <2> HIDE DEF S
    <2>5. count' = Cardinality(R) /\ count' \in 0 .. NumReaders
      <3> HIDE DEF R
      <3> QED BY <1>6, <2>3, <2>4, OneReaderLess DEF N
    <2>6. BuffersOK'
      BY <1>1, <1>2, <2>1, <2>2, <2>5 DEF BuffersOK, TypeOK, Windows
    <2>7. \A i \in Readers :
            IF i < pos' THEN IF leaves'[i] = i THEN used[i] < taken[i]
                             ELSE leaves'[i] = -1 /\ used[i] = taken[i] /\ used[i] = Len(input[i])
            ELSE leaves'[i] = i /\ used[i] = taken[i]
      <3> TAKE i \in Readers
      <3>1. CASE i = pos
        BY <1>3, <1>4, <2>1, <2>2, <2>3, <3>1
      <3>2. CASE i # pos
        BY <1>2, <1>3, <2>2, <3>2 DEF Seated
      <3> QED BY <3>1, <3>2
    <2>8. Seated'
      BY <2>1, <2>5, <2>7 DEF Seated
    <2> QED BY <1>1, <1>2, <2>6, <2>8 DEF TournamentInv, Finished
  <1> QED BY <1>5, <1>6 DEF Initialize

\* A reader fails before the first games.
LEMMA InitializeFailsTournament ==
  ASSUME TournamentInv, InitializeFails
  PROVE  TournamentInv'
  <1>1. pos \in Readers /\ pc = "initialize"
    BY MergeAssumption DEF TournamentInv, BuffersOK, TypeOK, InitializeFails, Readers
  <1>2. /\ len' = [len EXCEPT ![pos] = BufferLen(pos)] /\ count' = 0
        /\ pc' = IF "initialize" \in Retries THEN "idle" ELSE "failed"
        /\ UNCHANGED <<input, taken, used, full, want, n, out, losers, winner, winnerLeaf, streak,
                       leaves, pos, initialized>>
    BY DEF InitializeFails, FillFails, initVars
  <1>3. BuffersOK /\ initialized
    BY <1>1 DEF TournamentInv, NothingRead
  <1>4. /\ taken' \in [Readers -> Nat] /\ len' \in [Readers -> 0 .. maxRowBufferSize]
        /\ full' \in [Readers -> BOOLEAN] /\ Windows'
    BY <1>1, <1>2, <1>3, FillLeaves
  <1>5. BuffersOK'
    BY <1>1, <1>2, <1>3, <1>4, MergeAssumption DEF BuffersOK, TypeOK, Windows
  <1> QED BY <1>2, <1>3, <1>5 DEF TournamentInv, Finished, NoRetryOfInitialize

\* The first games are played, unless no reader has a row.
LEMMA PlayInitialGamesTournament ==
  ASSUME TournamentInv, playInitialGames
  PROVE  TournamentInv'
  <1>0. PICK w : w = InitialWinners
    OBVIOUS
  <1> DEFINE l == [p \in Nodes |-> GameLoser(w[2 * p + 1], w[2 * p + 2])]
  <1>1. /\ pc = "initialize" /\ pos = NumReaders /\ pc' = "merge"
        /\ IF count > 0 THEN losers' = l /\ winner' = w[0] /\ winnerLeaf' = NumReaders + w[0]
                        ELSE UNCHANGED <<losers, winner, winnerLeaf>>
        /\ UNCHANGED <<input, taken, used, len, full, want, n, out, faults, count, streak, leaves,
                       pos, initialized>>
    BY <1>0 DEF playInitialGames, bufferVars, initVars
  <1>2. BuffersOK /\ initialized /\ Seated
    BY <1>1 DEF TournamentInv, NothingRead
  <1>3. \A i \in Readers : /\ leaves[i] \in {i, -1}
                           /\ leaves[i] = i => used[i] < taken[i]
                           /\ leaves[i] # i => used[i] = taken[i] /\ used[i] = Len(input[i])
    <2> TAKE i \in Readers
    <2>1. i < pos
      BY <1>1, MergeAssumption DEF Readers
    <2> QED BY <1>2, <2>1 DEF Seated
  <1>4. /\ Tree(w, l) /\ l \in [Nodes -> Player] /\ w[0] \in Player
        /\ \A p \in Nodes : Ordered(w, l, used, p)
        /\ \A i \in Readers : w[N + i] = leaves[i]
    BY <1>0, <1>2, <1>3, FirstGames
  <1> HIDE DEF l
  <1>5. count \in 0 .. NumReaders /\ NumReaders \in Nat \ {0} /\ count = Cardinality(Alive(w))
    <2>1. Alive(w) = {i \in Readers : leaves[i] = i}
      BY <1>4 DEF Alive
    <2> QED BY <1>2, <2>1, MergeAssumption DEF BuffersOK, TypeOK, Seated
  <1>6. CASE count # 0
    <2>1. losers' = l /\ winner' = w[0] /\ winnerLeaf' = N + w[0]
      BY <1>1, <1>5, <1>6 DEF N
    <2>2. w[0] # -1
      <3> SUFFICES ASSUME w[0] = -1 PROVE FALSE
        OBVIOUS
      <3>1. \A q \in Pos : w[q] = -1
        BY <1>4, NoWinnerNoPlayer
      <3>2. \A i \in Readers : N + i \in Pos /\ i # -1
        BY LeafType DEF Readers
      <3>3. Alive(w) = {}
        BY <3>1, <3>2 DEF Alive
      <3> QED BY <1>5, <1>6, <3>3, ReadersCounted
    <2>3. w[0] \in Readers /\ winnerLeaf' \in 0 .. 2 * NumReaders - 1
      BY <1>4, <1>5, <2>1, <2>2 DEF Player, N, Readers
    <2>4. BuffersOK'
      BY <1>1, <1>2, <1>4, <2>1, <2>3 DEF BuffersOK, TypeOK, Windows
    <2>5. Standing(w)'
      <3>1. \A p \in Nodes : Ordered(w, losers', used', p)
        BY <1>1, <1>4, <2>1
      <3>2. \A i \in Readers : IF w[N + i] = i THEN used'[i] < taken'[i]
                               ELSE used'[i] = taken'[i] /\ used'[i] = Len(input[i])
        BY <1>1, <1>3, <1>4
      <3>3. /\ input' = input /\ Tree(w, losers') /\ w[0] = winner' /\ winner' # -1
            /\ winnerLeaf' = N + winner' /\ count' = Cardinality(Alive(w))
        BY <1>1, <1>4, <1>5, <2>1, <2>2
      <3>4. \A i \in Readers : IF w[N + i] = i THEN i # winner' => used'[i] < taken'[i]
                               ELSE used'[i] = taken'[i] /\ used'[i] = Len(input[i])
        BY <3>2
      <3> QED BY <3>1, <3>3, <3>4, StandingNext
    <2>6. Finished'
      BY <1>1, <1>6 DEF Finished
    <2> QED BY <1>1, <1>2, <2>4, <2>5, <2>6 DEF TournamentInv
  <1>7. CASE count = 0
    <2>1. UNCHANGED <<losers, winner, winnerLeaf>>
      BY <1>1, <1>7
    <2>2. BuffersOK'
      BY <1>1, <1>2, <2>1 DEF BuffersOK, TypeOK, Windows
    <2>3. \A i \in Readers : used'[i] = Len(input'[i])
      <3>1. Alive(w) = {}
        BY <1>5, <1>7, ReadersCounted DEF Alive
      <3>2. \A i \in Readers : leaves[i] # i
        BY <1>4, <3>1 DEF Alive
      <3> QED BY <1>1, <1>3, <3>2
    <2> QED BY <1>1, <1>2, <1>7, <2>2, <2>3 DEF TournamentInv, Finished
  <1> QED BY <1>6, <1>7

\* A step in which nothing but the control moves and the tree stays.
LEMMA StillTournament ==
  ASSUME TournamentInv, BuffersOK', initialized, UNCHANGED initialized, pc \in {"merge", "idle"},
         pc' # "initialize", pc' = "eof" => count = 0,
         UNCHANGED <<input, taken, used, losers, winner, winnerLeaf, count>>
  PROVE  TournamentInv'
  BY StandingKept DEF TournamentInv, Finished, NoRetryOfInitialize

\* The winner's reader fails.
LEMMA RefillFailsTournament ==
  ASSUME TournamentInv, RefillFails
  PROVE  TournamentInv'
  <1>1. /\ pc = "merge" /\ count # 0 /\ len' = [len EXCEPT ![winner] = BufferLen(winner)]
        /\ pc' \in {"idle", "failed"}
        /\ UNCHANGED <<input, taken, used, full, want, n, out, losers, count, winner, winnerLeaf,
                       streak, leaves, pos, initialized>>
    BY DEF RefillFails, InLoop, FillFails, treeVars, initVars
  <1>2. initialized /\ BuffersOK
    BY <1>1 DEF TournamentInv, NothingRead
  <1>3. winner \in Readers
    <2>1. PICK w : Standing(w)
      BY <1>1, <1>2 DEF TournamentInv
    <2> QED BY <1>2, <2>1 DEF Standing, BuffersOK, TypeOK, Player
  <1>4. /\ taken' \in [Readers -> Nat] /\ len' \in [Readers -> 0 .. maxRowBufferSize]
        /\ full' \in [Readers -> BOOLEAN] /\ Windows'
    BY <1>1, <1>2, <1>3, FillLeaves
  <1>5. BuffersOK'
    BY <1>1, <1>2, <1>4 DEF BuffersOK, TypeOK
  <1> QED BY <1>1, <1>2, <1>5, StillTournament

\* The call returns.
LEMMA ReturnTournament ==
  ASSUME TournamentInv, Return
  PROVE  TournamentInv'
  <1>1. /\ pc = "merge" /\ pc' = IF count = 0 THEN "eof" ELSE "idle"
        /\ UNCHANGED <<input, taken, used, len, full, want, n, out, faults, losers, count, winner,
                       winnerLeaf, streak, leaves, pos, initialized>>
    BY DEF Return, bufferVars, treeVars, initVars
  <1>2. initialized /\ BuffersOK
    BY <1>1 DEF TournamentInv, NothingRead
  <1>3. BuffersOK'
    BY <1>1, <1>2 DEF BuffersOK, TypeOK, Windows
  <1> QED BY <1>1, <1>2, <1>3, StillTournament

\* Off the line of the winner, its own head matters nowhere.
LEMMA OffTheLine ==
  ASSUME BuffersOK, NEW w, Standing(w), NEW u, \A k \in Readers : k # winner => u[k] = used[k]
  PROVE  \A p \in Nodes \ Above(winnerLeaf) : Ordered(w, losers, u, p)
  <1>1. /\ Tree(w, losers) /\ w[0] = winner /\ winner # -1 /\ winnerLeaf = N + winner
        /\ winner \in Readers /\ losers \in [Nodes -> Player]
    BY DEF Standing, BuffersOK, TypeOK, Player
  <1> TAKE p \in Nodes \ Above(winnerLeaf)
  <1>2. Ordered(w, losers, used, p) /\ p \in Pos
    BY KidsType DEF Standing
  <1>3. w[p] # winner
    <2> SUFFICES ASSUME w[p] = winner PROVE FALSE
      OBVIOUS
    <2>1. p \in Line(N + winner)
      BY <1>1, <1>2, WinsAboveLeaf
    <2> QED BY <1>1, <2>1, LeafType DEF Line
  <1>4. losers[p] # winner
    <2> SUFFICES ASSUME losers[p] = winner PROVE FALSE
      OBVIOUS
    <2>1. PICK b \in Pos : b # 0 /\ Up(b) = p /\ w[b] = winner
      BY <1>1, Kids DEF Tree
    <2>2. b \in Line(N + winner)
      BY <1>1, <2>1, WinsAboveLeaf
    <2>3. p \in Above(b)
      BY <2>1, AboveUnfolds
    <2> QED BY <1>1, <2>2, <2>3, LeafType, LineUp
  <1>5. w[p] \in Player /\ losers[p] \in Player
    BY <1>1, <1>2 DEF Tree, Seats
  <1>6. /\ w[p] # -1 => u[w[p]] = used[w[p]]
        /\ losers[p] # -1 => u[losers[p]] = used[losers[p]]
    BY <1>3, <1>4, <1>5 DEF Player
  <1> QED BY <1>2, <1>6 DEF Ordered, HeadKey

\* The tree after the games of the winner were played again: the winner goes on
\* with the head that u leaves, or is given up.
LEMMA ReplayTournament ==
  ASSUME BuffersOK, NEW w, Standing(w), NEW u, NEW champion \in {winner, -1},
         replayGames(champion, u),
         \A k \in Readers : k # winner => u[k] = used[k],
         u[winner] \in Nat, champion # -1 => u[winner] < Len(input[winner])
  PROVE  /\ losers' \in [Nodes -> Player] /\ winner' \in Player
         /\ winnerLeaf' \in 0 .. 2 * NumReaders - 1 /\ winnerLeaf' = N + winner'
         /\ \E v : /\ Tree(v, losers') /\ v[0] = winner'
                   /\ \A p \in Nodes : Ordered(v, losers', u, p)
                   /\ \A i \in Readers : v[N + i] = IF i = winner THEN champion ELSE w[N + i]
  <1>1. /\ Tree(w, losers) /\ w[0] = winner /\ winner # -1 /\ winnerLeaf = N + winner
        /\ winner \in Readers /\ losers \in [Nodes -> Player]
    BY DEF Standing, BuffersOK, TypeOK, Player
  <1>2. /\ losers' = Replayed(champion, u).losers /\ winner' = Replayed(champion, u).winner
        /\ winnerLeaf' = N + Replayed(champion, u).winner
    BY DEF replayGames, N
  <1>3. \A p \in Nodes \ Above(winnerLeaf) : Ordered(w, losers, u, p)
    BY OffTheLine
  <1>4. \A q \in Pos : w[q] \notin {-1, w[0]} => HeadKey(w[q], u) \in Int
    <2> TAKE q \in Pos
    <2>1. w[q] \in Player
      BY <1>1 DEF Tree, Seats
    <2>2. w[q] \notin {-1, w[0]} => HeadKey(w[q], used) \in Int
      BY StandingHeads
    <2> QED BY <1>1, <2>1, <2>2 DEF HeadKey, Player
  <1>5. champion # -1 => HeadKey(champion, u) \in Int
    BY <1>1, HeadType
  <1>6. AfterGames(w, champion, Replayed(champion, u), u)
    BY <1>1, <1>3, <1>4, <1>5, ReplayTree DEF BeforeGames
  <1>7. PICK v : /\ Tree(v, losers') /\ losers' \in [Nodes -> Player] /\ v[0] = winner'
                 /\ \A p \in Nodes : Ordered(v, losers', u, p)
                 /\ \A i \in Readers : v[N + i] = IF i = winner THEN champion ELSE w[N + i]
    BY <1>1, <1>2, <1>6 DEF AfterGames
  <1>8. winner' \in Player
    BY <1>2, <1>7, MergeAssumption DEF Pos, N, Tree, Seats
  <1>9. winnerLeaf' \in 0 .. 2 * NumReaders - 1 /\ winnerLeaf' = N + winner'
    BY <1>2, <1>8, MergeAssumption DEF Player, Readers, N
  <1> QED BY <1>1, <1>2, <1>7, <1>8, <1>9

\* Once a refilled or exhausted winner has played again, a tree stands or no
\* reader is left.
LEMMA TreeAfter ==
  ASSUME NEW v, Tree(v, losers'), v[0] = winner', winnerLeaf' = N + winner', input' = input,
         \A p \in Nodes : Ordered(v, losers', used', p), count' = Cardinality(Alive(v)),
         \A i \in Readers : IF v[N + i] = i THEN used'[i] < taken'[i]
                            ELSE used'[i] = taken'[i] /\ used'[i] = Len(input[i])
  PROVE  /\ count' # 0 => Standing(v)'
         /\ count' = 0 => \A i \in Readers : used'[i] = Len(input'[i])
         /\ winner' = -1 => count' = 0
  <1>1. winner' = -1 => count' = 0
    <2> SUFFICES ASSUME v[0] = -1 PROVE Alive(v) = {}
      BY FS_EmptySet
    <2>1. \A q \in Pos : v[q] = -1
      BY NoWinnerNoPlayer
    <2>2. \A i \in Readers : N + i \in Pos /\ i # -1
      BY LeafType DEF Readers
    <2> QED BY <2>1, <2>2 DEF Alive
  <1>2. count' = 0 => \A i \in Readers : v[N + i] # i
    <2>1. Alive(v) \subseteq Readers
      BY DEF Alive
    <2>2. count' = 0 => Alive(v) = {}
      BY <2>1, ReadersCounted
    <2> QED BY <2>2 DEF Alive
  <1>3. count' # 0 => Standing(v)'
    <2> SUFFICES ASSUME winner' # -1 PROVE Standing(v)'
      BY <1>1
    <2>1. \A i \in Readers : IF v[N + i] = i THEN i # winner' => used'[i] < taken'[i]
                             ELSE used'[i] = taken'[i] /\ used'[i] = Len(input[i])
      OBVIOUS
    <2>2. \A p \in Nodes \ Above(N + winner') : Ordered(v, losers', used', p)
      OBVIOUS
    <2> QED BY <2>1, <2>2, StandingNext
  <1> QED BY <1>1, <1>2, <1>3

\* The winner and the readers in a standing tree.
LEMMA StandingFacts ==
  ASSUME BuffersOK, NEW w, Standing(w)
  PROVE  /\ winner \in Readers /\ w[N + winner] = winner
         /\ \A i \in Readers : /\ used[i] \in Nat /\ taken[i] \in Nat /\ Len(input[i]) \in Nat
                               /\ used[i] <= taken[i] /\ taken[i] <= Len(input[i])
                               /\ w[N + i] \in {i, -1} /\ i # -1
         /\ winner \in Alive(w) /\ Alive(w) \subseteq Readers
  <1>1. winner \in Readers
    BY DEF Standing, BuffersOK, TypeOK, Player
  <1>2. w[N + winner] = winner
    BY MergeAssumption, WinnerSits DEF Pos, N, Standing
  <1>3. \A i \in Readers : /\ used[i] \in Nat /\ taken[i] \in Nat /\ Len(input[i]) \in Nat
                           /\ used[i] <= taken[i] /\ taken[i] <= Len(input[i])
    BY InputType DEF BuffersOK, TypeOK, Windows
  <1>4. \A i \in Readers : w[N + i] \in {i, -1} /\ i # -1
    BY DEF Standing, Tree, Seats, Readers
  <1> QED BY <1>1, <1>2, <1>3, <1>4 DEF Alive

\* The winner's buffer is refilled, or the winner is given up.
LEMMA RefillTournament ==
  ASSUME TournamentInv, Refill
  PROVE  TournamentInv'
  <1>1. /\ pc = "merge" /\ count # 0 /\ used[winner] = taken[winner]
        /\ UNCHANGED <<want, n, out, pc, faults, leaves, pos, initialized>>
    BY DEF Refill, InLoop, empty, callVars, initVars
  <1>2. initialized /\ BuffersOK
    BY <1>1 DEF TournamentInv, NothingRead
  <1>3. PICK w : Standing(w)
    BY <1>1, <1>2 DEF TournamentInv
  <1>4. /\ winner \in Readers /\ w[N + winner] = winner
        /\ winner \in Alive(w) /\ Alive(w) \subseteq Readers
        /\ \A i \in Readers : /\ used[i] \in Nat /\ taken[i] \in Nat /\ Len(input[i]) \in Nat
                              /\ used[i] <= taken[i] /\ taken[i] <= Len(input[i])
                              /\ w[N + i] \in {i, -1} /\ i # -1
    BY <1>2, <1>3, StandingFacts
  <1>5. \A i \in Readers : IF w[N + i] = i THEN i # winner => used[i] < taken[i]
                           ELSE used[i] = taken[i] /\ used[i] = Len(input[i])
    BY <1>3 DEF Standing
  <1>6. CASE Fill(winner) /\ replayGames(winner, used) /\ UNCHANGED count
             /\ streak' = IF winner' = winner THEN streak ELSE 0
    <2>1. /\ taken' \in [Readers -> Nat] /\ len' \in [Readers -> 0 .. maxRowBufferSize]
          /\ full' \in [Readers -> BOOLEAN] /\ UNCHANGED <<input, used>>
          /\ used[winner] < taken'[winner]
          /\ \A j \in Readers : /\ used[j] <= taken'[j] /\ taken'[j] <= Len(input[j])
                                /\ (j # winner => taken'[j] = taken[j])
      BY <1>2, <1>4, <1>6, FillReady
    <2>2. used[winner] < Len(input[winner])
      BY <1>4, <2>1
    <2>3. /\ losers' \in [Nodes -> Player] /\ winner' \in Player
          /\ winnerLeaf' \in 0 .. 2 * NumReaders - 1 /\ winnerLeaf' = N + winner'
          /\ \E v : /\ Tree(v, losers') /\ v[0] = winner'
                    /\ \A p \in Nodes : Ordered(v, losers', used, p)
                    /\ \A i \in Readers : v[N + i] = IF i = winner THEN winner ELSE w[N + i]
      BY <1>2, <1>3, <1>4, <1>6, <2>2, ReplayTournament
    <2>4. PICK v : /\ Tree(v, losers') /\ v[0] = winner'
                   /\ \A p \in Nodes : Ordered(v, losers', used, p)
                   /\ \A i \in Readers : v[N + i] = IF i = winner THEN winner ELSE w[N + i]
      BY <2>3
    <2>5. \A i \in Readers : v[N + i] = w[N + i]
      BY <1>4, <2>4
    <2>6. count' = Cardinality(Alive(v))
      <3>1. Alive(v) = Alive(w)
        BY <2>5 DEF Alive
      <3> QED BY <1>3, <1>6, <3>1 DEF Standing
    <2>7. \A i \in Readers : IF v[N + i] = i THEN used'[i] < taken'[i]
                             ELSE used'[i] = taken'[i] /\ used'[i] = Len(input[i])
      <3> TAKE i \in Readers
      <3>1. CASE i = winner
        BY <1>4, <2>1, <2>5, <3>1
      <3>2. CASE i # winner
        BY <1>5, <2>1, <2>5, <3>2
      <3> QED BY <3>1, <3>2
    <2>8. /\ count' # 0 => Standing(v)'
          /\ count' = 0 => \A i \in Readers : used'[i] = Len(input'[i])
      BY <2>1, <2>3, <2>4, <2>6, <2>7, TreeAfter
    <2>9. BuffersOK'
      BY <1>1, <1>2, <1>6, <2>1, <2>3, MergeAssumption DEF BuffersOK, TypeOK, Windows
    <2> QED BY <1>1, <1>2, <2>8, <2>9 DEF TournamentInv, Finished
  <1>7. CASE FillEOF(winner) /\ replayGames(-1, used) /\ count' = count - 1
             /\ streak' = IF winner' = -1 THEN streak ELSE 0
    <2>1. /\ taken' \in [Readers -> Nat] /\ len' \in [Readers -> 0 .. maxRowBufferSize]
          /\ full' \in [Readers -> BOOLEAN] /\ Windows' /\ UNCHANGED <<input, taken, used, full>>
          /\ taken[winner] = Len(input[winner])
      BY <1>2, <1>4, <1>7, FillLeaves DEF FillEOF, Exhausted
    <2>2. /\ losers' \in [Nodes -> Player] /\ winner' \in Player
          /\ winnerLeaf' \in 0 .. 2 * NumReaders - 1 /\ winnerLeaf' = N + winner'
          /\ \E v : /\ Tree(v, losers') /\ v[0] = winner'
                    /\ \A p \in Nodes : Ordered(v, losers', used, p)
                    /\ \A i \in Readers : v[N + i] = IF i = winner THEN -1 ELSE w[N + i]
      BY <1>2, <1>3, <1>4, <1>7, ReplayTournament
    <2>3. PICK v : /\ Tree(v, losers') /\ v[0] = winner'
                   /\ \A p \in Nodes : Ordered(v, losers', used, p)
                   /\ \A i \in Readers : v[N + i] = IF i = winner THEN -1 ELSE w[N + i]
      BY <2>2
    <2>4. count' = Cardinality(Alive(v)) /\ count' \in 0 .. NumReaders
      <3>1. Alive(v) = Alive(w) \ {winner}
        BY <1>4, <2>3 DEF Alive
      <3>2. count = Cardinality(Alive(w))
        BY <1>3 DEF Standing
      <3> QED BY <1>4, <1>7, <3>1, <3>2, OneReaderLess DEF N
    <2>5. \A i \in Readers : IF v[N + i] = i THEN used'[i] < taken'[i]
                             ELSE used'[i] = taken'[i] /\ used'[i] = Len(input[i])
      <3> TAKE i \in Readers
      <3>1. CASE i = winner
        BY <1>1, <1>4, <2>1, <2>3, <3>1
      <3>2. CASE i # winner
        BY <1>5, <2>1, <2>3, <3>2
      <3> QED BY <3>1, <3>2
    <2>6. /\ count' # 0 => Standing(v)'
          /\ count' = 0 => \A i \in Readers : used'[i] = Len(input'[i])
      BY <2>1, <2>2, <2>3, <2>4, <2>5, TreeAfter
    <2>7. BuffersOK'
      <3>1. streak' \in 0 .. runDetectionStreak
        BY <1>2, <1>7, MergeAssumption DEF BuffersOK, TypeOK
      <3> QED BY <1>1, <1>2, <2>1, <2>2, <2>4, <3>1 DEF BuffersOK, TypeOK, Windows
    <2> QED BY <1>1, <1>2, <2>6, <2>7 DEF TournamentInv, Finished
  <1> QED BY <1>6, <1>7 DEF Refill

\* Of the players that lost to the winner directly, one has the smallest head of
\* all others.
LEMMA RunnerUp ==
  ASSUME BuffersOK, NEW w, Standing(w), NEW k \in Readers, k # winner, ~empty(k)
  PROVE  /\ w[N + k] = k
         /\ \E p \in Above(winnerLeaf) :
              /\ losers[p] \in LostToWinner /\ losers[p] \in Readers
              /\ HeadKey(losers[p], used) \in Int /\ HeadKey(k, used) \in Int
              /\ HeadKey(losers[p], used) <= HeadKey(k, used)
  <1>1. /\ Tree(w, losers) /\ w[0] = winner /\ winner # -1 /\ winnerLeaf = N + winner
        /\ winner \in Readers
    BY DEF Standing, BuffersOK, TypeOK, Player
  <1>2. w[N + k] = k /\ k # -1
    BY DEF Standing, empty, Readers
  <1>3. \A q \in Pos : w[q] \notin {-1, w[0]} => HeadKey(w[q], used) \in Int
    BY StandingHeads
  <1>4. \A p \in Nodes \ Above(N + w[0]) : Ordered(w, losers, used, p)
    BY <1>1 DEF Standing
  <1>5. PICK p \in Above(N + w[0]) :
          losers[p] \in Readers /\ HeadKey(losers[p], used) <= HeadKey(k, used)
    BY <1>1, <1>2, <1>3, <1>4, RunnerUpLostToWinner
  <1>6. p \in Above(winnerLeaf) /\ losers[p] # -1
    BY <1>1, <1>5 DEF Readers
  <1>7. losers[p] \in LostToWinner
    BY <1>6 DEF Above, LostToWinner
  <1>8. HeadKey(k, used) \in Int
    BY <1>1, <1>2, <1>3, LeafType
  <1>9. HeadKey(losers[p], used) \in Int
    <2>1. winnerLeaf \in Pos
      BY <1>1, LeafType
    <2>2. p \in Nodes
      BY <1>6, <2>1, LineBounds
    <2>3. PICK a, b \in Pos : a # b /\ a # 0 /\ b # 0 /\ Up(a) = p /\ Up(b) = p
                              /\ w[a] = w[p] /\ w[b] = losers[p]
      BY <1>1, <2>2, Kids DEF Tree
    <2>4. w[p] = winner
      BY <1>1, <1>5, WinnerLine DEF Line
    <2>5. losers[p] # winner
      <3> SUFFICES ASSUME losers[p] = winner PROVE FALSE
        OBVIOUS
      <3>1. a \in Line(winnerLeaf) /\ b \in Line(winnerLeaf)
        BY <1>1, <2>3, <2>4, WinsAboveLeaf
      <3>2. Above(a) = Line(p) /\ Above(b) = Line(p)
        BY <2>3, AboveUnfolds
      <3>3. a \in Nat /\ b \in Nat /\ p \in Nat /\ p < a /\ p < b
        BY <2>2, <2>3, UpType, MergeAssumption DEF Pos, N, Nodes, Readers
      <3>4. ASSUME NEW x \in {a, b}, NEW y \in {a, b}, x < y PROVE FALSE
        <4>1. x \in Above(y)
          BY <2>1, <3>1, <3>4, LineComparable
        <4>2. x \in Line(p)
          BY <3>2, <4>1
        <4>3. x <= p
          BY <2>2, <4>2, KidsType, LineBounds
        <4> QED BY <3>3, <4>3
      <3>5. a < b \/ b < a
        BY <2>3, <3>3
      <3> QED BY <3>4, <3>5
    <2> QED BY <1>1, <1>3, <1>6, <2>3, <2>5
  <1> QED BY <1>2, <1>5, <1>6, <1>7, <1>8, <1>9

\* The head of the winner is not larger than that of any other reader.
LEMMA WinnerFirst ==
  ASSUME BuffersOK, NEW w, Standing(w), ~empty(winner), NEW j \in LostToWinner
  PROVE  HeadKey(winner, used) <= HeadKey(j, used)
  <1>1. /\ Tree(w, losers) /\ w[0] = winner /\ winner # -1 /\ winnerLeaf = N + winner
        /\ winner \in Readers
    BY DEF Standing, BuffersOK, TypeOK, Player
  <1>2. PICK p \in Above(winnerLeaf) : j = losers[p] /\ losers[p] # -1
    BY DEF LostToWinner, Above
  <1>3. p \in Nodes
    BY <1>1, <1>2, LeafType, LineBounds
  <1>4. w[p] = winner
    BY <1>1, <1>2, WinnerLine DEF Line
  <1>5. Ordered(w, losers, used, p)
    BY <1>3 DEF Standing
  <1> QED BY <1>2, <1>4, <1>5 DEF Ordered

\* The winner emits rows of its buffer, none larger than the next row of another
\* reader.
LEMMA EmitFacts ==
  ASSUME BuffersOK, NEW w, Standing(w), EmitWinner
  PROVE  \E m \in 1 .. want - n :
           /\ m \in Nat \ {0} /\ n + m <= want /\ used[winner] + m <= taken[winner]
           /\ Emit(RunOf(winner, m), Advance(winner, m))
           /\ IF m = WindowLen(winner)
                THEN ReturnEarly /\ UNCHANGED <<losers, winner, winnerLeaf, streak>>
                ELSE /\ replayGames(winner, Advance(winner, m))
                     /\ streak' = IF winner' = winner /\ streak < runDetectionStreak
                                    THEN streak + 1 ELSE 0
                     /\ UNCHANGED pc
           /\ \A k \in Readers : (k # winner /\ ~empty(k)) =>
                \A j \in 1 .. m : input[winner][used[winner] + j] <= HeadKey(k, used)
  <1>1. PICK m \in 1 .. want - n :
          /\ IF streak >= runDetectionStreak /\ WindowLen(winner) > 1 THEN EmitRun(m) ELSE m = 1
          /\ Emit(RunOf(winner, m), Advance(winner, m))
          /\ IF m = WindowLen(winner)
               THEN ReturnEarly /\ UNCHANGED <<losers, winner, winnerLeaf, streak>>
               ELSE /\ replayGames(winner, Advance(winner, m))
                    /\ streak' = IF winner' = winner /\ streak < runDetectionStreak
                                   THEN streak + 1 ELSE 0
                    /\ UNCHANGED pc
    BY DEF EmitWinner
  <1>2. ~empty(winner) /\ n < want
    BY DEF EmitWinner, InLoop
  <1>3. n \in Nat /\ want \in Nat
    BY DEF BuffersOK, TypeOK
  <1>4. m \in Nat \ {0} /\ n + m <= want
    BY <1>1, <1>3
  <1>5. /\ winner \in Readers /\ used[winner] \in Nat /\ taken[winner] \in Nat
        /\ Len(input[winner]) \in Nat /\ taken[winner] <= Len(input[winner])
        /\ used[winner] < taken[winner] /\ WindowLen(winner) = taken[winner] - used[winner]
    BY <1>2, StandingFacts DEF empty, WindowLen
  <1>6. \A j \in LostToWinner : HeadKey(winner, used) <= HeadKey(j, used)
    BY <1>2, WinnerFirst
  <1>7. HeadKey(winner, used) \in Int
    BY <1>5, HeadType
  <1> DEFINE Within(r) == \A k \in Readers : (k # winner /\ ~empty(k)) =>
               \A j \in 1 .. r : input[winner][used[winner] + j] <= HeadKey(k, used)
  <1>8. Within(1)
    <2> SUFFICES ASSUME NEW k \in Readers, k # winner, ~empty(k)
                 PROVE  HeadKey(winner, used) <= HeadKey(k, used)
      BY DEF HeadKey
    <2>1. PICK p \in Above(winnerLeaf) :
              /\ losers[p] \in LostToWinner
              /\ HeadKey(losers[p], used) \in Int /\ HeadKey(k, used) \in Int
              /\ HeadKey(losers[p], used) <= HeadKey(k, used)
      BY RunnerUp
    <2> DEFINE x == HeadKey(winner, used)
               y == HeadKey(losers[p], used)
               z == HeadKey(k, used)
    <2>2. x <= y /\ y <= z /\ x \in Int /\ y \in Int /\ z \in Int
      BY <1>6, <1>7, <2>1
    <2> HIDE DEF x, y, z
    <2>3. x <= z
      BY <2>2
    <2> QED BY <2>3 DEF x, z
  <1>9. CASE m = 1
    <2>1. used[winner] + m <= taken[winner]
      BY <1>5, <1>9
    <2>2. Within(m)
      BY <1>8, <1>9
    <2> QED BY <1>1, <1>4, <2>1, <2>2
  <1>10. CASE m # 1 /\ EmitRun(m)
    <2>1. CASE \E key \in Key : IsRunBound(key)
                 /\ \E run \in 0 .. want - n - 1 :
                      IsRun(run, winner, 1, want - n - 1, key, 0) /\ m = 1 + run
      <3> DEFINE most == want - n - 1
                 size == Lesser(WindowLen(winner) - 1, most)
      <3>1. PICK key \in Key, run \in 0 .. most :
              IsRunBound(key) /\ IsRun(run, winner, 1, most, key, 0) /\ m = 1 + run
        BY <2>1
      <3>2. run \in 0 .. size /\ \A j \in 1 .. run : input[winner][used[winner] + 1 + j] <= key
        BY <3>1 DEF IsRun
      <3>3. run \in Nat /\ run <= taken[winner] - used[winner] - 1
        <4>1. most \in Int /\ WindowLen(winner) \in Int /\ WindowLen(winner) = taken[winner] - used[winner]
          BY <1>3, <1>5
        <4>2. size <= WindowLen(winner) - 1 /\ size \in Int
          BY <4>1 DEF Lesser
        <4> HIDE DEF size, most
        <4> QED BY <1>5, <3>2, <4>1, <4>2
      <3>4. used[winner] + m <= taken[winner]
        BY <1>5, <3>1, <3>3
      <3>5. key \in Int
        BY <3>1, MergeAssumption
      <3>6. ASSUME NEW k \in Readers, k # winner, ~empty(k), NEW j \in 1 .. m
            PROVE  input[winner][used[winner] + j] <= HeadKey(k, used)
        <4>1. CASE j = 1
          BY <1>8, <3>6, <4>1
        <4>2. CASE j # 1
          <5>1. j - 1 \in 1 .. run /\ used[winner] + 1 + (j - 1) = used[winner] + j
            BY <1>5, <3>1, <3>3, <4>2
          <5>2. input[winner][used[winner] + j] <= key
            <6> HIDE DEF size, most
            <6> QED BY <3>2, <5>1
          <5>3. input[winner][used[winner] + j] \in Int
            <6>1. used[winner] + j \in 1 .. Len(input[winner])
              BY <1>4, <1>5, <3>4
            <6> QED BY <1>5, <6>1, InputType
          <5>4. PICK p \in Above(winnerLeaf) :
                  /\ losers[p] \in LostToWinner
                  /\ HeadKey(losers[p], used) \in Int /\ HeadKey(k, used) \in Int
                  /\ HeadKey(losers[p], used) <= HeadKey(k, used)
            BY <3>6, RunnerUp
          <5>5. key <= HeadKey(losers[p], used)
            BY <3>1, <5>4 DEF IsRunBound
          <5> DEFINE x == input[winner][used[winner] + j]
                     y == HeadKey(losers[p], used)
                     z == HeadKey(k, used)
          <5>6. x <= key /\ key <= y /\ y <= z /\ x \in Int /\ y \in Int /\ z \in Int
            BY <5>2, <5>3, <5>4, <5>5
          <5> HIDE DEF x, y, z
          <5>7. x <= z
            BY <3>5, <5>6
          <5> QED BY <5>7 DEF x, z
        <4> QED BY <4>1, <4>2
      <3> QED BY <1>1, <1>4, <3>4, <3>6
    <2>2. CASE LostToWinner = {} /\ m = Lesser(want - n, WindowLen(winner))
      <3>1. \A k \in Readers : ~(k # winner /\ ~empty(k))
        BY <2>2, RunnerUp
      <3>2. m <= WindowLen(winner)
        BY <1>3, <1>5, <2>2 DEF Lesser
      <3>3. used[winner] + m <= taken[winner]
        BY <1>4, <1>5, <3>2
      <3> QED BY <1>1, <1>4, <3>1, <3>3
    <2> QED BY <1>10, <2>1, <2>2 DEF EmitRun
  <1> QED BY <1>1, <1>9, <1>10

\* The winner emits rows; the next one has rows in its buffer, or the call ends.
LEMMA EmitWinnerTournament ==
  ASSUME TournamentInv, EmitWinner
  PROVE  /\ TournamentInv'
         /\ pc' = "merge" => ~empty(winner)'
  <1>1. /\ pc = "merge" /\ count # 0 /\ ~empty(winner)
        /\ UNCHANGED <<count, leaves, pos, initialized>>
    BY DEF EmitWinner, InLoop, initVars
  <1>2. initialized /\ BuffersOK
    BY <1>1 DEF TournamentInv, NothingRead
  <1>3. PICK w : Standing(w)
    BY <1>1, <1>2 DEF TournamentInv
  <1>4. /\ winner \in Readers /\ w[N + winner] = winner
        /\ \A i \in Readers : /\ used[i] \in Nat /\ taken[i] \in Nat /\ Len(input[i]) \in Nat
                              /\ used[i] <= taken[i] /\ taken[i] <= Len(input[i])
                              /\ w[N + i] \in {i, -1} /\ i # -1
    BY <1>2, <1>3, StandingFacts
  <1>5. \A i \in Readers : IF w[N + i] = i THEN i # winner => used[i] < taken[i]
                           ELSE used[i] = taken[i] /\ used[i] = Len(input[i])
    BY <1>3 DEF Standing
  <1>6. PICK m \in 1 .. want - n :
           /\ m \in Nat \ {0} /\ n + m <= want /\ used[winner] + m <= taken[winner]
           /\ Emit(RunOf(winner, m), Advance(winner, m))
           /\ IF m = WindowLen(winner)
                THEN ReturnEarly /\ UNCHANGED <<losers, winner, winnerLeaf, streak>>
                ELSE /\ replayGames(winner, Advance(winner, m))
                     /\ streak' = IF winner' = winner /\ streak < runDetectionStreak
                                    THEN streak + 1 ELSE 0
                     /\ UNCHANGED pc
    BY <1>2, <1>3, EmitFacts
  <1> DEFINE u == Advance(winner, m)
  <1>7. /\ u \in [Readers -> Nat] /\ u[winner] = used[winner] + m
        /\ \A k \in Readers : k # winner => u[k] = used[k]
        /\ \A k \in Readers : used[k] <= u[k] /\ u[k] <= taken[k]
    BY <1>2, <1>4, <1>6, AdvanceType
  <1> HIDE DEF u
  <1>8. /\ n' \in Nat /\ n' <= want' /\ want' = want
        /\ out' \in Seq(Readers \X (Nat \ {0}))
        /\ used' = u /\ Windows'
        /\ UNCHANGED <<input, taken, len, full, want, faults>>
    <2> DEFINE batch == RunOf(winner, m)
    <2>1. batch \in Seq(Readers \X (Nat \ {0})) /\ Len(batch) = m
      BY <1>2, <1>4, <1>6, RunOfType
    <2>2. Emit(batch, u)
      BY <1>6 DEF u
    <2> HIDE DEF batch
    <2> QED BY <1>2, <1>6, <1>7, <2>1, <2>2, EmitType
  <1>9. CASE m = WindowLen(winner)
    <2>1. pc' = "idle" /\ UNCHANGED <<losers, winner, winnerLeaf, streak>>
      BY <1>6, <1>9 DEF ReturnEarly
    <2>2. BuffersOK'
      BY <1>1, <1>2, <1>7, <1>8, <2>1 DEF BuffersOK, TypeOK, Windows
    <2>3. used'[winner] = taken'[winner]
      BY <1>4, <1>7, <1>8, <1>9 DEF WindowLen
    <2>4. \A p \in Nodes \ Above(N + winner') : Ordered(w, losers', used', p)
      BY <1>2, <1>3, <1>7, <1>8, <2>1, OffTheLine DEF Standing
    <2>5. \A i \in Readers : IF w[N + i] = i THEN i # winner' => used'[i] < taken'[i]
                             ELSE used'[i] = taken'[i] /\ used'[i] = Len(input[i])
      <3> TAKE i \in Readers
      <3>1. CASE i = winner
        BY <1>4, <2>1, <3>1
      <3>2. CASE i # winner
        BY <1>5, <1>7, <1>8, <3>2
      <3> QED BY <3>1, <3>2
    <2>6. /\ input' = input /\ Tree(w, losers') /\ w[0] = winner' /\ winner' # -1
          /\ winnerLeaf' = N + winner' /\ count' = Cardinality(Alive(w))
      BY <1>1, <1>3, <1>8, <2>1 DEF Standing
    <2>7. Standing(w)'
      BY <2>1, <2>3, <2>4, <2>5, <2>6, StandingNext
    <2> QED BY <1>1, <1>2, <2>1, <2>2, <2>7 DEF TournamentInv, Finished
  <1>10. CASE m # WindowLen(winner)
    <2>1. /\ replayGames(winner, u) /\ pc' = pc
          /\ streak' = IF winner' = winner /\ streak < runDetectionStreak
                                    THEN streak + 1 ELSE 0
      BY <1>6, <1>10 DEF u
    <2>2. u[winner] < taken[winner] /\ u[winner] < Len(input[winner]) /\ u[winner] \in Nat
      BY <1>10, <1>4, <1>6, <1>7 DEF WindowLen
    <2>3. /\ losers' \in [Nodes -> Player] /\ winner' \in Player
          /\ winnerLeaf' \in 0 .. 2 * NumReaders - 1 /\ winnerLeaf' = N + winner'
          /\ \E v : /\ Tree(v, losers') /\ v[0] = winner'
                    /\ \A p \in Nodes : Ordered(v, losers', u, p)
                    /\ \A i \in Readers : v[N + i] = IF i = winner THEN winner ELSE w[N + i]
      BY <1>2, <1>3, <1>7, <2>1, <2>2, ReplayTournament
    <2>4. PICK v : /\ Tree(v, losers') /\ v[0] = winner'
                   /\ \A p \in Nodes : Ordered(v, losers', u, p)
                   /\ \A i \in Readers : v[N + i] = IF i = winner THEN winner ELSE w[N + i]
      BY <2>3
    <2>5. \A i \in Readers : v[N + i] = w[N + i]
      BY <1>4, <2>4
    <2>6. count' = Cardinality(Alive(v))
      <3>1. Alive(v) = Alive(w)
        BY <2>5 DEF Alive
      <3> QED BY <1>1, <1>3, <3>1 DEF Standing
    <2>7. \A i \in Readers : IF v[N + i] = i THEN used'[i] < taken'[i]
                             ELSE used'[i] = taken'[i] /\ used'[i] = Len(input[i])
      <3> TAKE i \in Readers
      <3>1. CASE i = winner
        BY <1>4, <1>8, <2>2, <2>5, <3>1
      <3>2. CASE i # winner
        BY <1>5, <1>7, <1>8, <2>5, <3>2
      <3> QED BY <3>1, <3>2
    <2>8. count' # 0 => Standing(v)'
      BY <1>8, <2>3, <2>4, <2>6, <2>7, TreeAfter
    <2>9. used'[winner'] # taken'[winner']
      <3>1. 0 \in Pos /\ winner' # -1
        BY <1>1, <2>8, MergeAssumption DEF Pos, N, Standing
      <3>2. winner' \in Readers /\ v[N + winner'] = winner'
        BY <2>4, <3>1, WinnerSits
      <3>3. used'[winner'] < taken'[winner']
        BY <2>7, <3>2
      <3>4. used'[winner'] \in Nat /\ taken'[winner'] \in Nat
        BY <1>4, <1>7, <1>8, <3>2
      <3> QED BY <3>3, <3>4
    <2>10. BuffersOK'
      BY <1>1, <1>2, <1>7, <1>8, <2>1, <2>3, MergeAssumption DEF BuffersOK, TypeOK, Windows
    <2> QED BY <1>1, <1>2, <2>1, <2>8, <2>9, <2>10 DEF TournamentInv, Finished, empty
  <1> QED BY <1>9, <1>10

\* Every step keeps the invariant.
LEMMA NextTournament ==
  ASSUME TournamentInv, [Next]_vars
  PROVE  TournamentInv'
  <1>1. ASSUME NEW m \in BatchSizes, ReadRows(m) PROVE TournamentInv'
    BY <1>1, ReadRowsTournament
  <1>2. CASE Initialize
    BY <1>2, InitializeTournament
  <1>3. CASE InitializeFails
    BY <1>3, InitializeFailsTournament
  <1>4. CASE playInitialGames
    BY <1>4, PlayInitialGamesTournament
  <1>5. CASE Refill
    BY <1>5, RefillTournament
  <1>6. CASE RefillFails
    BY <1>6, RefillFailsTournament
  <1>7. CASE EmitWinner
    BY <1>7, EmitWinnerTournament
  <1>8. CASE Return
    BY <1>8, ReturnTournament
  <1>9. CASE UNCHANGED vars
    <2>1. UNCHANGED <<input, taken, used, len, full, want, n, out, pc, faults, losers, count,
                      winner, winnerLeaf, streak, leaves, pos, initialized>>
      BY <1>9 DEF vars, bufferVars, callVars, treeVars, initVars
    <2>2. BuffersOK'
      BY <2>1 DEF TournamentInv, BuffersOK, TypeOK, Windows
    <2>3. /\ (~initialized => NothingRead)'
          /\ (initialized /\ pc = "initialize" => Seated)'
          /\ (pc = "eof" => count = 0)' /\ Finished'
      BY <2>1 DEF TournamentInv, NothingRead, Seated, Finished, NoRetryOfInitialize
    <2>4. initialized' /\ pc' # "initialize" /\ count' # 0 => \E w : Standing(w)'
      BY <2>1, StandingKept DEF TournamentInv
    <2> QED BY <2>2, <2>3, <2>4 DEF TournamentInv
  <1> QED BY <1>1, <1>2, <1>3, <1>4, <1>5, <1>6, <1>7, <1>8, <1>9 DEF Next, Step

\* The invariant gives the claim of the comment in merge.go.
LEMMA RunnerUpFollows == TournamentInv => RunnerUpOnPath
  <1> SUFFICES ASSUME TournamentInv, pc = "merge", count # 0, NEW i \in Readers \ {winner}, ~empty(i)
               PROVE  /\ \E j \in LostToWinner : HeadKey(j, used) <= HeadKey(i, used)
                      /\ Cardinality({p \in Nodes : losers[p] = i}) = 1
    BY DEF RunnerUpOnPath
  <1>1. BuffersOK /\ initialized
    BY DEF TournamentInv, NothingRead
  <1>2. PICK w : Standing(w)
    BY <1>1 DEF TournamentInv
  <1>3. /\ w[N + i] = i
        /\ \E j \in LostToWinner : HeadKey(j, used) <= HeadKey(i, used)
    BY <1>1, <1>2, RunnerUp
  <1>4. Tree(w, losers) /\ w[0] # i
    BY <1>2 DEF Standing
  <1>5. PICK p \in Nodes : losers[p] = i
    BY <1>3, <1>4, LosesSomewhere
  <1>6. \A r \in Nodes : losers[r] = i => r = p
    <2> SUFFICES ASSUME NEW r \in Nodes, losers[r] = i, r # p PROVE FALSE
      OBVIOUS
    <2>1. p < r \/ r < p
      BY DEF Nodes, Readers
    <2> QED BY <1>4, <1>5, <2>1, LosesOnce
  <1>7. {r \in Nodes : losers[r] = i} = {p}
    BY <1>5, <1>6
  <1>8. Cardinality({p}) = 1
    BY FS_Singleton
  <1> QED BY <1>3, <1>7, <1>8

\* For any number of readers of any length, any keys, buffers and room in the
\* calls, and wherever readers fail: while the merge goes on, the smallest head
\* of the other readers is on the path of the winner, and each of these readers
\* sits at exactly one node of the tree.  runBound and replayGames rely on it.
THEOREM RunnerUpIsOnPath == Spec => []RunnerUpOnPath
  <1>1. Init => TournamentInv
    BY InitTournament
  <1>2. TournamentInv /\ [Next]_vars => TournamentInv'
    BY NextTournament
  <1>3. TournamentInv => RunnerUpOnPath
    BY RunnerUpFollows
  <1> QED BY <1>1, <1>2, <1>3, PTL DEF Spec

-----------------------------------------------------------------------------
(* The tournament implements SortedMerge *)

\* A batch that is appended is a step of SortedMerge when it holds exactly the
\* rows that are used by it, in order, and no row that remains is smaller.
LEMMA MergeStep ==
  ASSUME BuffersOK, pc = "merge", pc' # "eof",
         NEW batch \in Seq(Readers \X (Nat \ {0})), batch # << >>, NEW u \in [Readers -> Nat],
         \A i \in Readers : used[i] <= u[i] /\ u[i] <= taken[i], Emit(batch, u),
         \A a \in 1 .. Len(batch) : \E i \in Readers :
            \E j \in used[i] + 1 .. u[i] : batch[a] = <<i, j>>,
         \A i \in Readers : \A j \in used[i] + 1 .. u[i] :
            \E a \in 1 .. Len(batch) : batch[a] = <<i, j>>,
         \A a, b \in 1 .. Len(batch) :
            (a < b /\ batch[a][1] = batch[b][1]) => batch[a][2] < batch[b][2],
         \A a, b \in 1 .. Len(batch) : a < b => Merged!KeyOf(batch[a]) <= Merged!KeyOf(batch[b]),
         \A a \in 1 .. Len(batch), i \in Readers :
            u[i] < Len(input[i]) => Merged!KeyOf(batch[a]) <= input[i][u[i] + 1]
  PROVE  Merged!Merge
  <1>1. /\ out' = out \o batch /\ used' = u /\ input' = input
        /\ out \in Seq(Readers \X (Nat \ {0})) /\ Len(out) \in Nat /\ Len(batch) \in Nat \ {0}
    <2>1. out' = out \o batch /\ used' = u /\ input' = input
      BY DEF Emit
    <2>2. out \in Seq(Readers \X (Nat \ {0})) /\ Len(out) \in Nat
      BY DEF BuffersOK, TypeOK
    <2>3. Len(batch) \in Nat \ {0}
      OBVIOUS
    <2> QED BY <2>1, <2>2, <2>3
  <1>2. /\ Len(out') = Len(out) + Len(batch)
        /\ \A a \in 1 .. Len(out) : out'[a] = out[a]
        /\ \A a \in 1 .. Len(batch) : out'[Len(out) + a] = batch[a]
    BY <1>1
  <1>3. Merged!Added = Len(out) + 1 .. Len(out) + Len(batch)
    BY <1>2 DEF Merged!Added
  <1>4. \A a \in Merged!Added : a - Len(out) \in 1 .. Len(batch) /\ out'[a] = batch[a - Len(out)]
    <2>1. TAKE a \in Merged!Added
    <2>2. a - Len(out) \in 1 .. Len(batch) /\ a = Len(out) + (a - Len(out))
      BY <1>1, <1>3
    <2> QED BY <1>2, <2>2
  <1>5. \A a \in 1 .. Len(batch) : Len(out) + a \in Merged!Added
    BY <1>1, <1>3
  <1>6. Len(out) < Len(out')
    BY <1>1, <1>2
  <1>7. \A i \in Readers : used[i] <= used'[i] /\ used'[i] <= Len(input[i])
    <2>1. \A i \in Readers : used[i] \in Nat /\ taken[i] \in Nat /\ taken[i] <= Len(input[i])
                             /\ Len(input[i]) \in Nat
      BY InputType DEF BuffersOK, TypeOK, Windows
    <2>2. TAKE i \in Readers
    <2>3. used[i] <= u[i] /\ u[i] <= taken[i] /\ u[i] \in Nat
      BY <2>2
    <2> QED BY <1>1, <2>1, <2>2, <2>3
  <1>8. \A a \in Merged!Added : \E i \in Readers :
          \E j \in used[i] + 1 .. used'[i] : out'[a] = <<i, j>>
    <2>1. TAKE a \in Merged!Added
    <2>2. out'[a] = batch[a - Len(out)] /\ a - Len(out) \in 1 .. Len(batch)
      BY <1>4, <2>1
    <2>3. \E i \in Readers : \E j \in used[i] + 1 .. u[i] : batch[a - Len(out)] = <<i, j>>
      BY <2>2
    <2> QED BY <1>1, <2>2, <2>3
  <1>9. \A i \in Readers : \A j \in used[i] + 1 .. used'[i] :
          \E a \in Merged!Added : out'[a] = <<i, j>>
    <2>1. TAKE i \in Readers
    <2>2. TAKE j \in used[i] + 1 .. used'[i]
    <2>3. PICK a \in 1 .. Len(batch) : batch[a] = <<i, j>>
      BY <1>1, <2>1, <2>2
    <2>4. Len(out) + a \in Merged!Added /\ out'[Len(out) + a] = <<i, j>>
      BY <1>2, <1>5, <2>3
    <2> QED BY <2>4
  <1>10. \A a, b \in Merged!Added :
           (a < b /\ out'[a][1] = out'[b][1]) => out'[a][2] < out'[b][2]
    <2>1. TAKE a, b \in Merged!Added
    <2>2. HAVE a < b /\ out'[a][1] = out'[b][1]
    <2>3. a - Len(out) < b - Len(out)
      BY <1>1, <1>3, <2>2
    <2>4. /\ a - Len(out) \in 1 .. Len(batch) /\ out'[a] = batch[a - Len(out)]
          /\ b - Len(out) \in 1 .. Len(batch) /\ out'[b] = batch[b - Len(out)]
      BY <1>4, <2>1
    <2>5. batch[a - Len(out)][1] = batch[b - Len(out)][1]
      BY <2>2, <2>4
    <2>6. batch[a - Len(out)][2] < batch[b - Len(out)][2]
      BY <2>3, <2>4, <2>5
    <2> QED BY <2>4, <2>6
  <1>11. \A a, b \in Merged!Added : a < b => Merged!KeyOf(out'[a]) <= Merged!KeyOf(out'[b])
    <2>1. TAKE a, b \in Merged!Added
    <2>2. HAVE a < b
    <2>3. a - Len(out) < b - Len(out)
      BY <1>1, <1>3, <2>2
    <2> QED BY <1>4, <2>3
  <1>12. \A a \in Merged!Added, i \in Readers :
           Merged!HasNext(i, used') => Merged!KeyOf(out'[a]) <= Merged!NextKey(i, used')
    BY <1>1, <1>4 DEF Merged!HasNext, Merged!NextKey
  <1>13. ~(pc = "eof") /\ UNCHANGED <<input, pc = "eof">>
    BY <1>1
  <1> QED BY <1>2, <1>6, <1>7, <1>8, <1>9, <1>10, <1>11, <1>12, <1>13, Zenon DEF Merged!Merge

\* A run of one reader is such a batch when no row of it is larger than the next
\* row of the other reader.
LEMMA RunStep ==
  ASSUME BuffersOK, pc = "merge", pc' # "eof", NEW i \in Readers, NEW m \in Nat \ {0},
         used[i] + m <= taken[i], Emit(RunOf(i, m), Advance(i, m)),
         \A k \in Readers : (k # i /\ used[k] < Len(input[k])) =>
            \A j \in 1 .. m : input[i][used[i] + j] <= input[k][used[k] + 1]
  PROVE  Merged!Merge
  <1> DEFINE batch == RunOf(i, m)
             u == Advance(i, m)
  <1>1. /\ batch \in Seq(Readers \X (Nat \ {0})) /\ Len(batch) = m
        /\ \A j \in 1 .. m : batch[j] = <<i, used[i] + j>>
    BY RunOfType
  <1>2. /\ u \in [Readers -> Nat] /\ u[i] = used[i] + m
        /\ \A k \in Readers : k # i => u[k] = used[k]
        /\ \A k \in Readers : used[k] <= u[k] /\ u[k] <= taken[k]
    BY AdvanceType
  <1>3. /\ input[i] \in Seq(Int) /\ Len(input[i]) \in Nat /\ used[i] \in Nat
        /\ \A j, k \in 1 .. Len(input[i]) : j <= k => input[i][j] <= input[i][k]
        /\ taken[i] \in Nat /\ taken[i] <= Len(input[i])
    BY InputType DEF BuffersOK, TypeOK, Windows
  <1>4. used[i] \in Nat /\ Len(input[i]) \in Nat /\ used[i] + m <= Len(input[i])
    BY <1>3
  <1>5. \A a \in 1 .. m : /\ used[i] + a \in used[i] + 1 .. used[i] + m
                           /\ used[i] + a \in 1 .. Len(input[i])
    BY <1>4
  <1>6. \A a \in 1 .. m : Merged!KeyOf(batch[a]) = input[i][used[i] + a]
    BY <1>1 DEF Merged!KeyOf
  <1>7. batch # << >>
    BY <1>1
  <1> HIDE DEF batch, u
  <1>8. Emit(batch, u)
    BY DEF batch, u
  <1>9. \A a \in 1 .. Len(batch) : \E k \in Readers :
          \E j \in used[k] + 1 .. u[k] : batch[a] = <<k, j>>
    <2>1. TAKE a \in 1 .. Len(batch)
    <2>2. a \in 1 .. m /\ batch[a] = <<i, used[i] + a>>
      BY <1>1, <2>1
    <2>3. used[i] + a \in used[i] + 1 .. u[i]
      BY <1>2, <1>5, <2>2
    <2> QED BY <2>2, <2>3
  <1>10. \A k \in Readers : \A j \in used[k] + 1 .. u[k] :
          \E a \in 1 .. Len(batch) : batch[a] = <<k, j>>
    <2>1. TAKE k \in Readers
    <2>2. TAKE j \in used[k] + 1 .. u[k]
    <2>3. CASE k # i
      BY <1>2, <2>2, <2>3 DEF BuffersOK, TypeOK
    <2>4. CASE k = i
      <3>1. j - used[i] \in 1 .. m /\ used[i] + (j - used[i]) = j
        BY <1>2, <1>3, <2>2, <2>4
      <3>2. batch[j - used[i]] = <<i, used[i] + (j - used[i])>>
        BY <1>1, <3>1
      <3> QED BY <1>1, <2>4, <3>1, <3>2
    <2> QED BY <2>3, <2>4
  <1>11. \A a, b \in 1 .. Len(batch) :
          (a < b /\ batch[a][1] = batch[b][1]) => batch[a][2] < batch[b][2]
    <2>1. TAKE a, b \in 1 .. Len(batch)
    <2>2. batch[a] = <<i, used[i] + a>> /\ batch[b] = <<i, used[i] + b>>
      BY <1>1
    <2>3. batch[a][2] = used[i] + a /\ batch[b][2] = used[i] + b
      BY <2>2
    <2>4. a < b => used[i] + a < used[i] + b
      BY <1>1, <1>3
    <2> QED BY <2>3, <2>4
  <1>12. \A a, b \in 1 .. Len(batch) : a < b => Merged!KeyOf(batch[a]) <= Merged!KeyOf(batch[b])
    <2>1. TAKE a, b \in 1 .. Len(batch)
    <2>2. HAVE a < b
    <2>3. /\ used[i] + a \in 1 .. Len(input[i]) /\ used[i] + b \in 1 .. Len(input[i])
          /\ used[i] + a <= used[i] + b
      BY <1>1, <1>4, <1>5, <2>1, <2>2
    <2>4. input[i][used[i] + a] <= input[i][used[i] + b]
      BY <1>3, <2>3
    <2> QED BY <1>1, <1>6, <2>4
  <1>13. \A a \in 1 .. Len(batch), k \in Readers :
           u[k] < Len(input[k]) => Merged!KeyOf(batch[a]) <= input[k][u[k] + 1]
    <2>1. TAKE a \in 1 .. Len(batch), k \in Readers
    <2>2. HAVE u[k] < Len(input[k])
    <2>3. CASE k # i
      BY <1>1, <1>2, <1>6, <2>2, <2>3
    <2>4. CASE k = i
      <3>1. /\ used[i] + a \in 1 .. Len(input[i]) /\ u[i] + 1 \in 1 .. Len(input[i])
            /\ used[i] + a <= u[i] + 1
        <4>1. a \in 1 .. m
          BY <1>1, <2>1
        <4>2. u[i] = used[i] + m /\ u[i] < Len(input[i])
          BY <1>2, <2>2, <2>4
        <4>3. used[i] + a \in 1 .. Len(input[i])
          BY <1>5, <4>1
        <4>4. used[i] + m + 1 \in 1 .. Len(input[i]) /\ used[i] + a <= used[i] + m + 1
          BY <1>4, <4>1, <4>2
        <4> QED BY <4>2, <4>3, <4>4
      <3>2. input[i][used[i] + a] <= input[i][u[i] + 1]
        BY <1>3, <3>1
      <3> QED BY <1>1, <1>6, <2>4, <3>2
    <2> QED BY <2>3, <2>4
  <1> QED BY <1>1, <1>2, <1>7, <1>8, <1>9, <1>10, <1>11, <1>12, <1>13, MergeStep


\* The winner's step merges a run.
LEMMA EmitWinnerStep ==
  ASSUME TournamentInv, EmitWinner
  PROVE  Merged!Merge
  <1>1. pc = "merge" /\ count # 0
    BY DEF EmitWinner, InLoop
  <1>2. initialized /\ BuffersOK
    BY <1>1 DEF TournamentInv, NothingRead
  <1>3. PICK w : Standing(w)
    BY <1>1, <1>2 DEF TournamentInv
  <1>4. PICK m \in 1 .. want - n :
           /\ m \in Nat \ {0} /\ used[winner] + m <= taken[winner]
           /\ Emit(RunOf(winner, m), Advance(winner, m))
           /\ ReturnEarly \/ UNCHANGED pc
           /\ \A k \in Readers : (k # winner /\ ~empty(k)) =>
                \A j \in 1 .. m : input[winner][used[winner] + j] <= HeadKey(k, used)
    BY <1>2, <1>3, EmitFacts
  <1>5. pc' # "eof"
    BY <1>1, <1>4 DEF ReturnEarly
  <1>6. winner \in Readers
    BY <1>2, <1>3, StandingFacts
  <1>7. ASSUME NEW k \in Readers, k # winner, used[k] < Len(input[k])
        PROVE  \A j \in 1 .. m : input[winner][used[winner] + j] <= input[k][used[k] + 1]
    <2>1. used[k] \in Nat /\ taken[k] \in Nat
      BY <1>2, <1>3, StandingFacts
    <2>2. used[k] < taken[k]
      BY <1>3, <1>7, <2>1 DEF Standing
    <2>3. ~empty(k)
      BY <2>1, <2>2 DEF empty
    <2> QED BY <1>4, <1>7, <2>3 DEF HeadKey
  <1> QED BY <1>1, <1>2, <1>4, <1>5, <1>6, <1>7, RunStep

\* Every step is a step of SortedMerge or changes nothing of it.
LEMMA StepRefines ==
  ASSUME TournamentInv, NoRetryOfInitialize, [Next]_vars
  PROVE  [Merged!Next]_(Merged!mergeVars)
  <1>1. ASSUME NEW m \in BatchSizes, ReadRows(m) PROVE UNCHANGED Merged!mergeVars
    BY <1>1 DEF ReadRows, bufferVars, Merged!mergeVars
  <1>2. CASE Initialize \/ Refill
    BY <1>2 DEF Initialize, Refill, Fill, FillEOF, callVars, Merged!mergeVars
  <1>3. CASE RefillFails \/ InitializeFails
    BY <1>3 DEF RefillFails, InitializeFails, InLoop, FillFails, Merged!mergeVars
  <1>4. CASE playInitialGames
    BY <1>4 DEF playInitialGames, bufferVars, Merged!mergeVars
  <1>5. CASE EmitWinner
    BY <1>5, EmitWinnerStep DEF Merged!Next
  <1>6. CASE Return
    <2>1. /\ pc = "merge" /\ pc' = IF count = 0 THEN "eof" ELSE "idle"
          /\ UNCHANGED <<input, used, out>>
      BY <1>6 DEF Return, bufferVars
    <2>2. CASE count # 0
      BY <2>1, <2>2 DEF Merged!mergeVars
    <2>3. CASE count = 0
      <3>1. initialized /\ BuffersOK
        BY <2>1 DEF TournamentInv, NothingRead
      <3>2. \A i \in Readers : used[i] = Len(input[i]) /\ used[i] \in Nat
        BY <2>1, <2>3, <3>1 DEF TournamentInv, Finished, BuffersOK, TypeOK
      <3>3. \A i \in Readers : ~Merged!HasNext(i, used)
        BY <3>2 DEF Merged!HasNext
      <3>4. Merged!End
        BY <2>1, <2>3, <3>3 DEF Merged!End
      <3> QED BY <3>4 DEF Merged!Next
    <2> QED BY <2>2, <2>3
  <1>7. CASE UNCHANGED vars
    BY <1>7 DEF vars, bufferVars, callVars, Merged!mergeVars
  <1> QED BY <1>1, <1>2, <1>3, <1>4, <1>5, <1>6, <1>7 DEF Next, Step

\* Before the first call nothing is merged.
LEMMA InitRefines == Init => Merged!Init
  <1> SUFFICES ASSUME Init PROVE Merged!Init
    OBVIOUS
  <1>1. BuffersOK
    BY InitTournament DEF TournamentInv
  <1>2. input \in [Readers -> SortedInput]
    BY <1>1 DEF BuffersOK
  <1>3. \A i \in Readers :
          /\ input[i] \in Seq(Int)
          /\ \A j, k \in 1 .. Len(input[i]) : j <= k => input[i][j] <= input[i][k]
    BY <1>1, InputType
  <1>4. input \in [Readers -> Seq(Int)]
    BY <1>2, <1>3
  <1>5. used = [i \in Readers |-> 0] /\ out = << >> /\ (pc = "eof") = FALSE
    BY DEF Init, BuffersInit
  <1> QED BY <1>3, <1>4, <1>5 DEF Merged!Init

\* For any number of readers of any length, any keys, buffers and room in the
\* calls, and wherever readers fail: the tournament emits the rows of all
\* readers sorted, each once, and reports the end when none is left.  Only a
\* caller that calls again after its first call failed is excluded: initialize
\* is not repeated, and the second call reports the end with rows unread.
THEOREM TournamentCorrect ==
  ASSUME NoRetryOfInitialize
  PROVE  Spec => ImplementsMerge
  <1>1. Init => TournamentInv
    BY InitTournament
  <1>2. TournamentInv /\ [Next]_vars => TournamentInv'
    BY NextTournament
  <1>3. TournamentInv /\ [Next]_vars => [Merged!Next]_(Merged!mergeVars)
    BY StepRefines
  <1> QED BY <1>1, <1>2, <1>3, InitRefines, PTL DEF Spec, ImplementsMerge, Merged!Spec

-----------------------------------------------------------------------------
(* The steps of a call *)

\* While rows were emitted, the winner has more of them in its buffer.  Failures
\* are counted.
RowsInHand ==
  /\ faults \in Nat
  /\ pc = "initialize" => n = 0
  /\ pc = "merge" /\ count # 0 => n = 0 \/ ~empty(winner)

\* Every step keeps the rows in hand.
LEMMA NextInHand ==
  ASSUME TournamentInv, RowsInHand, [Next]_vars
  PROVE  RowsInHand'
  <1>1. ASSUME NEW m \in BatchSizes, ReadRows(m) PROVE RowsInHand'
    BY <1>1 DEF ReadRows, RowsInHand
  <1>2. CASE Initialize
    BY <1>2 DEF Initialize, callVars, RowsInHand
  <1>3. CASE InitializeFails \/ RefillFails
    BY <1>3 DEF InitializeFails, RefillFails, FillFails, RowsInHand
  <1>4. CASE playInitialGames
    BY <1>4 DEF playInitialGames, RowsInHand
  <1>5. CASE Refill
    BY <1>5 DEF Refill, InLoop, callVars, RowsInHand
  <1>6. CASE EmitWinner
    <2>1. pc = "merge" /\ (pc' = "merge" => ~empty(winner)')
      BY <1>6, EmitWinnerTournament DEF EmitWinner, InLoop
    <2>2. pc' # "initialize"
      BY <1>6, <2>1 DEF EmitWinner, ReturnEarly
    <2>3. faults' = faults
      BY <1>6 DEF EmitWinner, Emit
    <2> QED BY <2>1, <2>2, <2>3 DEF RowsInHand
  <1>7. CASE Return
    BY <1>7 DEF Return, RowsInHand
  <1>8. CASE UNCHANGED vars
    BY <1>8 DEF vars, bufferVars, callVars, treeVars, RowsInHand, empty
  <1> QED BY <1>1, <1>2, <1>3, <1>4, <1>5, <1>6, <1>7, <1>8 DEF Next, Step

\* For any number of readers, any buffers and any room in the calls: a buffer is
\* only read into while no row of the call refers to one.
THEOREM NoRefillAfterEmitCorrect == Spec => NoRefillAfterEmit
  <1>1. Init => TournamentInv /\ RowsInHand
    BY InitTournament DEF Init, BuffersInit, RowsInHand
  <1>2. TournamentInv /\ RowsInHand /\ [Next]_vars => TournamentInv' /\ RowsInHand'
    BY NextTournament, NextInHand
  <1>3. TournamentInv /\ RowsInHand /\ [Next]_vars
          => [taken' # taken => n = 0]_<<bufferVars, callVars>>
    <2> SUFFICES ASSUME TournamentInv, RowsInHand, [Next]_vars, taken' # taken PROVE n = 0
      OBVIOUS
    <2>1. Initialize \/ Refill
      <3>1. ASSUME NEW m \in BatchSizes, ReadRows(m) PROVE taken' = taken
        BY <3>1 DEF ReadRows, bufferVars
      <3>2. EmitWinner => taken' = taken
        BY DEF EmitWinner, Emit
      <3>3. InitializeFails \/ RefillFails \/ playInitialGames \/ Return \/ UNCHANGED vars => taken' = taken
        BY DEF InitializeFails, RefillFails, FillFails, playInitialGames, Return, bufferVars, vars
      <3> QED BY <3>1, <3>2, <3>3 DEF Next, Step
    <2> QED BY <2>1 DEF Initialize, Refill, InLoop, RowsInHand
  <1> QED BY <1>1, <1>2, <1>3, PTL DEF Spec, NoRefillAfterEmit

\* For any number of readers, any buffers and any room in the calls: a call with
\* room returns rows, reports the end or fails.
THEOREM ReadRowsProgressCorrect == Spec => ReadRowsProgress
  <1>1. Init => TournamentInv /\ RowsInHand
    BY InitTournament DEF Init, BuffersInit, RowsInHand
  <1>2. TournamentInv /\ RowsInHand /\ [Next]_vars => TournamentInv' /\ RowsInHand'
    BY NextTournament, NextInHand
  <1>3. TournamentInv /\ RowsInHand /\ [Next]_vars
          => [(pc # "idle" /\ pc' = "idle" /\ faults' = faults) => (n' > 0 \/ want = 0)]_<<bufferVars, callVars>>
    <2> SUFFICES ASSUME TournamentInv, RowsInHand, [Next]_vars, pc # "idle", pc' = "idle", faults' = faults
                 PROVE  n' > 0 \/ want = 0
      OBVIOUS
    <2>1. /\ n \in Nat /\ want \in Nat /\ n <= want /\ faults \in Nat
      BY DEF TournamentInv, BuffersOK, TypeOK, RowsInHand
    <2>2. CASE EmitWinner
      <3>1. pc = "merge" /\ count # 0
        BY <2>2 DEF EmitWinner, InLoop
      <3>2. BuffersOK /\ \E w : Standing(w)
        BY <3>1 DEF TournamentInv, NothingRead
      <3>3. PICK m \in Nat \ {0} : Emit(RunOf(winner, m), Advance(winner, m))
        BY <2>2, <3>2, EmitFacts
      <3>4. Len(RunOf(winner, m)) = m
        BY <3>2, <3>3, StandingFacts, RunOfType
      <3>5. n' = n + m
        BY <3>3, <3>4 DEF Emit
      <3> QED BY <2>1, <3>3, <3>5
    <2>3. CASE Return
      BY <2>1, <2>3 DEF Return
    <2>4. ASSUME NEW m \in BatchSizes, ReadRows(m) PROVE FALSE
      BY <2>4 DEF ReadRows
    <2>5. CASE InitializeFails \/ RefillFails
      BY <2>1, <2>5 DEF InitializeFails, RefillFails, FillFails
    <2>6. CASE Initialize \/ playInitialGames \/ Refill \/ UNCHANGED vars
      BY <2>6 DEF Initialize, playInitialGames, Refill, InLoop, vars, callVars
    <2> QED BY <2>2, <2>3, <2>4, <2>5, <2>6 DEF Next, Step
  <1> QED BY <1>1, <1>2, <1>3, PTL DEF Spec, ReadRowsProgress
=============================================================================
