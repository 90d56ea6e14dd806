-------------------------- MODULE AlgorithmProofs --------------------------
(***************************************************************************)
(* The algorithms on columns that do not recurse.  runLength is correct    *)
(* for every sorted window, however long: galloping and bisection stay     *)
(* within the window and find the end of the run.  The column and offset   *)
(* indexes of any number of pages and chunks, read as one index, tell the  *)
(* truth about the pages, and Search finds the first page that may hold a  *)
(* value in them.  Columns of every type, however long, keep equal values  *)
(* equal when their dictionary is given up, and the bounds of their pages  *)
(* cover the values.  A value keeps its number, or its day, through any    *)
(* number of conversions between types that can hold it.                   *)
(***************************************************************************)
EXTENDS RunLength, PageIndex, TypedColumns, Conversions, FiniteSetTheorems, SequenceTheorems,
        WellFoundedInduction, TLAPS

\* The arguments: a sorted window of keys and a way to treat ties.
ArgumentsOK ==
  /\ window \in Seq(Int) /\ SortedWindow(window)
  /\ bound \in Int /\ max \in {-1, 0}

\* What the loops maintain: the row at lo is in the run, the row at hi is not.
SearchOK ==
  /\ lo \in Nat /\ hi \in Nat /\ result \in Nat
  /\ pc \in {"ends", "gallop", "bisect", "done"}
  /\ pc = "ends" => lo = 0 /\ hi = 1
  /\ pc = "gallop" => lo < hi /\ lo < Len(window) /\ Qualifies(lo)
  /\ pc = "bisect" => /\ lo < hi /\ hi <= Len(window) /\ Qualifies(lo)
                      /\ hi < Len(window) => ~Qualifies(hi)

Inv == ArgumentsOK /\ SearchOK /\ RunLengthCorrect

\* The comparison is the order of the integers.
LEMMA CompareIsOrder ==
  ASSUME NEW a \in Int, NEW b \in Int, NEW m \in {-1, 0}
  PROVE  (compare(a, b) <= m) <=> (IF m = 0 THEN a <= b ELSE a < b)
  BY DEF compare

\* The rows before a row of the run are in the run.
LEMMA RunIsPrefix ==
  ASSUME ArgumentsOK, NEW j \in Nat, NEW k \in Nat, k <= j, j < Len(window), Qualifies(j)
  PROVE  Qualifies(k)
  <1>1. j + 1 \in 1 .. Len(window) /\ k + 1 \in 1 .. Len(window) /\ k + 1 <= j + 1
    BY DEF ArgumentsOK
  <1>2. window[k + 1] \in Int /\ window[j + 1] \in Int /\ bound \in Int /\ max \in {-1, 0}
    BY <1>1 DEF ArgumentsOK
  <1>3. window[k + 1] <= window[j + 1]
    BY <1>1 DEF ArgumentsOK, SortedWindow
  <1> QED BY <1>2, <1>3, CompareIsOrder DEF Qualifies

\* A result with a row of the run before it and none at it is the length.
LEMMA RunLengthFound ==
  ASSUME ArgumentsOK, NEW r \in Nat, r <= Len(window),
         r > 0 => Qualifies(r - 1), r < Len(window) => ~Qualifies(r)
  PROVE  IsRunLength(r, window, bound, max)
  <1>1. Len(window) \in Nat /\ r \in 0 .. Len(window)
    BY DEF ArgumentsOK
  <1>2. ASSUME NEW j \in 1 .. r PROVE compare(window[j], bound) <= max
    <2>1. r - 1 \in Nat /\ j - 1 \in Nat /\ j - 1 <= r - 1 /\ r - 1 < Len(window) /\ r > 0
      BY <1>1
    <2>2. Qualifies(j - 1)
      BY <2>1, RunIsPrefix
    <2>3. (j - 1) + 1 = j
      OBVIOUS
    <2> QED BY <2>2, <2>3 DEF Qualifies
  <1>3. ASSUME r < Len(window) PROVE compare(window[r + 1], bound) > max
    BY <1>1, <1>3 DEF ArgumentsOK, compare, Qualifies
  <1> QED BY <1>1, <1>2, <1>3 DEF IsRunLength

\* The arguments of a call satisfy the invariant.
LEMMA InitInv == Init => Inv
  <1> SUFFICES ASSUME Init PROVE Inv
    OBVIOUS
  <1>1. PICK m \in 0 .. MaxWindow : window \in [1 .. m -> Key]
    BY DEF Init
  <1>2. window \in Seq(Int)
    <2>1. m \in Nat
      BY RunLengthAssumption
    <2>2. window = [i \in 1 .. m |-> window[i]]
      BY <1>1
    <2>3. \A i \in 1 .. m : window[i] \in Key
      BY <1>1
    <2>4. \A i \in 1 .. m : window[i] \in Int
      BY <2>3, RunLengthAssumption
    <2> QED BY <2>1, <2>2, <2>4
  <1>3. ArgumentsOK
    BY <1>2, RunLengthAssumption DEF Init, ArgumentsOK
  <1> QED BY <1>3 DEF Init, Inv, SearchOK, RunLengthCorrect

\* Every step of the search maintains it.
LEMMA NextInv == Inv /\ [Next]_vars => Inv'
  <1> SUFFICES ASSUME Inv, [Next]_vars PROVE Inv'
    OBVIOUS
  <1> USE DEF Inv
  <1>1. Len(window) \in Nat /\ lo \in Nat /\ hi \in Nat
    BY DEF ArgumentsOK, SearchOK
  <1>2. CASE EmptyRun
    BY <1>1, <1>2, RunLengthFound DEF EmptyRun, Return, arguments, ArgumentsOK, SearchOK,
      RunLengthCorrect
  <1>3. CASE CompleteRun
    BY <1>1, <1>3, RunLengthFound DEF CompleteRun, Return, arguments, ArgumentsOK, SearchOK,
      RunLengthCorrect
  <1>4. CASE StartGallop
    BY <1>1, <1>4
    DEF StartGallop, arguments, ArgumentsOK, SearchOK, RunLengthCorrect, Qualifies
  <1>5. CASE Gallop
    BY <1>1, <1>5 DEF Gallop, SearchOK, arguments, ArgumentsOK, RunLengthCorrect, Qualifies
  <1>6. CASE GallopEnds
    BY <1>1, <1>6 DEF GallopEnds, SearchOK, ClampUpperEnd, arguments, ArgumentsOK, RunLengthCorrect,
      Qualifies
  <1>7. CASE Bisect
    <2> DEFINE mid == (lo + hi) \div 2
    <2>1. pc = "bisect" /\ lo + 1 < hi /\ hi <= Len(window)
      BY <1>1, <1>7 DEF Bisect, StopBisecting, SearchOK
    <2>2. mid \in Nat /\ lo < mid /\ mid < hi
      BY <1>1, <2>1
    <2>3. \/ Qualifies(mid) /\ lo' = mid /\ hi' = hi
          \/ ~Qualifies(mid) /\ hi' = mid /\ lo' = lo
      BY <1>7 DEF Bisect
    <2>4. UNCHANGED <<window, bound, max, pc, result>>
      BY <1>7 DEF Bisect, arguments
    <2> HIDE DEF mid
    <2>5. ArgumentsOK' /\ RunLengthCorrect'
      BY <2>1, <2>4 DEF ArgumentsOK, RunLengthCorrect
    <2>6. \A j \in Nat : Qualifies(j)' <=> Qualifies(j)
      BY <2>4 DEF Qualifies
    <2>7. Qualifies(lo) /\ (hi < Len(window) => ~Qualifies(hi)) /\ result \in Nat
      BY <2>1 DEF SearchOK
    <2>8. /\ lo' \in Nat /\ hi' \in Nat /\ lo' < hi' /\ hi' <= Len(window)
          /\ Qualifies(lo') /\ (hi' < Len(window) => ~Qualifies(hi'))
      BY <1>1, <2>1, <2>2, <2>3, <2>7
    <2> QED BY <2>1, <2>4, <2>5, <2>6, <2>7, <2>8 DEF SearchOK, Qualifies
  <1>8. CASE Found
    <2>1. pc = "bisect" /\ hi = lo + 1 /\ hi <= Len(window) /\ Qualifies(lo)
      BY <1>1, <1>8 DEF Found, StopBisecting, SearchOK
    <2>2. hi < Len(window) => ~Qualifies(hi)
      BY <2>1 DEF SearchOK
    <2>3. hi - 1 = lo
      BY <1>1, <2>1
    <2>4. IsRunLength(hi, window, bound, max)
      BY <1>1, <2>1, <2>2, <2>3, RunLengthFound
    <2> QED BY <1>1, <1>8, <2>4
        DEF Found, Return, arguments, ArgumentsOK, SearchOK, RunLengthCorrect
  <1>9. CASE Terminated \/ UNCHANGED vars
    BY <1>9 DEF Terminated, vars, arguments, ArgumentsOK, SearchOK, RunLengthCorrect, Qualifies
  <1> QED BY <1>2, <1>3, <1>4, <1>5, <1>6, <1>7, <1>8, <1>9 DEF Next

\* For every sorted window, bound and treatment of ties, runLength returns the
\* length of the run and never looks outside the window.
THEOREM RunLengthIsCorrect == Spec => [](RunLengthCorrect /\ WithinWindow)
  <1>1. Inv => RunLengthCorrect /\ WithinWindow
    <2> SUFFICES ASSUME Inv PROVE RunLengthCorrect /\ WithinWindow
      OBVIOUS
    <2>1. Len(window) \in Nat /\ lo \in Nat /\ hi \in Nat
      BY DEF Inv, ArgumentsOK, SearchOK
    <2> QED BY <2>1 DEF Inv, SearchOK, WithinWindow
  <1> QED BY <1>1, InitInv, NextInv, PTL DEF Spec
-----------------------------------------------------------------------------
(* Induction on naturals, and the greatest and least elements of sets.      *)

\* Every nonempty set of naturals has a least element.
LEMMA LeastElement ==
  ASSUME NEW T \in SUBSET Nat, T # {}
  PROVE  \E x \in T : \A y \in T : x <= y
  <1> DEFINE Smaller == {p \in Nat \X Nat : p[1] < p[2]}
  <1>1. IsWellFoundedOn(Smaller, Nat)
    BY NatLessThanWellFounded DEF OpToRel
  <1>2. PICK x \in T : \A y \in T : ~ (<<y, x>> \in Smaller)
    BY <1>1, WFMin
  <1>3. \A y \in T : ~(y < x)
    <2> TAKE y \in T
    <2>1. <<y, x>> \in Nat \X Nat /\ <<y, x>>[1] = y /\ <<y, x>>[2] = x
      OBVIOUS
    <2> QED BY <1>2, <2>1
  <1> QED BY <1>3

\* A set of naturals with 0 and the successor of each of its elements.
LEMMA SetInduction ==
  ASSUME NEW S \in SUBSET Nat, 0 \in S, \A n \in S : n + 1 \in S
  PROVE  \A n \in Nat : n \in S
  <1> SUFFICES ASSUME Nat \ S # {} PROVE FALSE
    OBVIOUS
  <1>1. PICK least \in Nat \ S : \A y \in Nat \ S : least <= y
    BY LeastElement
  <1>2. least # 0 /\ least - 1 \in Nat
    BY <1>1
  <1>3. least - 1 \in S
    BY <1>1, <1>2
  <1>4. (least - 1) + 1 \in S
    BY <1>3
  <1> QED BY <1>1, <1>4

\* Min and Max of sets of naturals that have one.
LEMMA MinIs ==
  ASSUME NEW T \in SUBSET Nat, T # {}
  PROVE  Min(T) \in T /\ \A y \in T : Min(T) <= y
  BY LeastElement DEF Min

\* The greatest element of a set of numbers with a bound.
LEMMA MaxIs ==
  ASSUME NEW T \in SUBSET Nat, T # {}, NEW top \in Nat, \A y \in T : y <= top
  PROVE  Max(T) \in T /\ \A y \in T : Max(T) >= y
  <1> DEFINE D == {n \in Nat : \E y \in T : n = top - y}
  <1>1. D \in SUBSET Nat /\ D # {}
    <2>1. PICK y \in T : TRUE
      OBVIOUS
    <2>2. top - y \in Nat
      OBVIOUS
    <2>3. top - y \in D
      BY <2>2
    <2> QED BY <2>3
  <1>2. PICK d \in D : \A e \in D : d <= e
    BY <1>1, LeastElement
  <1>3. PICK x \in T : d = top - x
    BY <1>2
  <1>4. \A y \in T : x >= y
    <2> TAKE y \in T
    <2>1. top - y \in D /\ d <= top - y
      <3>1. top - y \in Nat
        OBVIOUS
      <3>2. top - y \in D
        BY <3>1
      <3> HIDE DEF D
      <3> QED BY <1>2, <3>2
    <2> QED BY <1>3, <2>1
  <1> QED BY <1>4 DEF Max

\* The smaller of two numbers.
LEMMA MinOfTwo ==
  ASSUME NEW x \in Nat, NEW y \in Nat
  PROVE  Min({x, y}) = IF x <= y THEN x ELSE y
  BY MinIs

-----------------------------------------------------------------------------
(* The order of values.                                                     *)

\* a comes before b: it is smaller at i, or ends there, and equal before.
BeforeAt(a, b, i) ==
    /\ i \in 1 .. Len(b) /\ i <= Len(a) + 1
    /\ \A j \in 1 .. i - 1 : a[j] = b[j]
    /\ i <= Len(a) => a[i] < b[i]
Before(a, b) == \E i \in Nat : BeforeAt(a, b, i)

AtMost(a, b) == Compare(a, b) <= 0

\* Compare is the lexicographic order.
LEMMA CompareIs ==
  ASSUME NEW a \in Seq(Int), NEW b \in Seq(Int)
  PROVE  /\ Compare(a, b) \in {-1, 0, 1}
         /\ Compare(a, b) = -1 <=> Before(a, b)
         /\ Compare(a, b) = 1 <=> Before(b, a)
         /\ Compare(a, b) = 0 <=> a = b
  <1> DEFINE n == Min({Len(a), Len(b)})
             differ == {i \in 1..n : a[i] # b[i]}
             first == Min(differ)
  <1>1. n = IF Len(a) <= Len(b) THEN Len(a) ELSE Len(b)
    BY MinOfTwo
  <1> HIDE DEF n
  <1>2. n \in Nat /\ n <= Len(a) /\ n <= Len(b) /\ Len(a) \in Nat /\ Len(b) \in Nat
    BY <1>1
  <1>3. \A i \in 1 .. n : a[i] \in Int /\ b[i] \in Int
    BY <1>2
  <1>4. Compare(a, b) = IF differ # {} THEN (IF a[first] < b[first] THEN -1 ELSE 1)
                        ELSE IF Len(a) < Len(b) THEN -1 ELSE IF Len(a) > Len(b) THEN 1 ELSE 0
    BY DEF Compare, n
  <1>5. ASSUME differ # {}
        PROVE  /\ first \in 1 .. n /\ a[first] # b[first]
               /\ \A j \in 1 .. first - 1 : a[j] = b[j]
    <2>1. differ \in SUBSET Nat
      BY <1>2
    <2>2. first \in differ /\ \A y \in differ : first <= y
      BY <1>5, <2>1, MinIs
    <2> HIDE DEF first
    <2> QED BY <1>2, <2>2
  <1>6. CASE differ # {}
    <2>1. /\ first \in 1 .. n /\ a[first] # b[first]
          /\ \A j \in 1 .. first - 1 : a[j] = b[j]
      BY <1>5, <1>6
    <2>2. Compare(a, b) = IF a[first] < b[first] THEN -1 ELSE 1
      BY <1>4, <1>6
    <2> HIDE DEF first, differ
    <2>3. a[first] \in Int /\ b[first] \in Int /\ first \in Nat
      BY <1>2, <1>3, <2>1
    <2>4. a # b
      BY <2>1
    <2>5. ASSUME NEW i \in Nat, BeforeAt(a, b, i) PROVE i = first /\ a[first] < b[first]
      <3>1. ~(i < first)
        BY <1>2, <2>1, <2>5 DEF BeforeAt
      <3>2. ~(first < i)
        BY <1>2, <2>1, <2>3, <2>5 DEF BeforeAt
      <3>3. i = first
        BY <2>3, <3>1, <3>2
      <3> QED BY <1>2, <2>1, <2>5, <3>3 DEF BeforeAt
    <2>6. ASSUME NEW i \in Nat, BeforeAt(b, a, i) PROVE i = first /\ b[first] < a[first]
      <3>1. ~(i < first)
        BY <1>2, <2>1, <2>6 DEF BeforeAt
      <3>2. ~(first < i)
        BY <1>2, <2>1, <2>3, <2>6 DEF BeforeAt
      <3>3. i = first
        BY <2>3, <3>1, <3>2
      <3> QED BY <1>2, <2>1, <2>6, <3>3 DEF BeforeAt
    <2>7. a[first] < b[first] => BeforeAt(a, b, first)
      BY <1>2, <2>1, <2>3 DEF BeforeAt
    <2>8. b[first] < a[first] => BeforeAt(b, a, first)
      BY <1>2, <2>1, <2>3 DEF BeforeAt
    <2>9. Before(a, b) <=> a[first] < b[first]
      BY <2>3, <2>5, <2>7 DEF Before
    <2>10. Before(b, a) <=> b[first] < a[first]
      BY <2>3, <2>6, <2>8 DEF Before
    <2> QED BY <2>1, <2>2, <2>3, <2>4, <2>9, <2>10
  <1>7. CASE differ = {}
    <2>1. \A j \in 1 .. n : a[j] = b[j]
      BY <1>7
    <2>2. Compare(a, b) = IF Len(a) < Len(b) THEN -1 ELSE IF Len(a) > Len(b) THEN 1 ELSE 0
      BY <1>4, <1>7
    <2> HIDE DEF first, differ
    <2>3. Before(a, b) <=> Len(a) < Len(b)
      <3>1. ASSUME NEW i \in Nat, BeforeAt(a, b, i) PROVE Len(a) < Len(b)
        BY <1>1, <1>2, <1>3, <2>1, <3>1 DEF BeforeAt
      <3>2. ASSUME Len(a) < Len(b) PROVE BeforeAt(a, b, Len(a) + 1)
        BY <1>1, <1>2, <2>1, <3>2 DEF BeforeAt
      <3>3. Len(a) + 1 \in Nat
        BY <1>2
      <3> QED BY <3>1, <3>2, <3>3 DEF Before
    <2>4. Before(b, a) <=> Len(b) < Len(a)
      <3>1. ASSUME NEW i \in Nat, BeforeAt(b, a, i) PROVE Len(b) < Len(a)
        BY <1>1, <1>2, <1>3, <2>1, <3>1 DEF BeforeAt
      <3>2. ASSUME Len(b) < Len(a) PROVE BeforeAt(b, a, Len(b) + 1)
        BY <1>1, <1>2, <2>1, <3>2 DEF BeforeAt
      <3>3. Len(b) + 1 \in Nat
        BY <1>2
      <3> QED BY <3>1, <3>2, <3>3 DEF Before
    <2>5. a = b <=> Len(a) = Len(b)
      BY <1>1, <2>1, SeqEqual
    <2> QED BY <1>2, <2>2, <2>3, <2>4, <2>5
  <1> QED BY <1>6, <1>7

\* Before is transitive.
LEMMA BeforeTransitive ==
  ASSUME NEW a \in Seq(Int), NEW b \in Seq(Int), NEW c \in Seq(Int), Before(a, b), Before(b, c)
  PROVE  Before(a, c)
  <1>1. PICK i \in Nat : BeforeAt(a, b, i)
    BY DEF Before
  <1>2. PICK k \in Nat : BeforeAt(b, c, k)
    BY DEF Before
  <1>3. /\ \A j \in 1 .. Len(a) : a[j] \in Int
        /\ \A j \in 1 .. Len(b) : b[j] \in Int
        /\ \A j \in 1 .. Len(c) : c[j] \in Int
        /\ Len(a) \in Nat /\ Len(b) \in Nat /\ Len(c) \in Nat
    OBVIOUS
  <1>4. CASE i < k
    <2>1. i \in 1 .. Len(c) /\ i <= Len(a) + 1
      BY <1>1, <1>2, <1>3, <1>4 DEF BeforeAt
    <2>2. \A j \in 1 .. i - 1 : a[j] = c[j]
      BY <1>1, <1>2, <1>3, <1>4 DEF BeforeAt
    <2>3. i <= Len(a) => a[i] < c[i]
      BY <1>1, <1>2, <1>3, <1>4 DEF BeforeAt
    <2>4. BeforeAt(a, c, i)
      BY <2>1, <2>2, <2>3 DEF BeforeAt
    <2> QED BY <2>4 DEF Before
  <1>5. CASE i = k
    <2>1. i \in 1 .. Len(c) /\ i <= Len(a) + 1 /\ i <= Len(b)
      BY <1>1, <1>2, <1>3, <1>5 DEF BeforeAt
    <2>2. \A j \in 1 .. i - 1 : a[j] = c[j]
      BY <1>1, <1>2, <1>3, <1>5 DEF BeforeAt
    <2>3. i <= Len(a) => a[i] < c[i]
      <3>1. SUFFICES ASSUME i <= Len(a) PROVE a[i] < c[i]
        OBVIOUS
      <3>2. a[i] < b[i] /\ b[i] < c[i]
        BY <1>1, <1>2, <1>5, <2>1, <3>1 DEF BeforeAt
      <3>3. a[i] \in Int /\ b[i] \in Int /\ c[i] \in Int
        BY <1>3, <2>1, <3>1
      <3> QED BY <3>2, <3>3
    <2>4. BeforeAt(a, c, i)
      BY <2>1, <2>2, <2>3 DEF BeforeAt
    <2> QED BY <2>4 DEF Before
  <1>6. CASE k < i
    <2>1. k \in 1 .. Len(c) /\ k <= Len(a) + 1 /\ k <= Len(b) /\ k <= Len(a)
      <3>1. k \in 1 .. Len(c) /\ i \in 1 .. Len(b) /\ i <= Len(a) + 1
        BY <1>1, <1>2 DEF BeforeAt
      <3> QED BY ONLY <1>3, <1>6, <3>1
    <2>2. \A j \in 1 .. k - 1 : a[j] = c[j]
      BY <1>1, <1>2, <1>3, <1>6 DEF BeforeAt
    <2>3. a[k] = b[k] /\ b[k] < c[k]
      BY <1>1, <1>2, <1>3, <1>6, <2>1 DEF BeforeAt
    <2>4. BeforeAt(a, c, k)
      BY <2>1, <2>2, <2>3 DEF BeforeAt
    <2> QED BY <2>4 DEF Before
  <1> QED BY <1>4, <1>5, <1>6

\* AtMost is a total order.
LEMMA AtMostIs ==
  ASSUME NEW a \in Seq(Int), NEW b \in Seq(Int)
  PROVE  /\ AtMost(a, b) <=> Before(a, b) \/ a = b
         /\ AtMost(a, b) <=> Compare(b, a) >= 0
         /\ ~AtMost(a, b) <=> Compare(a, b) > 0
         /\ ~AtMost(a, b) <=> Compare(b, a) < 0
         /\ AtMost(a, b) \/ AtMost(b, a)
  BY CompareIs DEF AtMost

\* AtMost is transitive.
LEMMA AtMostTransitive ==
  ASSUME NEW a \in Seq(Int), NEW b \in Seq(Int), NEW c \in Seq(Int), AtMost(a, b), AtMost(b, c)
  PROVE  AtMost(a, c)
  <1>1. Before(a, b) \/ a = b
    BY AtMostIs
  <1>2. Before(b, c) \/ b = c
    BY AtMostIs
  <1>3. Before(a, c) \/ a = c
    BY <1>1, <1>2, BeforeTransitive
  <1> QED BY <1>3, AtMostIs

-----------------------------------------------------------------------------
(* Bounds that are cut.                                                     *)

\* truncateLargeMin keeps the beginning of a value.
LEMMA CutIs ==
  ASSUME NEW v \in Seq(Int)
  PROVE  /\ truncateLargeMin(v) \in Seq(Int)
         /\ Len(truncateLargeMin(v)) = IF SizeLimit <= Len(v) THEN SizeLimit ELSE Len(v)
         /\ Len(v) <= SizeLimit => truncateLargeMin(v) = v
         /\ \A j \in 1 .. Len(truncateLargeMin(v)) : truncateLargeMin(v)[j] = v[j]
  <1> DEFINE n == Min({SizeLimit, Len(v)})
             cut == SubSeq(v, 1, n)
  <1>1. SizeLimit \in Nat /\ Len(v) \in Nat
    BY IndexAssumption DEF IndexAssumption
  <1>2. n = IF SizeLimit <= Len(v) THEN SizeLimit ELSE Len(v)
    BY <1>1, MinOfTwo
  <1>3. truncateLargeMin(v) = cut
    BY DEF truncateLargeMin
  <1> HIDE DEF n
  <1>4. n \in Nat /\ n <= Len(v)
    BY <1>1, <1>2
  <1>5. cut \in Seq(Int) /\ Len(cut) = n /\ \A j \in 1 .. n : cut[j] = v[j]
    BY <1>4
  <1>6. Len(v) <= SizeLimit => cut = v
    BY <1>1, <1>2, <1>5, SeqEqual
  <1> HIDE DEF cut
  <1> QED BY <1>2, <1>3, <1>5, <1>6

\* A cut minimum is at most the value, ...
LEMMA CutBelow ==
  ASSUME NEW v \in Seq(Int)
  PROVE  AtMost(truncateLargeMin(v), v)
  <1> DEFINE cut == truncateLargeMin(v)
  <1>1. /\ SizeLimit \in Nat /\ Len(v) \in Nat
        /\ cut \in Seq(Int) /\ Len(cut) = IF SizeLimit <= Len(v) THEN SizeLimit ELSE Len(v)
        /\ Len(v) <= SizeLimit => cut = v
        /\ \A j \in 1 .. Len(cut) : cut[j] = v[j]
    BY CutIs, IndexAssumption DEF IndexAssumption
  <1> HIDE DEF cut
  <1>2. CASE Len(v) <= SizeLimit
    BY <1>1, <1>2, AtMostIs DEF cut
  <1>3. CASE Len(v) > SizeLimit
    <2>1. SizeLimit + 1 \in Nat /\ BeforeAt(cut, v, SizeLimit + 1)
      BY <1>1, <1>3 DEF BeforeAt
    <2>2. Before(cut, v)
      BY <2>1 DEF Before
    <2> QED BY <1>1, <2>2, AtMostIs DEF cut
  <1> QED BY <1>1, <1>2, <1>3

\* ... and cutting keeps the order of values.
LEMMA CutMonotone ==
  ASSUME NEW u \in Seq(Int), NEW v \in Seq(Int), AtMost(u, v)
  PROVE  AtMost(truncateLargeMin(u), truncateLargeMin(v))
  <1> DEFINE a == truncateLargeMin(u)
             b == truncateLargeMin(v)
  <1>1. /\ SizeLimit \in Nat /\ Len(u) \in Nat /\ Len(v) \in Nat
        /\ a \in Seq(Int) /\ Len(a) = IF SizeLimit <= Len(u) THEN SizeLimit ELSE Len(u)
        /\ b \in Seq(Int) /\ Len(b) = IF SizeLimit <= Len(v) THEN SizeLimit ELSE Len(v)
        /\ \A j \in 1 .. Len(a) : a[j] = u[j]
        /\ \A j \in 1 .. Len(b) : b[j] = v[j]
    <2>1. SizeLimit \in Nat /\ Len(u) \in Nat /\ Len(v) \in Nat
      BY IndexAssumption DEF IndexAssumption
    <2>2. /\ a \in Seq(Int) /\ Len(a) = IF SizeLimit <= Len(u) THEN SizeLimit ELSE Len(u)
          /\ \A j \in 1 .. Len(a) : a[j] = u[j]
      BY CutIs
    <2>3. /\ b \in Seq(Int) /\ Len(b) = IF SizeLimit <= Len(v) THEN SizeLimit ELSE Len(v)
          /\ \A j \in 1 .. Len(b) : b[j] = v[j]
      BY CutIs
    <2> HIDE DEF a, b
    <2> QED BY <2>1, <2>2, <2>3
  <1>2. CASE u = v
    <2>1. a = b
      BY <1>2
    <2> HIDE DEF a, b
    <2> QED BY <1>1, <2>1, AtMostIs DEF a, b
  <1> HIDE DEF a, b
  <1>3. CASE Before(u, v)
    <2>1. PICK i \in Nat : BeforeAt(u, v, i)
      BY <1>3 DEF Before
    <2>2. CASE i <= SizeLimit
      <3>1. i \in 1 .. Len(b) /\ i <= Len(a) + 1 /\ (i <= Len(a) => i <= Len(u))
        BY <1>1, <2>1, <2>2 DEF BeforeAt
      <3>2. \A j \in 1 .. i - 1 : a[j] = b[j]
        BY <1>1, <2>1, <3>1 DEF BeforeAt
      <3>3. i <= Len(a) => a[i] < b[i]
        BY <1>1, <2>1, <3>1 DEF BeforeAt
      <3>4. Before(a, b)
        BY <3>1, <3>2, <3>3 DEF BeforeAt, Before
      <3> QED BY <1>1, <3>4, AtMostIs DEF a, b
    <2>3. CASE i > SizeLimit
      <3>1. Len(a) = SizeLimit /\ Len(b) = SizeLimit
        BY <1>1, <2>1, <2>3 DEF BeforeAt
      <3>2. \A j \in 1 .. SizeLimit : a[j] = b[j]
        <4> TAKE j \in 1 .. SizeLimit
        <4>1. j \in 1 .. Len(a) /\ j \in 1 .. Len(b)
          BY ONLY <3>1, j \in 1 .. SizeLimit
        <4>2. a[j] = u[j] /\ b[j] = v[j]
          BY ONLY <1>1, <4>1
        <4>3. j \in 1 .. i - 1
          BY <1>1, <2>3
        <4>4. u[j] = v[j]
          BY <2>1, <4>3 DEF BeforeAt
        <4> QED BY <4>2, <4>4
      <3>3. a = b
        BY <1>1, <3>1, <3>2, SeqEqual
      <3> QED BY <1>1, <3>3, AtMostIs DEF a, b
    <2> QED BY <1>1, <2>1, <2>2, <2>3
  <1> QED BY <1>2, <1>3, AtMostIs DEF a, b

\* incrementByteArray makes a value larger, unless all its bytes are the largest.
LEMMA IncrementIs ==
  ASSUME NEW v \in Seq(0 .. MaxByte)
  PROVE  /\ incrementByteArray(v) \in Seq(Int) /\ v \in Seq(Int)
         /\ (\A i \in 1 .. Len(v) : v[i] = MaxByte) => incrementByteArray(v) = v
         /\ ~(\A i \in 1 .. Len(v) : v[i] = MaxByte) =>
              \E k \in 1 .. Len(v) : /\ Len(incrementByteArray(v)) = Len(v)
                                     /\ \A i \in 1 .. k - 1 : incrementByteArray(v)[i] = v[i]
                                     /\ incrementByteArray(v)[k] = v[k] + 1
  <1> DEFINE below == {i \in 1..Len(v) : v[i] # MaxByte}
             k == Max(below)
             more == [i \in 1..Len(v) |-> IF i < k THEN v[i] ELSE IF i = k THEN v[i] + 1 ELSE 0]
  <1>1. MaxByte \in Nat /\ Len(v) \in Nat /\ v \in Seq(Int) /\ \A i \in 1 .. Len(v) : v[i] \in Int
    BY IndexAssumption DEF IndexAssumption
  <1>2. incrementByteArray(v) = IF below = {} THEN v ELSE more
    BY DEF incrementByteArray
  <1>3. below = {} <=> \A i \in 1 .. Len(v) : v[i] = MaxByte
    OBVIOUS
  <1>4. CASE below = {}
    <2> HIDE DEF below, more
    <2> QED BY <1>1, <1>2, <1>3, <1>4
  <1>5. CASE below # {}
    <2>1. below \in SUBSET Nat /\ \A y \in below : y <= Len(v)
      BY <1>1
    <2>2. k \in below
      BY <1>1, <1>5, <2>1, MaxIs
    <2>3. k \in 1 .. Len(v)
      BY <2>2
    <2> HIDE DEF k
    <2>4. more \in Seq(Int) /\ Len(more) = Len(v)
      BY <1>1, <2>3
    <2>5. more[k] = v[k] + 1 /\ \A i \in 1 .. k - 1 : more[i] = v[i]
      BY <1>1, <2>3
    <2> HIDE DEF below, more
    <2> QED BY <1>1, <1>2, <1>3, <1>5, <2>3, <2>4, <2>5
  <1> QED BY <1>4, <1>5

\* A cut maximum covers the value, unless it is cut to the largest bytes.
LEMMA CutCovers ==
  ASSUME NEW v \in Seq(0 .. MaxByte)
  PROVE  /\ truncateLargeMax(v) \in Seq(Int)
         /\ AtMost(truncateLargeMin(v), truncateLargeMax(v))
         /\ \/ AtMost(v, truncateLargeMax(v))
            \/ Len(v) > SizeLimit /\ \A i \in 1 .. SizeLimit : v[i] = MaxByte
  <1> DEFINE cut == truncateLargeMin(v)
             next == incrementByteArray(cut)
  <1>1. SizeLimit \in Nat /\ Len(v) \in Nat /\ v \in Seq(Int) /\ MaxByte \in Nat
    BY IndexAssumption DEF IndexAssumption
  <1>2. /\ cut \in Seq(Int) /\ Len(cut) = IF SizeLimit <= Len(v) THEN SizeLimit ELSE Len(v)
        /\ \A j \in 1 .. Len(cut) : cut[j] = v[j]
    BY <1>1, CutIs
  <1>3. truncateLargeMax(v) = IF SizeLimit > 0 /\ Len(v) > SizeLimit THEN next ELSE v
    BY DEF truncateLargeMax
  <1>4. AtMost(cut, v) /\ AtMost(v, v)
    <2>1. AtMost(cut, v)
      BY <1>1, CutBelow
    <2> HIDE DEF cut
    <2> QED BY <1>1, <2>1, AtMostIs
  <1> HIDE DEF cut
  <1>5. CASE ~(SizeLimit > 0 /\ Len(v) > SizeLimit)
    BY <1>1, <1>3, <1>4, <1>5 DEF cut
  <1>6. CASE SizeLimit > 0 /\ Len(v) > SizeLimit
    <2>1. Len(cut) = SizeLimit
      BY <1>1, <1>2, <1>6
    <2>2. cut \in Seq(0 .. MaxByte)
      <3>1. \A j \in 1 .. Len(cut) : cut[j] \in 0 .. MaxByte
        <4> TAKE j \in 1 .. Len(cut)
        <4>1. cut[j] = v[j] /\ j \in 1 .. Len(v)
          BY <1>1, <1>2, <1>6
        <4> DEFINE Byte == 0 .. MaxByte
        <4>2. v \in Seq(Byte)
          OBVIOUS
        <4> HIDE DEF Byte
        <4>3. v[j] \in Byte
          BY <4>1, <4>2
        <4> QED BY <4>1, <4>3 DEF Byte
      <3> QED BY <1>2, <3>1
    <2>3. /\ next \in Seq(Int)
          /\ (\A i \in 1 .. Len(cut) : cut[i] = MaxByte) => next = cut
          /\ ~(\A i \in 1 .. Len(cut) : cut[i] = MaxByte) =>
                \E k \in 1 .. Len(cut) : /\ Len(next) = Len(cut)
                                         /\ \A i \in 1 .. k - 1 : next[i] = cut[i]
                                         /\ next[k] = cut[k] + 1
      BY <2>2, IncrementIs
    <2> HIDE DEF next
    <2>4. CASE \A i \in 1 .. Len(cut) : cut[i] = MaxByte
      <3>1. next = cut
        BY <2>3, <2>4
      <3>2. \A i \in 1 .. SizeLimit : v[i] = MaxByte
        BY <1>2, <2>1, <2>4
      <3>3. AtMost(cut, cut)
        BY <1>2, AtMostIs
      <3> QED BY <1>2, <1>3, <1>6, <3>1, <3>2, <3>3 DEF cut
    <2>5. CASE ~(\A i \in 1 .. Len(cut) : cut[i] = MaxByte)
      <3>1. PICK k \in 1 .. Len(cut) : /\ Len(next) = Len(cut)
                                       /\ \A i \in 1 .. k - 1 : next[i] = cut[i]
                                       /\ next[k] = cut[k] + 1
        BY <2>3, <2>5
      <3>2. k \in Nat /\ k <= Len(v) /\ cut[k] = v[k] /\ v[k] \in Int
            /\ \A i \in 1 .. k - 1 : cut[i] = v[i]
        BY <1>1, <1>2, <1>6, <2>1
      <3>3. BeforeAt(cut, next, k) /\ BeforeAt(v, next, k)
        BY <1>1, <2>1, <3>1, <3>2 DEF BeforeAt
      <3>4. Before(cut, next) /\ Before(v, next)
        BY <3>2, <3>3 DEF Before
      <3>5. AtMost(cut, next) /\ AtMost(v, next)
        BY <1>1, <1>2, <2>3, <3>4, AtMostIs
      <3> QED BY <1>3, <1>6, <2>3, <3>5 DEF cut
    <2> QED BY <2>4, <2>5
  <1> QED BY <1>5, <1>6

-----------------------------------------------------------------------------
(* The search.                                                              *)

\* The search goes on behind page p.
Behind(index, v, p) == ~Below(index, v, p) /\ Above(index, v, p)

\* The search goes on behind the first k of n pages, and behind no other.
BehindFirst(index, v, n, k) == \A p \in 1 .. n : Behind(index, v, p) <=> p <= k

\* One round of the bisection, with the rest of the search in s.
Round(index, v, s, range) ==
    LET cur == range[1]
        top == range[2]
        p == (top - cur) \div 2 + cur
    IN  IF cur >= top THEN cur
        ELSE IF ~Below(index, v, p) /\ Above(index, v, p) THEN s[<<p + 1, top>>] ELSE s[<<cur, p>>]
Bisects(index, v, D, s) == s = [range \in D \X D |-> Round(index, v, s, range)]

\* Where the search goes on behind the first k pages only, it ends at the page
\* after them, if it may.
Ending(k, cur, top) ==
    IF cur >= top \/ k < cur THEN cur ELSE IF k + 1 <= top THEN k + 1 ELSE top

At(s, x, y) == s[<<x, y>>]
RoundAt(index, v, s, x, y) == Round(index, v, s, <<x, y>>)
EndsInside(s, n, k, cur, top) ==
    \A x, y \in 1 .. n + 1 : y - x < top - cur => At(s, x, y) = Ending(k, x, y)

\* When the shorter ranges end there, a round does.
LEMMA RoundEnds ==
  ASSUME NEW index, NEW v, NEW n \in Nat, NEW k \in 0 .. n,
         BehindFirst(index, v, n, k),
         NEW cur \in 1 .. n + 1, NEW top \in 1 .. n + 1, NEW s,
         EndsInside(s, n, k, cur, top)
  PROVE  RoundAt(index, v, s, cur, top) = Ending(k, cur, top)
  <1> DEFINE p == (top - cur) \div 2 + cur
  <1>1. CASE cur >= top
    BY <1>1 DEF RoundAt, Round, Ending
  <1>2. CASE cur < top
    <2>1. p \in cur .. top - 1
      BY <1>2
    <2>2. RoundAt(index, v, s, cur, top) = IF Behind(index, v, p) THEN At(s, p + 1, top) ELSE At(s, cur, p)
      BY <1>2 DEF RoundAt, Round, Behind, At
    <2> HIDE DEF p
    <2>3. p \in 1 .. n /\ p \in 1 .. n + 1 /\ p + 1 \in 1 .. n + 1
      BY <2>1
    <2>4. Behind(index, v, p) <=> p <= k
      BY <2>3 DEF BehindFirst
    <2>5. CASE p <= k
      BY <1>2, <2>1, <2>2, <2>3, <2>4, <2>5 DEF EndsInside, Ending
    <2>6. CASE p > k
      BY <1>2, <2>1, <2>2, <2>3, <2>4, <2>6 DEF EndsInside, Ending
    <2> QED BY <2>3, <2>5, <2>6
  <1> QED BY <1>1, <1>2

\* The recursion has a solution, and each solution ends there.
LEMMA BisectionEnds ==
  ASSUME NEW index, NEW v, NEW n \in Nat, NEW k \in 0 .. n,
         BehindFirst(index, v, n, k)
  PROVE  /\ \E s : Bisects(index, v, 1 .. n + 1, s)
         /\ \A s : Bisects(index, v, 1 .. n + 1, s) => At(s, 1, n + 1) = k + 1
  <1> DEFINE D == 1 .. n + 1
             F == [range \in D \X D |-> Ending(k, range[1], range[2])]
  <1>1. \A x, y \in D : F[<<x, y>>] = Ending(k, x, y)
    OBVIOUS
  <1>2. \A range \in D \X D : Round(index, v, F, range) = Ending(k, range[1], range[2])
    <2> TAKE range \in D \X D
    <2>1. range = <<range[1], range[2]>> /\ range[1] \in 1 .. n + 1 /\ range[2] \in 1 .. n + 1
      OBVIOUS
    <2> HIDE DEF F
    <2>2. EndsInside(F, n, k, range[1], range[2])
      BY <1>1 DEF EndsInside, At
    <2>3. RoundAt(index, v, F, range[1], range[2]) = Ending(k, range[1], range[2])
      BY <2>1, <2>2, RoundEnds
    <2> QED BY <2>1, <2>3 DEF RoundAt
  <1>3. Bisects(index, v, D, F)
    <2> DEFINE G == [range \in D \X D |-> Round(index, v, F, range)]
    <2>1. F = G
      BY <1>2
    <2> HIDE DEF F
    <2> QED BY <2>1 DEF Bisects
  <1>4. ASSUME NEW s, Bisects(index, v, D, s) PROVE At(s, 1, n + 1) = k + 1
    <2>1. \A x, y \in D : At(s, x, y) = RoundAt(index, v, s, x, y)
      <3>1. s = [range \in D \X D |-> Round(index, v, s, range)]
        BY <1>4 DEF Bisects
      <3> DEFINE R(range) == Round(index, v, s, range)
      <3> HIDE DEF R
      <3>2. s = [range \in D \X D |-> R(range)]
        BY <3>1 DEF R
      <3>3. \A x, y \in D : s[<<x, y>>] = R(<<x, y>>)
        BY <3>2
      <3> QED BY <3>3 DEF R, At, RoundAt
    <2> DEFINE Stage(d) == \A x, y \in D : y - x <= d => At(s, x, y) = Ending(k, x, y)
               Stages == {d \in Nat : Stage(d)}
    <2>2. Stage(0)
      <3> SUFFICES ASSUME NEW x \in D, NEW y \in D, y - x <= 0 PROVE At(s, x, y) = Ending(k, x, y)
        OBVIOUS
      <3>1. x >= y
        OBVIOUS
      <3> QED BY <2>1, <3>1 DEF RoundAt, Round, Ending
    <2>3. ASSUME NEW d \in Nat, Stage(d) PROVE Stage(d + 1)
      <3> SUFFICES ASSUME NEW x \in D, NEW y \in D, y - x <= d + 1 PROVE At(s, x, y) = Ending(k, x, y)
        OBVIOUS
      <3>1. EndsInside(s, n, k, x, y)
        BY <2>3 DEF EndsInside
      <3>2. RoundAt(index, v, s, x, y) = Ending(k, x, y)
        BY <3>1, RoundEnds
      <3> QED BY <2>1, <3>2
    <2> HIDE DEF Stage
    <2>4. Stages \in SUBSET Nat /\ 0 \in Stages /\ \A d \in Stages : d + 1 \in Stages
      BY <2>2, <2>3
    <2> HIDE DEF Stages
    <2>5. Stage(n)
      BY <2>4, SetInduction DEF Stages
    <2>6. At(s, 1, n + 1) = Ending(k, 1, n + 1)
      BY <2>5 DEF Stage
    <2> QED BY <2>6 DEF Ending
  <1> QED BY <1>3, <1>4

\* What binarySearch finds where the pages to leave behind come first.
LEMMA BinarySearchIs ==
  ASSUME NEW index, NEW v, NEW n \in Nat, NumPages(index) = n, NEW k \in 0 .. n,
         BehindFirst(index, v, n, k)
  PROVE  binarySearch(index, v) =
           IF k + 1 <= n /\ (Below(index, v, k + 1) \/ Above(index, v, k + 1)) THEN n + 1 ELSE k + 1
  <1> DEFINE D == 1 .. n + 1
             s == CHOOSE t : t = [range \in D \X D |->
                                    LET cur == range[1]
                                        top == range[2]
                                        p == (top - cur) \div 2 + cur
                                    IN  IF cur >= top THEN cur
                                        ELSE IF ~Below(index, v, p) /\ Above(index, v, p)
                                             THEN t[<<p + 1, top>>] ELSE t[<<cur, p>>]]
  <1>1. Bisects(index, v, D, s)
    <2>1. s = CHOOSE t : Bisects(index, v, D, t)
      BY DEF Bisects, Round
    <2>2. \E t : Bisects(index, v, D, t)
      BY BisectionEnds
    <2> HIDE DEF s
    <2> QED BY <2>1, <2>2
  <1> DEFINE found == At(s, 1, n + 1)
  <1>2. binarySearch(index, v) =
          IF found <= n /\ (Below(index, v, found) \/ Above(index, v, found)) THEN n + 1 ELSE found
    BY DEF binarySearch, At
  <1> HIDE DEF s
  <1>3. found = k + 1
    BY <1>1, BisectionEnds
  <1> HIDE DEF found
  <1> QED BY <1>2, <1>3

\* The pages a bisection leaves behind come first if each is behind the pages
\* before it.
LEMMA PrefixEnds ==
  ASSUME NEW index, NEW v, NEW n \in Nat,
         \A p, q \in 1 .. n : p <= q /\ Behind(index, v, q) => Behind(index, v, p)
  PROVE  \E k \in 0 .. n : BehindFirst(index, v, n, k)
  <1> DEFINE rest == {p \in 1 .. n : ~Behind(index, v, p)} \cup {n + 1}
  <1>1. rest \in SUBSET Nat /\ rest # {}
    OBVIOUS
  <1>2. PICK least \in rest : \A y \in rest : least <= y
    BY <1>1, LeastElement
  <1>3. least - 1 \in 0 .. n /\ (least = n + 1 \/ (least \in 1 .. n /\ ~Behind(index, v, least)))
    BY <1>2
  <1>4. \A p \in 1 .. n : Behind(index, v, p) <=> p <= least - 1
    <2> TAKE p \in 1 .. n
    <2>1. ~Behind(index, v, p) => least <= p
      BY <1>2
    <2> HIDE DEF rest
    <2>2. p <= least - 1 => ~(least <= p)
      BY <1>3
    <2>3. Behind(index, v, p) => ~(least <= p)
      BY <1>3
    <2> QED BY <1>3, <2>1, <2>2, <2>3
  <1> QED BY <1>3, <1>4 DEF BehindFirst

\* linearSearch finds the first page that may hold the value.
LEMMA LinearSearchIs ==
  ASSUME NEW index, NEW v, NEW n \in Nat, NumPages(index) = n
  PROVE  /\ linearSearch(index, v) \in 1 .. n + 1
         /\ \A p \in 1 .. linearSearch(index, v) - 1 : Below(index, v, p) \/ Above(index, v, p)
         /\ linearSearch(index, v) <= n =>
              ~Below(index, v, linearSearch(index, v)) /\ ~Above(index, v, linearSearch(index, v))
  <1> DEFINE may == {p \in 1 .. n : ~Below(index, v, p) /\ ~Above(index, v, p)} \cup {n + 1}
             found == Min(may)
  <1>1. linearSearch(index, v) = found
    BY DEF linearSearch
  <1>2. may \in SUBSET Nat /\ may # {}
    OBVIOUS
  <1>3. found \in may /\ \A y \in may : found <= y
    BY <1>2, MinIs
  <1> HIDE DEF found
  <1>4. found \in 1 .. n + 1 /\ (found <= n => ~Below(index, v, found) /\ ~Above(index, v, found))
    BY <1>3
  <1>5. \A p \in 1 .. found - 1 : Below(index, v, p) \/ Above(index, v, p)
    <2> TAKE p \in 1 .. found - 1
    <2>1. p \in 1 .. n /\ ~(found <= p)
      BY <1>4
    <2> QED BY <1>3, <2>1
  <1> QED BY <1>1, <1>4, <1>5


-----------------------------------------------------------------------------
(* Sums over sequences.                                                     *)

\* The sums of w over sets of indexes, the last index added last.
Climbs(w, n, s) ==
    s = [t \in SUBSET (1 .. n) |-> IF t = {} THEN 0 ELSE s[t \ {Max(t)}] + w[Max(t)]]
Total(w, n) == (CHOOSE s : Climbs(w, n, s))[1 .. n]

Weighs(w, n) == \A i \in 1 .. n : w[i] \in Nat

\* The last index of a set of indexes.
LEMMA MaxWithin ==
  ASSUME NEW n \in Nat, NEW t \in SUBSET (1 .. n), t # {}
  PROVE  Max(t) \in t /\ Max(t) \in 1 .. n /\ (n \in t => Max(t) = n)
  <1>1. t \in SUBSET Nat /\ \A y \in t : y <= n
    OBVIOUS
  <1>2. Max(t) \in t /\ \A y \in t : Max(t) >= y
    BY <1>1, MaxIs
  <1> DEFINE m == Max(t)
  <1> HIDE DEF m
  <1>3. m \in t /\ \A y \in t : m >= y
    BY <1>2 DEF m
  <1>4. m \in 1 .. n
    BY <1>3
  <1>5. n \in t => m = n
    BY <1>3, <1>4
  <1> QED BY <1>3, <1>4, <1>5 DEF m

\* There are such sums.
LEMMA ClimbsExist ==
  ASSUME NEW n \in Nat, NEW w, Weighs(w, n)
  PROVE  \E s : Climbs(w, n, s)
  <1> DEFINE Add(t, s) == IF t = {} THEN 0 ELSE s[t \ {Max(t)}] + w[Max(t)]
             Stage(k) == k <= n => \E s \in [SUBSET (1 .. k) -> Nat] : \A t \in SUBSET (1 .. k) : s[t] = Add(t, s)
             Stages == {k \in Nat : Stage(k)}
  <1>1. Stage(0)
    <2>1. [t \in SUBSET (1 .. 0) |-> 0] \in [SUBSET (1 .. 0) -> Nat]
      OBVIOUS
    <2>2. \A t \in SUBSET (1 .. 0) : t = {}
      OBVIOUS
    <2> QED BY <2>1, <2>2
  <1>2. ASSUME NEW k \in Nat, Stage(k) PROVE Stage(k + 1)
    <2> SUFFICES ASSUME k + 1 <= n
                 PROVE  \E s \in [SUBSET (1 .. k + 1) -> Nat] : \A t \in SUBSET (1 .. k + 1) : s[t] = Add(t, s)
      OBVIOUS
    <2>1. PICK s \in [SUBSET (1 .. k) -> Nat] : \A t \in SUBSET (1 .. k) : s[t] = Add(t, s)
      <3>1. k <= n
        OBVIOUS
      <3> HIDE DEF Add
      <3> QED BY <1>2, <3>1
    <2> DEFINE j == k + 1
               e == [t \in SUBSET (1 .. j) |-> IF j \in t THEN s[t \ {j}] + w[j] ELSE s[t]]
    <2>2. j \in 1 .. n /\ w[j] \in Nat /\ j \in Nat
      BY DEF Weighs
    <2>3. ASSUME NEW t \in SUBSET (1 .. j)
          PROVE  /\ j \in t => t \ {j} \in SUBSET (1 .. k)
                 /\ j \notin t => t \in SUBSET (1 .. k)
      OBVIOUS
    <2>4. \A t \in SUBSET (1 .. k) : t \in SUBSET (1 .. j) /\ j \notin t
      OBVIOUS
    <2> HIDE DEF j
    <2>5. e \in [SUBSET (1 .. j) -> Nat]
      BY <2>2, <2>3
    <2>6. \A t \in SUBSET (1 .. k) : e[t] = s[t]
      BY <2>4
    <2>7. ASSUME NEW t \in SUBSET (1 .. j) PROVE e[t] = Add(t, e)
      <3>1. CASE j \in t
        BY <2>2, <2>3, <2>6, <3>1, MaxWithin
      <3>2. CASE j \notin t
        <4>1. t \in SUBSET (1 .. k) /\ e[t] = s[t] /\ s[t] = Add(t, s)
          BY <2>1, <2>3, <3>2
        <4>2. t \ {Max(t)} \in SUBSET (1 .. k)
          BY <4>1
        <4>3. e[t \ {Max(t)}] = s[t \ {Max(t)}]
          BY <2>6, <4>2
        <4> HIDE DEF e
        <4> QED BY <4>1, <4>3
      <3> QED BY <3>1, <3>2
    <2> HIDE DEF e, Add
    <2> QED BY <2>5, <2>7 DEF j
  <1> HIDE DEF Stage
  <1>3. Stages \in SUBSET Nat /\ 0 \in Stages /\ \A k \in Stages : k + 1 \in Stages
    BY <1>1, <1>2
  <1> HIDE DEF Stages
  <1>4. Stage(n)
    BY <1>3, SetInduction DEF Stages
  <1>5. PICK s \in [SUBSET (1 .. n) -> Nat] : \A t \in SUBSET (1 .. n) : s[t] = Add(t, s)
    <2>1. n <= n
      OBVIOUS
    <2> HIDE DEF Add
    <2> QED BY <1>4, <2>1 DEF Stage
  <1>6. Climbs(w, n, s)
    <2> DEFINE e == [t \in SUBSET (1 .. n) |-> Add(t, s)]
    <2> HIDE DEF Add
    <2>1. s = e
      BY <1>5
    <2> QED BY <2>1 DEF Climbs, Add
  <1> QED BY <1>6

\* Any two of them agree on what they share, ...
LEMMA ClimbsIs ==
  ASSUME NEW n \in Nat, NEW w, Weighs(w, n), NEW s, Climbs(w, n, s),
         NEW m \in Nat, NEW u, NEW e, Climbs(u, m, e),
         m <= n, \A i \in 1 .. m : u[i] = w[i]
  PROVE  e[1 .. m] = s[1 .. m] /\ s[1 .. m] \in Nat
  <1> DEFINE Stage(k) == k <= m => e[1 .. k] = s[1 .. k] /\ s[1 .. k] \in Nat
             Stages == {k \in Nat : Stage(k)}
  <1>0. /\ \A t \in SUBSET (1 .. n) : s[t] = IF t = {} THEN 0 ELSE s[t \ {Max(t)}] + w[Max(t)]
        /\ \A t \in SUBSET (1 .. m) : e[t] = IF t = {} THEN 0 ELSE e[t \ {Max(t)}] + u[Max(t)]
    BY DEF Climbs
  <1>1. Stage(0)
    <2> DEFINE none == 1 .. 0
    <2>1. none \in SUBSET (1 .. n) /\ none \in SUBSET (1 .. m) /\ none = {}
      OBVIOUS
    <2> HIDE DEF none
    <2>2. s[none] = 0 /\ e[none] = 0
      BY <1>0, <2>1
    <2> QED BY <2>2 DEF none
  <1>2. ASSUME NEW k \in Nat, Stage(k) PROVE Stage(k + 1)
    <2> DEFINE j == k + 1
    <2> SUFFICES ASSUME j <= m PROVE e[1 .. j] = s[1 .. j] /\ s[1 .. j] \in Nat
      OBVIOUS
    <2>1. /\ 1 .. j \in SUBSET (1 .. n) /\ 1 .. j \in SUBSET (1 .. m) /\ j \in 1 .. j /\ 1 .. j # {}
          /\ (1 .. j) \ {j} = 1 .. k /\ j \in Nat /\ w[j] \in Nat /\ u[j] = w[j]
          /\ 1 .. j \in SUBSET (1 .. j)
      BY DEF Weighs
    <2>2. e[1 .. k] = s[1 .. k] /\ s[1 .. k] \in Nat
      BY <1>2
    <2> HIDE DEF j
    <2>3. Max(1 .. j) = j
      BY <2>1, MaxWithin
    <2> DEFINE upto == 1 .. j
               below == 1 .. k
    <2>4. /\ upto \in SUBSET (1 .. n) /\ upto \in SUBSET (1 .. m) /\ upto # {}
          /\ upto \ {j} = below /\ Max(upto) = j
      BY <2>1, <2>3
    <2>5. e[below] = s[below] /\ s[below] \in Nat
      BY <2>2
    <2> HIDE DEF upto, below
    <2>6. s[upto] = s[below] + w[j] /\ e[upto] = e[below] + u[j]
      BY <1>0, <2>4
    <2>7. e[upto] = s[upto] /\ s[upto] \in Nat
      BY <2>1, <2>5, <2>6
    <2> QED BY <2>7 DEF upto
  <1> HIDE DEF Stage
  <1>3. Stages \in SUBSET Nat /\ 0 \in Stages /\ \A k \in Stages : k + 1 \in Stages
    BY <1>1, <1>2
  <1> HIDE DEF Stages
  <1>4. Stage(m)
    BY <1>3, SetInduction DEF Stages
  <1> QED BY <1>4 DEF Stage

\* ... so the total is that of each of them, ...
LEMMA ClimbsTotal ==
  ASSUME NEW n \in Nat, NEW w, Weighs(w, n), NEW s, Climbs(w, n, s)
  PROVE  s[1 .. n] = Total(w, n)
  <1> DEFINE e == CHOOSE t : Climbs(w, n, t)
  <1>1. Climbs(w, n, e)
    OBVIOUS
  <1>2. Total(w, n) = e[1 .. n]
    BY DEF Total
  <1> HIDE DEF e
  <1>3. e[1 .. n] = s[1 .. n]
    BY <1>1, ClimbsIs
  <1> QED BY <1>2, <1>3

\* ... depends on the weights only, ...
LEMMA TotalAgrees ==
  ASSUME NEW n \in Nat, NEW w, Weighs(w, n), NEW u, \A i \in 1 .. n : u[i] = w[i]
  PROVE  Total(u, n) = Total(w, n)
  <1>1. Weighs(u, n)
    BY DEF Weighs
  <1>2. PICK s : Climbs(w, n, s)
    BY ClimbsExist
  <1>3. PICK e : Climbs(u, n, e)
    BY <1>1, ClimbsExist
  <1>4. e[1 .. n] = s[1 .. n]
    BY <1>2, <1>3, ClimbsIs
  <1> QED BY <1>1, <1>2, <1>3, <1>4, ClimbsTotal

\* ... and grows with each of them.
LEMMA TotalIs ==
  ASSUME NEW n \in Nat, NEW w, Weighs(w, n)
  PROVE  /\ Total(w, n) \in Nat
         /\ n = 0 => Total(w, n) = 0
         /\ n > 0 => Total(w, n - 1) \in Nat /\ Total(w, n) = Total(w, n - 1) + w[n]
  <1>1. PICK s : Climbs(w, n, s)
    BY ClimbsExist
  <1>2. s[1 .. n] = Total(w, n) /\ s[1 .. n] \in Nat
    <2>1. s[1 .. n] = Total(w, n)
      BY <1>1, ClimbsTotal
    <2>2. n <= n /\ \A i \in 1 .. n : w[i] = w[i]
      OBVIOUS
    <2>3. s[1 .. n] \in Nat
      BY <1>1, <2>2, ClimbsIs
    <2> QED BY <2>1, <2>3
  <1>0. \A t \in SUBSET (1 .. n) : s[t] = IF t = {} THEN 0 ELSE s[t \ {Max(t)}] + w[Max(t)]
    BY <1>1 DEF Climbs
  <1>3. CASE n = 0
    BY <1>0, <1>2, <1>3
  <1>4. CASE n > 0
    <2> DEFINE k == n - 1
    <2>1. k \in Nat /\ k <= n /\ Weighs(w, k)
      BY <1>4 DEF Weighs
    <2>2. PICK e : Climbs(w, k, e)
      BY <2>1, ClimbsExist
    <2>3. e[1 .. k] = Total(w, k)
      BY <2>1, <2>2, ClimbsTotal
    <2>4. e[1 .. k] = s[1 .. k] /\ s[1 .. k] \in Nat
      BY <1>1, <2>1, <2>2, ClimbsIs
    <2>5. Max(1 .. n) = n
      <3>1. 1 .. n \in SUBSET (1 .. n) /\ n \in 1 .. n /\ 1 .. n # {}
        BY <1>4
      <3> QED BY <3>1, MaxWithin
    <2>6. 1 .. n \in SUBSET (1 .. n) /\ 1 .. n # {} /\ (1 .. n) \ {n} = 1 .. k
      <3>1. n \in 1 .. n
        BY <1>4
      <3>2. \A i : i \in (1 .. n) \ {n} <=> i \in 1 .. k
        BY <1>4
      <3>3. (1 .. n) \ {n} = 1 .. k
        BY <3>2
      <3> QED BY <3>1, <3>3
    <2> DEFINE upto == 1 .. n
               below == 1 .. k
    <2>7. upto \in SUBSET (1 .. n) /\ upto # {} /\ upto \ {n} = below /\ Max(upto) = n
      BY <2>5, <2>6
    <2> HIDE DEF upto, below
    <2>8. s[upto] = s[below] + w[n]
      BY <1>0, <2>7
    <2>9. s[1 .. n] = s[1 .. k] + w[n]
      BY <2>8 DEF upto, below
    <2> HIDE DEF k
    <2>10. Total(w, n) = Total(w, k) + w[n] /\ Total(w, k) \in Nat
      BY <1>2, <2>3, <2>4, <2>9
    <2> QED BY <1>2, <1>4, <2>10 DEF k
  <1> QED BY <1>3, <1>4

\* The rows of pages.
ValuesIn(ps) == [i \in 1 .. Len(ps) |-> ps[i].numValues]

\* RowsOf adds the rows of the pages.
LEMMA RowsOfIs ==
  ASSUME NEW ps, Len(ps) \in Nat, DOMAIN ps = 1 .. Len(ps), Weighs(ValuesIn(ps), Len(ps))
  PROVE  RowsOf(ps) = Total(ValuesIn(ps), Len(ps))
  <1> DEFINE size == Len(ps)
             w == ValuesIn(ps)
             folds(s) == [t \in SUBSET (DOMAIN ps) |->
                            IF t = {} THEN 0 ELSE s[t \ {Max(t)}] + ps[Max(t)].numValues]
  <1>1. ASSUME NEW s PROVE Climbs(w, size, s) <=> s = folds(s)
    <2> DEFINE climbs == [t \in SUBSET (1 .. size) |-> IF t = {} THEN 0 ELSE s[t \ {Max(t)}] + w[Max(t)]]
    <2>1. ASSUME NEW t \in SUBSET (1 .. size), t # {} PROVE w[Max(t)] = ps[Max(t)].numValues
      BY <2>1, MaxWithin DEF ValuesIn
    <2> HIDE DEF w, size
    <2>2. \A t \in SUBSET (1 .. size) :
             (IF t = {} THEN 0 ELSE s[t \ {Max(t)}] + w[Max(t)])
               = IF t = {} THEN 0 ELSE s[t \ {Max(t)}] + ps[Max(t)].numValues
      BY <2>1
    <2>3. climbs = folds(s)
      BY <2>2 DEF size
    <2> QED BY <2>3 DEF Climbs, size
  <1> DEFINE s == CHOOSE s : s = folds(s)
  <1>2. s = folds(s)
    <2>1. \E e : Climbs(w, size, e)
      BY ClimbsExist
    <2>2. \E e : e = folds(e)
      BY <1>1, <2>1
    <2> HIDE DEF folds
    <2> QED BY <2>2
  <1>3. RowsOf(ps) = s[DOMAIN ps]
    BY DEF RowsOf, FoldLeft, MapThenFoldSet
  <1> HIDE DEF s, folds, w
  <1>4. Climbs(w, size, s)
    BY <1>1, <1>2
  <1>5. s[1 .. size] = Total(w, size)
    BY <1>4, ClimbsTotal DEF w
  <1> QED BY <1>3, <1>5 DEF w

\* The pages of chunks.
PagesIn(cs) == [i \in 1 .. Len(cs) |-> NumPages(cs[i].index)]

\* offsets adds the pages of the chunks.
LEMMA PagesSum ==
  ASSUME NEW cs, Len(cs) \in Nat, DOMAIN cs = 1 .. Len(cs), Weighs(PagesIn(cs), Len(cs))
  PROVE  FoldLeft(LAMBDA n, c : n + NumPages(c.index), 0, cs) = Total(PagesIn(cs), Len(cs))
  <1> DEFINE size == Len(cs)
             w == PagesIn(cs)
             folds(s) == [t \in SUBSET (DOMAIN cs) |->
                            IF t = {} THEN 0 ELSE s[t \ {Max(t)}] + NumPages(cs[Max(t)].index)]
  <1>1. ASSUME NEW s PROVE Climbs(w, size, s) <=> s = folds(s)
    <2> DEFINE climbs == [t \in SUBSET (1 .. size) |-> IF t = {} THEN 0 ELSE s[t \ {Max(t)}] + w[Max(t)]]
    <2>1. ASSUME NEW t \in SUBSET (1 .. size), t # {} PROVE w[Max(t)] = NumPages(cs[Max(t)].index)
      BY <2>1, MaxWithin DEF PagesIn
    <2> HIDE DEF w, size
    <2>2. \A t \in SUBSET (1 .. size) :
             (IF t = {} THEN 0 ELSE s[t \ {Max(t)}] + w[Max(t)])
               = IF t = {} THEN 0 ELSE s[t \ {Max(t)}] + NumPages(cs[Max(t)].index)
      BY <2>1
    <2>3. climbs = folds(s)
      BY <2>2 DEF size
    <2> QED BY <2>3 DEF Climbs, size
  <1> DEFINE s == CHOOSE s : s = folds(s)
  <1>2. s = folds(s)
    <2>1. \E e : Climbs(w, size, e)
      BY ClimbsExist
    <2>2. \E e : e = folds(e)
      BY <1>1, <2>1
    <2> HIDE DEF folds
    <2> QED BY <2>2
  <1>3. FoldLeft(LAMBDA n, c : n + NumPages(c.index), 0, cs) = s[DOMAIN cs]
    BY DEF FoldLeft, MapThenFoldSet
  <1> HIDE DEF s, folds, w
  <1>4. Climbs(w, size, s)
    BY <1>1, <1>2
  <1>5. s[1 .. size] = Total(w, size)
    BY <1>4, ClimbsTotal DEF w
  <1> QED BY <1>3, <1>5 DEF w

\* The rows of chunks.
RowsIn(cs) == [i \in 1 .. Len(cs) |-> RowsOf(cs[i].pages)]

\* rowOffsets adds the rows of the chunks.
LEMMA RowsSum ==
  ASSUME NEW cs, Len(cs) \in Nat, DOMAIN cs = 1 .. Len(cs), Weighs(RowsIn(cs), Len(cs))
  PROVE  FoldLeft(LAMBDA n, c : n + RowsOf(c.pages), 0, cs) = Total(RowsIn(cs), Len(cs))
  <1> DEFINE size == Len(cs)
             w == RowsIn(cs)
             folds(s) == [t \in SUBSET (DOMAIN cs) |->
                            IF t = {} THEN 0 ELSE s[t \ {Max(t)}] + RowsOf(cs[Max(t)].pages)]
  <1>1. ASSUME NEW s PROVE Climbs(w, size, s) <=> s = folds(s)
    <2> DEFINE climbs == [t \in SUBSET (1 .. size) |-> IF t = {} THEN 0 ELSE s[t \ {Max(t)}] + w[Max(t)]]
    <2>1. ASSUME NEW t \in SUBSET (1 .. size), t # {} PROVE w[Max(t)] = RowsOf(cs[Max(t)].pages)
      BY <2>1, MaxWithin DEF RowsIn
    <2> HIDE DEF w, size
    <2>2. \A t \in SUBSET (1 .. size) :
             (IF t = {} THEN 0 ELSE s[t \ {Max(t)}] + w[Max(t)])
               = IF t = {} THEN 0 ELSE s[t \ {Max(t)}] + RowsOf(cs[Max(t)].pages)
      BY <2>1
    <2>3. climbs = folds(s)
      BY <2>2 DEF size
    <2> QED BY <2>3 DEF Climbs, size
  <1> DEFINE s == CHOOSE s : s = folds(s)
  <1>2. s = folds(s)
    <2>1. \E e : Climbs(w, size, e)
      BY ClimbsExist
    <2>2. \E e : e = folds(e)
      BY <1>1, <2>1
    <2> HIDE DEF folds
    <2> QED BY <2>2
  <1>3. FoldLeft(LAMBDA n, c : n + RowsOf(c.pages), 0, cs) = s[DOMAIN cs]
    BY DEF FoldLeft, MapThenFoldSet
  <1> HIDE DEF s, folds, w
  <1>4. Climbs(w, size, s)
    BY <1>1, <1>2
  <1>5. s[1 .. size] = Total(w, size)
    BY <1>4, ClimbsTotal DEF w
  <1> QED BY <1>3, <1>5 DEF w

\* The sum of a part of the weights.
LEMMA TotalPart ==
  ASSUME NEW n \in Nat, NEW w, Weighs(w, n), NEW i \in 0 .. n
  PROVE  /\ Weighs(w, i) /\ Total(w, i) \in Nat
         /\ i = 0 => Total(w, i) = 0
         /\ i > 0 => Total(w, i - 1) \in Nat /\ Total(w, i) = Total(w, i - 1) + w[i]
  BY TotalIs DEF Weighs

\* More indexes have a greater sum.
LEMMA TotalRises ==
  ASSUME NEW n \in Nat, NEW w, Weighs(w, n), NEW i \in 0 .. n, NEW k \in i .. n
  PROVE  Total(w, i) <= Total(w, k)
  <1> DEFINE Stage(d) == i + d <= n => Total(w, i) <= Total(w, i + d)
             Stages == {d \in Nat : Stage(d)}
  <1>1. Stage(0)
    BY TotalPart
  <1>2. ASSUME NEW d \in Nat, Stage(d) PROVE Stage(d + 1)
    <2> SUFFICES ASSUME i + (d + 1) <= n PROVE Total(w, i) <= Total(w, i + (d + 1))
      OBVIOUS
    <2> DEFINE j == i + (d + 1)
    <2>1. j \in 0 .. n /\ j > 0 /\ j - 1 = i + d /\ w[j] \in Nat
      BY DEF Weighs
    <2>2. Total(w, i) <= Total(w, j - 1)
      BY <1>2, <2>1
    <2> HIDE DEF j
    <2>3. Total(w, j) = Total(w, j - 1) + w[j] /\ Total(w, j - 1) \in Nat /\ Total(w, i) \in Nat
      BY <2>1, TotalPart
    <2>4. Total(w, i) <= Total(w, j)
      BY <2>1, <2>2, <2>3
    <2> QED BY <2>4 DEF j
  <1> HIDE DEF Stage
  <1>3. Stages \in SUBSET Nat /\ 0 \in Stages /\ \A d \in Stages : d + 1 \in Stages
    BY <1>1, <1>2
  <1> HIDE DEF Stages
  <1>4. k - i \in Nat /\ i + (k - i) = k /\ i + (k - i) <= n
    OBVIOUS
  <1>5. Stage(k - i)
    BY <1>3, <1>4, SetInduction DEF Stages
  <1> QED BY <1>4, <1>5 DEF Stage

\* Each number up to the sum belongs to one index.
AtIndex(w, p, i) == Total(w, i - 1) < p /\ p <= Total(w, i)

\* Every number up to the total is in one of the parts.
LEMMA IndexOf ==
  ASSUME NEW n \in Nat, NEW w, Weighs(w, n), NEW p \in 1 .. Total(w, n)
  PROVE  \E i \in 1 .. n : AtIndex(w, p, i)
  <1> DEFINE reach == {i \in 0 .. n : p <= Total(w, i)}
  <1>1. \A i \in 0 .. n : Total(w, i) \in Nat
    BY TotalPart
  <1>2. n \in 0 .. n /\ Total(w, n) \in Nat
    BY <1>1
  <1>3. reach \in SUBSET Nat /\ n \in reach
    BY <1>2
  <1>4. PICK i \in reach : \A k \in reach : i <= k
    BY <1>3, LeastElement
  <1>5. i \in 0 .. n /\ p <= Total(w, i)
    OBVIOUS
  <1>6. i # 0
    BY <1>2, <1>5, TotalPart
  <1>7. i - 1 \in 0 .. n /\ ~(i <= i - 1)
    BY <1>5, <1>6
  <1>8. ~(p <= Total(w, i - 1))
    BY <1>4, <1>7
  <1>9. Total(w, i - 1) < p
    BY <1>1, <1>7, <1>8
  <1> QED BY <1>5, <1>6, <1>9 DEF AtIndex

\* ... and in one only.
LEMMA IndexUnique ==
  ASSUME NEW n \in Nat, NEW w, Weighs(w, n), NEW p \in Int,
         NEW i \in 1 .. n, AtIndex(w, p, i), NEW k \in 1 .. n, AtIndex(w, p, k)
  PROVE  i = k
  <1>1. ASSUME NEW x \in 1 .. n, NEW y \in 1 .. n, AtIndex(w, p, x), AtIndex(w, p, y) PROVE ~(x < y)
    <2>1. SUFFICES ASSUME x < y PROVE FALSE
      OBVIOUS
    <2>2. x \in 0 .. n /\ y - 1 \in 0 .. n /\ y - 1 \in x .. n
      BY <2>1
    <2>3. Total(w, x) <= Total(w, y - 1)
      BY <2>2, TotalRises
    <2>4. Total(w, x) \in Nat /\ Total(w, y - 1) \in Nat
      BY <2>2, TotalPart
    <2> QED BY <1>1, <2>3, <2>4 DEF AtIndex
  <1>2. ~(i < k) /\ ~(k < i)
    BY <1>1
  <1> QED BY <1>2

-----------------------------------------------------------------------------
(* Sequences of sequences.                                                  *)

\* The recursion of FlattenSeq has a solution.
LEMMA FlattenExists ==
  ASSUME NEW T, NEW s \in Seq(Seq(T))
  PROVE  \E fn \in [1..Len(s) -> Seq(T)] :
            \A i \in 1..Len(s) : fn[i] = IF i = 1 THEN s[i] ELSE fn[i-1] \o s[i]
  <1> DEFINE Stage(n) == n <= Len(s) =>
               \E fn \in [1..n -> Seq(T)] :
                 \A i \in 1..n : fn[i] = IF i = 1 THEN s[i] ELSE fn[i-1] \o s[i]
             S == {n \in Nat : Stage(n)}
  <1>1. Stage(0)
    <2>1. << >> \in Seq(T) /\ 1..0 = {}
      OBVIOUS
    <2>2. [i \in 1..0 |-> << >>] \in [1..0 -> Seq(T)]
      BY <2>1
    <2> QED BY <2>1, <2>2
  <1>2. ASSUME NEW n \in Nat, Stage(n) PROVE Stage(n + 1)
    <2>1. n \in Nat /\ Stage(n)
      BY <1>2
    <2>2. SUFFICES ASSUME n + 1 <= Len(s)
                   PROVE  \E fn \in [1..(n + 1) -> Seq(T)] :
                            \A i \in 1..(n + 1) : fn[i] = IF i = 1 THEN s[i] ELSE fn[i-1] \o s[i]
      OBVIOUS
    <2>3. PICK fn \in [1..n -> Seq(T)] :
            \A i \in 1..n : fn[i] = IF i = 1 THEN s[i] ELSE fn[i-1] \o s[i]
      BY <2>1, <2>2
    <2> DEFINE last == IF n = 0 THEN s[1] ELSE fn[n] \o s[n + 1]
               h == [i \in 1..(n + 1) |-> IF i = n + 1 THEN last ELSE fn[i]]
    <2>4. s[n + 1] \in Seq(T) /\ s[1] \in Seq(T)
      BY <2>1, <2>2
    <2>5. last \in Seq(T)
      BY <2>1, <2>4
    <2>6. h \in [1..(n + 1) -> Seq(T)]
      <3> HIDE DEF last
      <3> QED BY <2>1, <2>5
    <2>7. ASSUME NEW i \in 1..(n + 1)
          PROVE  h[i] = IF i = 1 THEN s[i] ELSE h[i-1] \o s[i]
      <3>1. CASE i = n + 1
        BY <2>1, <3>1
      <3>2. CASE i # n + 1
        <4>1. i \in 1..n /\ h[i] = fn[i] /\ (i # 1 => i - 1 \in 1..n /\ h[i-1] = fn[i-1])
          <5> HIDE DEF last
          <5> QED BY <2>1, <3>2
        <4> QED BY <2>3, <4>1
      <3> QED BY <3>1, <3>2
    <2> HIDE DEF h
    <2> QED BY <2>6, <2>7
  <1> HIDE DEF Stage
  <1>3. S \in SUBSET Nat /\ 0 \in S /\ \A n \in S : n + 1 \in S
    BY <1>1, <1>2
  <1> HIDE DEF S
  <1>4. \A n \in Nat : n \in S
    BY <1>3, SetInduction
  <1>5. Stage(Len(s))
    BY <1>4 DEF S
  <1> QED BY <1>5 DEF Stage

\* The sequences FlattenSeq goes through on its way to its result.
Flattens(s, fn) == fn = [i \in 1..Len(s) |-> IF i = 1 THEN s[i] ELSE fn[i-1] \o s[i]]

\* FlattenSeq is the last of them.
LEMMA FlattenSeqUnfolds ==
  ASSUME NEW T, NEW s \in Seq(Seq(T))
  PROVE  \E fn : Flattens(s, fn) /\ FlattenSeq(s) = IF s = << >> THEN << >> ELSE fn[Len(s)]
  <1>1. PICK fn \in [1..Len(s) -> Seq(T)] :
            \A i \in 1..Len(s) : fn[i] = IF i = 1 THEN s[i] ELSE fn[i-1] \o s[i]
    BY FlattenExists
  <1>2. Flattens(s, fn)
    BY <1>1 DEF Flattens
  <1> DEFINE e == CHOOSE h : h = [i \in 1..Len(s) |-> IF i = 1 THEN s[i] ELSE h[i-1] \o s[i]]
  <1>3. Flattens(s, e)
    BY <1>2 DEF Flattens
  <1>4. FlattenSeq(s) = IF Len(s) = 0 THEN s ELSE e[Len(s)]
    BY DEF FlattenSeq
  <1>5. Len(s) = 0 <=> s = << >>
    OBVIOUS
  <1> HIDE DEF e
  <1> QED BY <1>3, <1>4, <1>5

\* The elements of FlattenSeq, by the sequence they are from.
Lengths(s) == [i \in 1 .. Len(s) |-> Len(s[i])]

\* The concatenation of two sequences.
LEMMA ConcatIs ==
  ASSUME NEW T, NEW x \in Seq(T), NEW y \in Seq(T)
  PROVE  /\ x \o y \in Seq(T) /\ Len(x \o y) = Len(x) + Len(y)
         /\ \A j \in 1 .. Len(x) : (x \o y)[j] = x[j]
         /\ \A j \in 1 .. Len(y) : (x \o y)[Len(x) + j] = y[j]
  OBVIOUS

FlattenPart(T, s, w, fn, k) ==
    /\ fn[k] \in Seq(T) /\ Len(fn[k]) = Total(w, k)
    /\ \A i \in 1 .. k : \A j \in 1 .. Len(s[i]) : fn[k][Total(w, i - 1) + j] = s[i][j]

\* Entry j of part i comes after the parts before it.
LEMMA FlattenIs ==
  ASSUME NEW T, NEW s \in Seq(Seq(T))
  PROVE  /\ Weighs(Lengths(s), Len(s))
         /\ FlattenSeq(s) \in Seq(T) /\ Len(FlattenSeq(s)) = Total(Lengths(s), Len(s))
         /\ \A i \in 1 .. Len(s) : \A j \in 1 .. Len(s[i]) :
              FlattenSeq(s)[Total(Lengths(s), i - 1) + j] = s[i][j]
  <1> DEFINE n == Len(s)
             w == Lengths(s)
  <1>1. n \in Nat /\ \A i \in 1 .. n : s[i] \in Seq(T) /\ Len(s[i]) \in Nat /\ w[i] = Len(s[i])
    BY DEF Lengths
  <1> HIDE DEF n, w
  <1>2. Weighs(w, n)
    BY <1>1 DEF Weighs
  <1>3. PICK fn : Flattens(s, fn) /\ FlattenSeq(s) = IF s = << >> THEN << >> ELSE fn[Len(s)]
    BY FlattenSeqUnfolds
  <1>4. \A i \in 1 .. n : fn[i] = IF i = 1 THEN s[i] ELSE fn[i-1] \o s[i]
    BY <1>3 DEF Flattens, n
  <1> DEFINE Part(k) == FlattenPart(T, s, w, fn, k)
             Stage(k) == k + 1 <= n => Part(k + 1)
             Stages == {k \in Nat : Stage(k)}
  <1>5. \A i \in 0 .. n : Total(w, i) \in Nat
    BY <1>1, <1>2, TotalPart
  <1>6. Stage(0)
    <2> SUFFICES ASSUME 1 <= n PROVE Part(1)
      OBVIOUS
    <2>1. 1 \in 1 .. n /\ fn[1] = s[1] /\ 1 \in 0 .. n /\ 0 \in 0 .. n
      BY <1>1, <1>4
    <2>2. Total(w, 0) = 0 /\ Total(w, 1) = Total(w, 0) + w[1]
      BY <1>1, <1>2, <2>1, TotalPart
    <2>3. Total(w, 1) = Len(s[1])
      BY <1>1, <2>1, <2>2
    <2>4. \A i \in 1 .. 1 : \A j \in 1 .. Len(s[i]) : fn[1][Total(w, i - 1) + j] = s[i][j]
      <3> TAKE i \in 1 .. 1
      <3>1. i = 1 /\ i - 1 = 0
        OBVIOUS
      <3> QED BY <1>1, <2>1, <2>2, <3>1
    <2> QED BY <1>1, <2>1, <2>3, <2>4 DEF FlattenPart
  <1>7. ASSUME NEW k \in Nat, Stage(k) PROVE Stage(k + 1)
    <2> DEFINE a == k + 1
               b == a + 1
    <2> SUFFICES ASSUME b <= n PROVE Part(b)
      OBVIOUS
    <2>1. a \in 1 .. n /\ b \in 1 .. n /\ b # 1 /\ b - 1 = a /\ b \in 0 .. n /\ a \in 0 .. n /\ b > 0
          /\ \A i \in 1 .. b : i \in 1 .. a \/ i = b
      BY <1>1
    <2>2. FlattenPart(T, s, w, fn, a)
      BY <1>7, <2>1
    <2> HIDE DEF a, b
    <2>3. fn[b] = fn[a] \o s[b] /\ s[b] \in Seq(T) /\ w[b] = Len(s[b])
      BY <1>1, <1>4, <2>1
    <2>4. Total(w, b) = Total(w, a) + w[b] /\ Total(w, a) \in Nat
      BY <1>1, <1>2, <2>1, TotalPart
    <2>5. /\ fn[b] \in Seq(T) /\ Len(fn[b]) = Len(fn[a]) + Len(s[b])
          /\ \A j \in 1 .. Len(fn[a]) : fn[b][j] = fn[a][j]
          /\ \A j \in 1 .. Len(s[b]) : fn[b][Len(fn[a]) + j] = s[b][j]
      <3>1. fn[a] \in Seq(T)
        BY <2>2 DEF FlattenPart
      <3> DEFINE x == fn[a]
                 y == s[b]
                 z == fn[b]
      <3>2. x \in Seq(T) /\ y \in Seq(T) /\ z = x \o y
        BY <2>3, <3>1
      <3> HIDE DEF x, y, z
      <3>3. /\ z \in Seq(T) /\ Len(z) = Len(x) + Len(y)
            /\ \A j \in 1 .. Len(x) : z[j] = x[j]
            /\ \A j \in 1 .. Len(y) : z[Len(x) + j] = y[j]
        BY <3>2, ConcatIs
      <3> QED BY <3>3 DEF x, y, z
    <2>6. ASSUME NEW i \in 1 .. b, NEW j \in 1 .. Len(s[i]) PROVE fn[b][Total(w, i - 1) + j] = s[i][j]
      <3>1. CASE i = b
        BY <2>1, <2>2, <2>5, <3>1 DEF FlattenPart
      <3>2. CASE i # b
        <4>1. i \in 1 .. a /\ i \in 1 .. n /\ i \in 0 .. n /\ i - 1 \in 0 .. n /\ i > 0 /\ a \in i .. n
          BY <1>1, <2>1, <3>2
        <4>2. fn[a][Total(w, i - 1) + j] = s[i][j]
          BY <2>2, <4>1 DEF FlattenPart
        <4>3. Total(w, i - 1) \in Nat /\ Total(w, i) = Total(w, i - 1) + w[i] /\ w[i] = Len(s[i]) /\ Len(s[i]) \in Nat
          BY <1>1, <1>2, <4>1, TotalPart
        <4>4. Total(w, i) <= Total(w, a)
          BY <1>1, <1>2, <4>1, TotalRises
        <4>5. Total(w, i - 1) + j \in 1 .. Len(fn[a])
          BY <2>2, <2>4, <4>3, <4>4 DEF FlattenPart
        <4> QED BY <2>5, <4>2, <4>5
      <3> QED BY <3>1, <3>2
    <2>7. Len(fn[b]) = Total(w, b)
      BY <2>2, <2>3, <2>4, <2>5 DEF FlattenPart
    <2>8. FlattenPart(T, s, w, fn, b)
      BY <2>5, <2>6, <2>7 DEF FlattenPart
    <2> QED BY <2>8 DEF b, a
  <1> HIDE DEF Stage
  <1>8. Stages \in SUBSET Nat /\ 0 \in Stages /\ \A k \in Stages : k + 1 \in Stages
    BY <1>6, <1>7
  <1> HIDE DEF Stages
  <1>9. CASE n = 0
    <2>1. s = << >> /\ FlattenSeq(s) = << >>
      BY <1>1, <1>3, <1>9 DEF n
    <2>2. Total(w, n) = 0
      BY <1>2, <1>9, TotalIs
    <2>3. << >> \in Seq(T) /\ Len(<< >>) = 0
      OBVIOUS
    <2> DEFINE all == FlattenSeq(s)
    <2>4. all = << >>
      BY <2>1
    <2> HIDE DEF all
    <2>5. all \in Seq(T) /\ Len(all) = Total(w, n)
      BY <2>2, <2>3, <2>4
    <2>6. \A i \in 1 .. n : FALSE
      BY <1>9
    <2>7. \A i \in 1 .. n : \A j \in 1 .. Len(s[i]) : all[Total(w, i - 1) + j] = s[i][j]
      BY <2>6
    <2> QED BY <1>2, <2>5, <2>7 DEF n, w, all
  <1>10. CASE n # 0
    <2>1. n - 1 \in Nat /\ (n - 1) + 1 = n /\ n <= n
      BY <1>1, <1>10
    <2>2. Stage(n - 1)
      BY <1>8, <2>1, SetInduction DEF Stages
    <2>3. Part(n)
      BY <2>1, <2>2 DEF Stage
    <2>4. s # << >>
      BY <1>10 DEF n
    <2>5. FlattenSeq(s) = fn[n]
      BY <1>3, <2>4 DEF n
    <2>6. /\ FlattenSeq(s) \in Seq(T) /\ Len(FlattenSeq(s)) = Total(w, n)
          /\ \A i \in 1 .. n : \A j \in 1 .. Len(s[i]) : FlattenSeq(s)[Total(w, i - 1) + j] = s[i][j]
      BY <2>3, <2>5 DEF FlattenPart
    <2> QED BY <1>2, <2>6 DEF n, w
  <1> QED BY <1>9, <1>10

-----------------------------------------------------------------------------
(* Values and pages.                                                        *)

\* The bytes of byte arrays have a width.
Bytewise(k) == k \in {"byteArray", "fixedLen"}

\* The values of a column are sequences of units; there are none in a column of nulls.
LEMMA ValuesType ==
  ASSUME NEW k \in IndexKinds, NEW v \in ValuesOf(k)
  PROVE  v \in Seq(Int) /\ (Bytewise(k) => v \in Seq(0 .. MaxByte)) /\ k # "null"
  <1>0. MaxByte \in Nat /\ MaxBytes \in Nat
    BY IndexAssumption DEF IndexAssumption
  <1>1. ASSUME NEW n \in Nat, NEW b \in [1 .. n -> 0 .. MaxByte]
        PROVE  b \in Seq(0 .. MaxByte) /\ b \in Seq(Int)
    <2>1. b \in Seq(0 .. MaxByte)
      <3> DEFINE Byte == 0 .. MaxByte
      <3>1. b \in [1 .. n -> Byte]
        OBVIOUS
      <3> HIDE DEF Byte
      <3>2. b \in Seq(Byte)
        BY <3>1, SeqDef
      <3> QED BY <3>2 DEF Byte
    <2>2. \A i \in 1 .. n : b[i] \in Int
      BY <1>0
    <2>3. b \in [1 .. n -> Int]
      BY <2>2
    <2>4. b \in Seq(Int)
      BY <2>3, SeqDef
    <2> QED BY <2>1, <2>4
  <1>2. <<-1>> \in Seq(Int) /\ <<0>> \in Seq(Int) /\ <<1>> \in Seq(Int) /\ <<2>> \in Seq(Int)
    OBVIOUS
  <1>3. CASE k \in {"boolean", "unsigned"}
    BY <1>2, <1>3 DEF ValuesOf, Bytewise
  <1>4. CASE k \in {"int", "int96", "float"}
    BY <1>2, <1>4 DEF ValuesOf, Bytewise
  <1>5. CASE k = "byteArray"
    <2>1. v \in ByteStrings(MaxBytes)
      BY <1>5 DEF ValuesOf
    <2>2. PICK n \in 0 .. MaxBytes : v \in [1 .. n -> 0 .. MaxByte]
      BY <2>1 DEF ByteStrings
    <2>3. n \in Nat
      BY <1>0
    <2> QED BY <1>1, <1>5, <2>2, <2>3
  <1>6. CASE k \in {"fixedLen", "be128"}
    BY <1>0, <1>1, <1>6 DEF ValuesOf
  <1>7. CASE k = "null"
    BY <1>7 DEF ValuesOf
  <1> QED BY <1>3, <1>4, <1>5, <1>6, <1>7, IndexAssumption DEF IndexAssumption

\* A page with values has bounds, a null page none.
BoundsOK(k, page) ==
    /\ page.min.value \in Seq(Int) /\ page.max.value \in Seq(Int)
    /\ Bytewise(k) => page.min.value \in Seq(0 .. MaxByte) /\ page.max.value \in Seq(0 .. MaxByte)
    /\ AtMost(page.min.value, page.max.value)
PageOK(k, page) ==
    /\ page.numNulls \in Nat /\ page.numValues \in Nat
    /\ page.min.null \in BOOLEAN /\ page.max.null = page.min.null
    /\ page.min.null <=> page.numNulls = page.numValues
    /\ page.min.null => page.min = Null /\ page.max = Null /\ k \in NullPageKinds
    /\ ~page.min.null => BoundsOK(k, page) /\ k # "null"

\* Every page of a column is such a page.
LEMMA PageIs ==
  ASSUME NEW k \in IndexKinds, NEW page \in PagesOf(k)
  PROVE  PageOK(k, page)
  <1> DEFINE Pairs == {q \in ValuesOf(k) \X ValuesOf(k) : Compare(q[1], q[2]) <= 0}
  <1>1. CASE page \in {Page(p[1], p[2], 1) : p \in Pairs}
    <2>1. PICK p \in Pairs : page = Page(p[1], p[2], 1)
      BY <1>1
    <2> DEFINE a == p[1]
               b == p[2]
    <2>2. a \in ValuesOf(k) /\ b \in ValuesOf(k) /\ Compare(a, b) <= 0 /\ page = Page(a, b, 1)
      BY <2>1
    <2> HIDE DEF a, b
    <2>3. /\ page.min.value = a /\ page.max.value = b /\ page.min.null = FALSE /\ page.max.null = FALSE
          /\ page.numNulls = 1 /\ page.numValues = 1 + (IF a = b THEN 1 ELSE 2)
      BY <2>2 DEF Page, Some
    <2>4. BoundsOK(k, page) /\ k # "null"
      BY <2>2, <2>3, ValuesType DEF BoundsOK, AtMost
    <2>5. page.numNulls # page.numValues /\ page.numNulls \in Nat /\ page.numValues \in Nat
      BY <2>3
    <2> QED BY <2>3, <2>4, <2>5 DEF PageOK
  <1>2. CASE page \in {NullPageOf(n) : n \in IF k \in NullPageKinds THEN {2} ELSE {}}
    <2>1. page = NullPageOf(2) /\ k \in NullPageKinds
      BY <1>2
    <2> QED BY <2>1 DEF NullPageOf, Null, PageOK
  <1> QED BY <1>1, <1>2 DEF PagesOf

-----------------------------------------------------------------------------
(* Chunks.                                                                  *)

Values == [null : BOOLEAN, value : Seq(Int)]
Indexes == [null : Seq(BOOLEAN), nulls : Seq(Nat), min : Seq(Values), max : Seq(Values),
            order : {"Ascending", "Descending", "Unordered"}]
ChunksOf(k) == [pages : Seq(PagesOf(k)), index : Indexes, format : Indexes,
                firstRows : Seq(Nat), offsets : Seq(Nat)]

\* CutToTop, of the pages of a column of kind k.
CutTop(k, page) ==
    /\ ~page.max.null /\ Truncates(k) /\ Len(page.max.value) > SizeLimit
    /\ \A i \in 1..SizeLimit : page.max.value[i] = MaxByte

\* Entry j of an index covers the page.
EntryCovers(k, index, j, page) ==
    /\ index.null[j] = page.min.null /\ index.nulls[j] = page.numNulls
    /\ ~page.min.null =>
         /\ ~index.min[j].null /\ ~index.max[j].null
         /\ AtMost(index.min[j].value, page.min.value)
         /\ CutTop(k, page) \/ AtMost(page.max.value, index.max[j].value)
         /\ AtMost(index.min[j].value, index.max[j].value)
    /\ page.min.null /\ index.order # "Unordered" => index.min[j].null /\ index.max[j].null

\* The order that an index claims is that of its bounds.
Rises(index, i, j) ==
    AtMost(index.min[i].value, index.min[j].value) /\ AtMost(index.max[i].value, index.max[j].value)
OrderHolds(index) ==
    \A i, j \in 1 .. Len(index.null) : i < j /\ ~index.null[i] /\ ~index.null[j] =>
        /\ index.order = "Ascending" => Rises(index, i, j)
        /\ index.order = "Descending" => Rises(index, j, i)

\* The index of chunk c, after base pages, tells the truth about its pages.
ChunkHolds(k, c, base) ==
    /\ c.pages # << >>
    /\ Len(c.index.null) = Len(c.pages)
    /\ Len(c.index.min) = Len(c.pages) /\ Len(c.index.max) = Len(c.pages)
    /\ k # "null" => c.format = c.index
    /\ \A j \in 1 .. Len(c.pages) :
         /\ EntryCovers(k, c.index, j, c.pages[j])
         /\ c.firstRows[j] = RowsOf(SubSeq(c.pages, 1, j - 1))
         /\ c.offsets[j] = base + j
    /\ OrderHolds(c.index)
ChunksHold(k, cs) ==
    cs \in Seq(ChunksOf(k)) /\ \A i \in 1 .. Len(cs) : ChunkHolds(k, cs[i], offsets(cs, i - 1))

\* The fields of a chunk.
LEMMA ChunkType ==
  ASSUME NEW k \in IndexKinds, NEW c \in ChunksOf(k)
  PROVE  /\ c.pages \in Seq(PagesOf(k)) /\ Len(c.pages) \in Nat
         /\ c.index \in Indexes /\ c.index.null \in Seq(BOOLEAN)
         /\ c.index.min \in Seq(Values) /\ c.index.max \in Seq(Values)
         /\ c.index.order \in {"Ascending", "Descending", "Unordered"}
         /\ NumPages(c.index) \in Nat
  <1>1. c.pages \in Seq(PagesOf(k)) /\ c.index \in Indexes
    BY DEF ChunksOf
  <1> DEFINE x == c.index
  <1>2. x \in Indexes
    BY <1>1
  <1> HIDE DEF x
  <1>3. /\ x.null \in Seq(BOOLEAN) /\ x.min \in Seq(Values) /\ x.max \in Seq(Values)
        /\ x.order \in {"Ascending", "Descending", "Unordered"}
    BY <1>2 DEF Indexes
  <1>4. Len(x.null) \in Nat
    BY <1>3
  <1> DEFINE Pages == PagesOf(k)
  <1>5. c.pages \in Seq(Pages)
    BY <1>1
  <1> HIDE DEF Pages
  <1>6. Len(c.pages) \in Nat
    BY <1>5
  <1> QED BY <1>1, <1>3, <1>4, <1>6 DEF x, NumPages

\* The beginning of a sequence.
LEMMA PrefixIs ==
  ASSUME NEW T, NEW s \in Seq(T), NEW i \in 0 .. Len(s)
  PROVE  /\ SubSeq(s, 1, i) \in Seq(T) /\ Len(SubSeq(s, 1, i)) = i /\ DOMAIN SubSeq(s, 1, i) = 1 .. i
         /\ \A j \in 1 .. i : SubSeq(s, 1, i)[j] = s[j] /\ j \in 1 .. Len(s)
         /\ Len(s) \in Nat /\ DOMAIN s = 1 .. Len(s) /\ SubSeq(s, 1, Len(s)) = s
  OBVIOUS

\* The rows of the first j pages.
LEMMA RowsUpTo ==
  ASSUME NEW k \in IndexKinds, NEW ps \in Seq(PagesOf(k)), NEW j \in 0 .. Len(ps)
  PROVE  /\ Weighs(ValuesIn(ps), Len(ps)) /\ Len(ps) \in Nat
         /\ RowsOf(SubSeq(ps, 1, j)) = Total(ValuesIn(ps), j)
         /\ Total(ValuesIn(ps), j) \in Nat
  <1> DEFINE Pages == PagesOf(k)
             w == ValuesIn(ps)
             n == Len(ps)
             part == SubSeq(ps, 1, j)
             u == ValuesIn(part)
  <1>1. ps \in Seq(Pages) /\ j \in 0 .. n
    OBVIOUS
  <1>2. \A page \in Pages : page.numValues \in Nat
    BY PageIs DEF PageOK
  <1> HIDE DEF Pages
  <1>3. /\ Len(part) = j /\ DOMAIN part = 1 .. j /\ n \in Nat
        /\ \A i \in 1 .. j : part[i] = ps[i] /\ i \in 1 .. n
    BY <1>1, PrefixIs
  <1>4. \A i \in 1 .. n : w[i] = ps[i].numValues /\ w[i] \in Nat
    BY <1>1, <1>2 DEF ValuesIn
  <1> HIDE DEF n, part
  <1>5. Weighs(w, n)
    BY <1>4 DEF Weighs
  <1>6. Weighs(w, j) /\ j \in Nat /\ Total(w, j) \in Nat
    BY <1>1, <1>3, <1>5, TotalPart
  <1>7. \A i \in 1 .. j : u[i] = w[i]
    BY <1>3, <1>4 DEF ValuesIn
  <1>8. Weighs(u, j)
    BY <1>6, <1>7 DEF Weighs
  <1> HIDE DEF u, w
  <1>9. RowsOf(part) = Total(u, j)
    BY <1>3, <1>6, <1>8, RowsOfIs DEF u
  <1>10. Total(u, j) = Total(w, j)
    BY <1>6, <1>7, TotalAgrees
  <1> QED BY <1>3, <1>5, <1>6, <1>9, <1>10 DEF w, part, n

\* The pages of the first i chunks.
LEMMA PagesUpTo ==
  ASSUME NEW k \in IndexKinds, NEW cs \in Seq(ChunksOf(k)), NEW i \in 0 .. Len(cs)
  PROVE  /\ Weighs(PagesIn(cs), Len(cs)) /\ Len(cs) \in Nat
         /\ offsets(cs, i) = Total(PagesIn(cs), i)
         /\ Total(PagesIn(cs), i) \in Nat
  <1> DEFINE T == ChunksOf(k)
             w == PagesIn(cs)
             n == Len(cs)
             part == SubSeq(cs, 1, i)
             u == PagesIn(part)
  <1>1. cs \in Seq(T) /\ i \in 0 .. n
    OBVIOUS
  <1>2. \A c \in T : NumPages(c.index) \in Nat
    BY ChunkType
  <1> HIDE DEF T
  <1>3. /\ Len(part) = i /\ DOMAIN part = 1 .. i /\ n \in Nat
        /\ \A x \in 1 .. i : part[x] = cs[x] /\ x \in 1 .. n
    BY <1>1, PrefixIs
  <1>4. \A x \in 1 .. n : w[x] = NumPages(cs[x].index) /\ w[x] \in Nat
    BY <1>1, <1>2 DEF PagesIn
  <1>5. offsets(cs, i) = FoldLeft(LAMBDA m, c : m + NumPages(c.index), 0, part)
    BY DEF offsets
  <1> HIDE DEF n, part
  <1>6. Weighs(w, n)
    BY <1>4 DEF Weighs
  <1>7. Weighs(w, i) /\ i \in Nat /\ Total(w, i) \in Nat
    BY <1>1, <1>3, <1>6, TotalPart
  <1>8. \A x \in 1 .. i : u[x] = w[x]
    BY <1>3, <1>4 DEF PagesIn
  <1>9. Weighs(u, i)
    BY <1>7, <1>8 DEF Weighs
  <1> HIDE DEF u, w
  <1>10. offsets(cs, i) = Total(u, i)
    BY <1>3, <1>5, <1>7, <1>9, PagesSum DEF u
  <1>11. Total(u, i) = Total(w, i)
    BY <1>7, <1>8, TotalAgrees
  <1> QED BY <1>3, <1>6, <1>7, <1>10, <1>11 DEF w, n

\* The rows of the first i chunks.
LEMMA RowsOfChunks ==
  ASSUME NEW k \in IndexKinds, NEW cs \in Seq(ChunksOf(k)), NEW i \in 0 .. Len(cs)
  PROVE  /\ Weighs(RowsIn(cs), Len(cs)) /\ Len(cs) \in Nat
         /\ rowOffsets(cs, i) = Total(RowsIn(cs), i)
         /\ Total(RowsIn(cs), i) \in Nat
  <1> DEFINE T == ChunksOf(k)
             w == RowsIn(cs)
             n == Len(cs)
             part == SubSeq(cs, 1, i)
             u == RowsIn(part)
  <1>1. cs \in Seq(T) /\ i \in 0 .. n
    OBVIOUS
  <1>2. \A c \in T : RowsOf(c.pages) \in Nat
    <2> TAKE c \in T
    <2> DEFINE ps == c.pages
    <2>1. ps \in Seq(PagesOf(k)) /\ Len(ps) \in Nat
      BY ChunkType
    <2> HIDE DEF ps
    <2>2. Len(ps) \in 0 .. Len(ps) /\ SubSeq(ps, 1, Len(ps)) = ps
      BY <2>1
    <2>3. RowsOf(SubSeq(ps, 1, Len(ps))) \in Nat
      BY <2>1, <2>2, RowsUpTo
    <2> QED BY <2>2, <2>3 DEF ps
  <1> HIDE DEF T
  <1>3. /\ Len(part) = i /\ DOMAIN part = 1 .. i /\ n \in Nat
        /\ \A x \in 1 .. i : part[x] = cs[x] /\ x \in 1 .. n
    BY <1>1, PrefixIs
  <1>4. \A x \in 1 .. n : w[x] = RowsOf(cs[x].pages) /\ w[x] \in Nat
    BY <1>1, <1>2 DEF RowsIn
  <1>5. rowOffsets(cs, i) = FoldLeft(LAMBDA m, c : m + RowsOf(c.pages), 0, part)
    BY DEF rowOffsets
  <1> HIDE DEF n, part
  <1>6. Weighs(w, n)
    BY <1>4 DEF Weighs
  <1>7. Weighs(w, i) /\ i \in Nat /\ Total(w, i) \in Nat
    BY <1>1, <1>3, <1>6, TotalPart
  <1>8. \A x \in 1 .. i : u[x] = w[x]
    BY <1>3, <1>4 DEF RowsIn
  <1>9. Weighs(u, i)
    BY <1>7, <1>8 DEF Weighs
  <1> HIDE DEF u, w
  <1>10. rowOffsets(cs, i) = Total(u, i)
    BY <1>3, <1>5, <1>7, <1>9, RowsSum DEF u
  <1>11. Total(u, i) = Total(w, i)
    BY <1>7, <1>8, TotalAgrees
  <1> QED BY <1>3, <1>6, <1>7, <1>10, <1>11 DEF w, n

-----------------------------------------------------------------------------
(* The pages of all the chunks.                                             *)

PagesOfChunks(cs) == [i \in DOMAIN cs |-> cs[i].pages]
PagesOfAll(cs) == FlattenSeq(PagesOfChunks(cs))

\* Page p of them all is page j of chunk i.
IsAt(cs, p, i, j) ==
    /\ i \in 1 .. Len(cs) /\ j \in 1 .. Len(cs[i].pages)
    /\ p = offsets(cs, i - 1) + j
    /\ mapPageIndex(cs, p) = <<i, j>>
    /\ PagesOfAll(cs)[p] = cs[i].pages[j]

\* The chunks hold the sequences of pages of them all.
LEMMA AllPagesAre ==
  ASSUME NEW k \in IndexKinds, NEW cs, ChunksHold(k, cs)
  PROVE  /\ PagesOfAll(cs) \in Seq(PagesOf(k)) /\ Len(PagesOfAll(cs)) = offsets(cs, Len(cs))
         /\ \A i \in 1 .. Len(cs) : \A j \in 1 .. Len(cs[i].pages) :
              PagesOfAll(cs)[offsets(cs, i - 1) + j] = cs[i].pages[j]
         /\ \A i \in 1 .. Len(cs) : PagesIn(cs)[i] = Len(cs[i].pages)
  <1> DEFINE T == ChunksOf(k)
             Pages == PagesOf(k)
             s == PagesOfChunks(cs)
             n == Len(cs)
             w == PagesIn(cs)
             u == Lengths(s)
  <1>1. cs \in Seq(T) /\ \A i \in 1 .. n : ChunkHolds(k, cs[i], offsets(cs, i - 1))
    BY DEF ChunksHold
  <1>2. \A c \in T : c.pages \in Seq(Pages)
    BY ChunkType
  <1>3. cs \in Seq(ChunksOf(k))
    BY <1>1
  <1> HIDE DEF T, Pages
  <1>4. n \in Nat /\ DOMAIN cs = 1 .. n /\ \A i \in 1 .. n : cs[i].pages \in Seq(Pages)
    BY <1>1, <1>2
  <1>5. s \in Seq(Seq(Pages)) /\ Len(s) = n /\ \A i \in 1 .. n : s[i] = cs[i].pages
    <2>1. s = [i \in 1 .. n |-> cs[i].pages]
      BY <1>4 DEF PagesOfChunks
    <2> HIDE DEF n
    <2>2. s \in [1 .. n -> Seq(Pages)]
      BY <1>4, <2>1
    <2> HIDE DEF s
    <2>3. s \in Seq(Seq(Pages)) /\ Len(s) = n
      BY <1>4, <2>2, SeqDef
    <2> QED BY <2>1, <2>3
  <1>6. Weighs(w, n) /\ \A i \in 0 .. n : offsets(cs, i) = Total(w, i)
    BY <1>3, <1>4, PagesUpTo
  <1>7. \A i \in 1 .. n : w[i] = Len(cs[i].pages) /\ u[i] = w[i]
    <2> TAKE i \in 1 .. n
    <2>1. Len(cs[i].index.null) = Len(cs[i].pages)
      BY <1>1 DEF ChunkHolds
    <2>2. w[i] = Len(cs[i].index.null)
      BY DEF PagesIn, NumPages
    <2>3. u[i] = Len(s[i])
      BY <1>5 DEF Lengths
    <2> QED BY <1>5, <2>1, <2>2, <2>3
  <1> HIDE DEF s, w, u
  <1>8. /\ FlattenSeq(s) \in Seq(Pages) /\ Len(FlattenSeq(s)) = Total(u, n)
        /\ \A i \in 1 .. n : \A j \in 1 .. Len(s[i]) : FlattenSeq(s)[Total(u, i - 1) + j] = s[i][j]
    <2> HIDE DEF n
    <2> QED BY <1>5, FlattenIs DEF u
  <1>9. \A i \in 0 .. n : Total(u, i) = offsets(cs, i)
    <2> TAKE i \in 0 .. n
    <2>1. Weighs(w, i) /\ i \in Nat
      BY <1>4, <1>6, TotalPart
    <2>2. \A x \in 1 .. i : u[x] = w[x]
      BY <1>4, <1>7
    <2>3. Total(u, i) = Total(w, i)
      BY <2>1, <2>2, TotalAgrees
    <2> QED BY <1>6, <2>3
  <1>10. n \in 0 .. n /\ \A i \in 1 .. n : i - 1 \in 0 .. n
    BY <1>4
  <1> HIDE DEF n
  <1>11. PagesOfAll(cs) = FlattenSeq(s)
    BY DEF PagesOfAll, s
  <1>12. PagesOfAll(cs) \in Seq(Pages) /\ Len(PagesOfAll(cs)) = offsets(cs, n)
    BY <1>8, <1>9, <1>10, <1>11
  <1>13. \A i \in 1 .. n : \A j \in 1 .. Len(cs[i].pages) :
           PagesOfAll(cs)[offsets(cs, i - 1) + j] = cs[i].pages[j]
    <2> TAKE i \in 1 .. n
    <2>1. s[i] = cs[i].pages /\ Total(u, i - 1) = offsets(cs, i - 1)
      BY <1>5, <1>9, <1>10
    <2> QED BY <1>8, <1>11, <2>1
  <1> QED BY <1>7, <1>12, <1>13 DEF n, w, Pages

\* Each page is of one chunk, and mapPageIndex finds it.
LEMMA PageAt ==
  ASSUME NEW k \in IndexKinds, NEW cs, ChunksHold(k, cs), NEW p \in 1 .. Len(PagesOfAll(cs))
  PROVE  \E i, j : IsAt(cs, p, i, j)
  <1> DEFINE n == Len(cs)
             w == PagesIn(cs)
  <1>1. cs \in Seq(ChunksOf(k))
    BY DEF ChunksHold
  <1>2. n \in Nat /\ DOMAIN cs = 1 .. n
    BY <1>1
  <1>3. Weighs(w, n) /\ \A i \in 0 .. n : offsets(cs, i) = Total(w, i) /\ Total(w, i) \in Nat
    BY <1>1, <1>2, PagesUpTo
  <1>4. /\ Len(PagesOfAll(cs)) = offsets(cs, n)
        /\ \A i \in 1 .. n : \A j \in 1 .. Len(cs[i].pages) :
              PagesOfAll(cs)[offsets(cs, i - 1) + j] = cs[i].pages[j]
        /\ \A i \in 1 .. n : w[i] = Len(cs[i].pages)
    BY AllPagesAre
  <1> HIDE DEF w, n
  <1>5. p \in 1 .. Total(w, n) /\ p \in Int /\ n \in 0 .. n
    BY <1>2, <1>3, <1>4
  <1>6. PICK i \in 1 .. n : AtIndex(w, p, i)
    BY <1>2, <1>3, <1>5, IndexOf
  <1>7. \A x \in 1 .. n : AtIndex(w, p, x) <=> p > offsets(cs, x - 1) /\ p <= offsets(cs, x)
    <2> TAKE x \in 1 .. n
    <2>1. x \in 0 .. n /\ x - 1 \in 0 .. n
      BY <1>2
    <2>2. offsets(cs, x - 1) = Total(w, x - 1) /\ offsets(cs, x) = Total(w, x)
          /\ Total(w, x - 1) \in Nat /\ Total(w, x) \in Nat
      BY <1>3, <2>1
    <2> QED BY <1>5, <2>2 DEF AtIndex
  <1> DEFINE found == CHOOSE x \in DOMAIN cs : p > offsets(cs, x - 1) /\ p <= offsets(cs, x)
  <1>8. found = i
    <2>1. found \in 1 .. n /\ p > offsets(cs, found - 1) /\ p <= offsets(cs, found)
      BY <1>2, <1>6, <1>7
    <2> HIDE DEF found
    <2>2. AtIndex(w, p, found)
      BY <1>7, <2>1
    <2> QED BY <1>2, <1>3, <1>5, <1>6, <2>1, <2>2, IndexUnique
  <1>9. mapPageIndex(cs, p) = <<found, p - offsets(cs, found - 1)>>
    BY DEF mapPageIndex
  <1> HIDE DEF found
  <1> DEFINE j == p - offsets(cs, i - 1)
  <1>10. i \in 0 .. n /\ i - 1 \in 0 .. n /\ i > 0
    BY <1>2
  <1>11. /\ offsets(cs, i - 1) \in Nat /\ offsets(cs, i) = offsets(cs, i - 1) + Len(cs[i].pages)
         /\ w[i] \in Nat /\ w[i] = Len(cs[i].pages)
    <2>1. Total(w, i) = Total(w, i - 1) + w[i]
      BY <1>2, <1>3, <1>10, TotalPart
    <2>2. w[i] \in Nat
      BY <1>3 DEF Weighs
    <2>3. offsets(cs, i - 1) = Total(w, i - 1) /\ offsets(cs, i) = Total(w, i) /\ Total(w, i - 1) \in Nat
      BY <1>3, <1>10
    <2> QED BY <1>4, <2>1, <2>2, <2>3
  <1>12. p > offsets(cs, i - 1) /\ p <= offsets(cs, i)
    BY <1>6, <1>7
  <1>13. j \in 1 .. Len(cs[i].pages) /\ p = offsets(cs, i - 1) + j
    BY <1>5, <1>11, <1>12
  <1>14. mapPageIndex(cs, p) = <<i, j>>
    BY <1>8, <1>9
  <1>15. PagesOfAll(cs)[p] = cs[i].pages[j]
    BY <1>4, <1>13
  <1> HIDE DEF j
  <1>16. IsAt(cs, p, i, j)
    BY <1>13, <1>14, <1>15 DEF IsAt, n
  <1> QED BY <1>16

\* The rows before a page are those before its chunk and those before it there.
LEMMA RowsAt ==
  ASSUME NEW k \in IndexKinds, NEW cs, ChunksHold(k, cs), NEW i \in 1 .. Len(cs), NEW j \in 1 .. Len(cs[i].pages)
  PROVE  RowsOf(SubSeq(PagesOfAll(cs), 1, (offsets(cs, i - 1) + j) - 1))
           = rowOffsets(cs, i - 1) + RowsOf(SubSeq(cs[i].pages, 1, j - 1))
  <1> DEFINE n == Len(cs)
             all == PagesOfAll(cs)
             v == ValuesIn(all)
             r == RowsIn(cs)
             ps(x) == cs[x].pages
             off(x) == offsets(cs, x)
             size(x) == Len(ps(x))
  <1>1. cs \in Seq(ChunksOf(k))
    BY DEF ChunksHold
  <1>2. n \in Nat /\ \A x \in 1 .. n : cs[x] \in ChunksOf(k)
    BY <1>1
  <1>3. \A x \in 1 .. n : ps(x) \in Seq(PagesOf(k)) /\ size(x) \in Nat
    BY <1>2, ChunkType
  <1>4. /\ all \in Seq(PagesOf(k)) /\ Len(all) = off(n)
        /\ \A x \in 1 .. n : \A y \in 1 .. size(x) : all[off(x - 1) + y] = ps(x)[y]
        /\ \A x \in 1 .. n : PagesIn(cs)[x] = size(x)
    BY AllPagesAre
  <1>5. /\ off(0) = 0 /\ \A x \in 0 .. n : off(x) \in Nat /\ off(x) <= off(n)
        /\ \A x \in 1 .. n : off(x) = off(x - 1) + size(x)
    <2>1. \A x \in 0 .. n : /\ Weighs(PagesIn(cs), n) /\ off(x) = Total(PagesIn(cs), x)
                            /\ Total(PagesIn(cs), x) \in Nat
      BY <1>1, PagesUpTo
    <2> DEFINE w == PagesIn(cs)
    <2>2. 0 \in 0 .. n /\ n \in 0 .. n
      BY <1>2
    <2>3. Weighs(w, n)
      BY <2>1, <2>2
    <2>4. \A x \in 0 .. n : off(x) = Total(w, x) /\ Total(w, x) \in Nat
      BY <2>1
    <2>5. \A x \in 1 .. n : w[x] = size(x)
      BY <1>4
    <2> HIDE DEF w, n, off, size
    <2>6. off(0) = 0
      BY <1>2, <2>2, <2>3, <2>4, TotalPart
    <2>7. \A x \in 0 .. n : off(x) <= off(n)
      <3> TAKE x \in 0 .. n
      <3>1. n \in x .. n
        BY <1>2
      <3>2. Total(w, x) <= Total(w, n)
        BY <1>2, <2>3, <3>1, TotalRises
      <3> QED BY <2>2, <2>4, <3>2
    <2>8. \A x \in 1 .. n : off(x) = off(x - 1) + size(x)
      <3> TAKE x \in 1 .. n
      <3>1. x \in 0 .. n /\ x - 1 \in 0 .. n /\ x > 0
        BY <1>2
      <3>2. Total(w, x) = Total(w, x - 1) + w[x]
        BY <1>2, <2>3, <3>1, TotalPart
      <3> QED BY <2>4, <2>5, <3>1, <3>2
    <2> QED BY <2>4, <2>6, <2>7, <2>8
  <1> HIDE DEF all, off, ps, n
  <1>6. \A x \in 0 .. Len(all) : /\ Weighs(v, Len(all)) /\ Len(all) \in Nat /\ RowsOf(SubSeq(all, 1, x)) = Total(v, x)
                                 /\ Total(v, x) \in Nat
    BY <1>4, RowsUpTo
  <1>7. /\ Len(all) \in Nat /\ Weighs(v, Len(all)) /\ \A x \in 1 .. Len(all) : v[x] = all[x].numValues
        /\ \A x \in 0 .. Len(all) : Total(v, x) \in Nat
    <2>1. n \in 0 .. n
      BY <1>2
    <2>2. Len(all) \in Nat
      BY <1>4, <1>5, <2>1
    <2>3. 0 \in 0 .. Len(all)
      BY <2>2
    <2> QED BY <1>6, <2>2, <2>3 DEF ValuesIn
  <1>8. \A x \in 0 .. n : /\ Weighs(r, n) /\ rowOffsets(cs, x) = Total(r, x) /\ Total(r, x) \in Nat
    BY <1>1, RowsOfChunks DEF n
  <1>9. /\ Weighs(r, n) /\ \A x \in 1 .. n : r[x] = RowsOf(ps(x))
        /\ \A x \in 0 .. n : rowOffsets(cs, x) = Total(r, x) /\ Total(r, x) \in Nat
    <2>1. 0 \in 0 .. n
      BY <1>2
    <2> QED BY <1>8, <2>1 DEF RowsIn, n, ps
  <1>10. ASSUME NEW x \in 1 .. n, NEW y \in 0 .. size(x)
         PROVE  /\ Weighs(ValuesIn(ps(x)), size(x))
                /\ RowsOf(SubSeq(ps(x), 1, y)) = Total(ValuesIn(ps(x)), y)
                /\ Total(ValuesIn(ps(x)), y) \in Nat
    BY <1>3, RowsUpTo
  <1> HIDE DEF v, r
  <1> DEFINE Within(x, y) == Total(v, off(x - 1) + y) = Total(r, x - 1) + Total(ValuesIn(ps(x)), y)
  \* The rows before the first chunk, and those of the chunks one after the other.
  <1>11. ASSUME NEW x \in 1 .. n, Total(v, off(x - 1)) = Total(r, x - 1), NEW y \in 0 .. size(x)
         PROVE  Within(x, y)
    <2> DEFINE q == ValuesIn(ps(x))
               Stage(d) == d <= size(x) => Within(x, d)
               Stages == {d \in Nat : Stage(d)}
    <2>1. /\ x - 1 \in 0 .. n /\ x \in 0 .. n /\ off(x - 1) \in Nat /\ size(x) \in Nat
          /\ Weighs(q, size(x)) /\ Total(r, x - 1) \in Nat
          /\ \A z \in 1 .. size(x) : q[z] = ps(x)[z].numValues
      <3>1. x - 1 \in 0 .. n /\ x \in 0 .. n
        BY <1>2
      <3> QED BY <1>3, <1>5, <1>9, <1>10, <3>1 DEF ValuesIn
    <2> HIDE DEF q, size
    <2>2. Stage(0)
      BY <1>11, <2>1, TotalPart DEF q
    <2>3. ASSUME NEW d \in Nat, Stage(d) PROVE Stage(d + 1)
      <3> SUFFICES ASSUME d + 1 <= size(x) PROVE Within(x, d + 1)
        OBVIOUS
      <3> DEFINE e == d + 1
                 at == off(x - 1) + e
      <3>1. e \in 1 .. size(x) /\ e \in 0 .. size(x) /\ e > 0 /\ e - 1 = d /\ d \in 0 .. size(x)
        BY <2>1
      <3>2. Within(x, d)
        BY <2>3, <3>1
      <3> HIDE DEF e
      <3>3. at \in 1 .. Len(all) /\ at \in 0 .. Len(all) /\ at > 0 /\ at - 1 = off(x - 1) + d
        <4>1. off(x) = off(x - 1) + size(x) /\ off(x) <= Len(all)
          BY <1>4, <1>5, <2>1 DEF size
        <4>2. Len(all) \in Nat /\ off(x - 1) \in Nat /\ size(x) \in Nat /\ d \in Nat /\ e = d + 1
          BY <1>7, <2>1 DEF e
        <4> DEFINE a == off(x - 1)
                   b == size(x)
                   c == Len(all)
        <4>3. a \in Nat /\ b \in Nat /\ c \in Nat /\ d \in Nat /\ e = d + 1 /\ a + b <= c /\ e <= b
          BY <3>1, <4>1, <4>2
        <4> HIDE DEF a, b, c
        <4>4. a + e \in 1 .. c /\ a + e \in 0 .. c /\ a + e > 0 /\ (a + e) - 1 = a + d
          BY <4>3
        <4> QED BY <4>4 DEF a, c
      <3>4. v[at] = q[e] /\ q[e] \in Nat
        BY <1>4, <1>7, <2>1, <3>1, <3>3 DEF size, Weighs
      <3> HIDE DEF at
      <3>5. Total(v, at) = Total(v, at - 1) + v[at] /\ Total(v, at - 1) \in Nat
        BY <1>7, <3>3, TotalPart
      <3>6. Total(q, e) = Total(q, d) + q[e] /\ Total(q, d) \in Nat
        BY <2>1, <3>1, TotalPart
      <3>7. Total(v, at - 1) = Total(r, x - 1) + Total(q, d)
        BY <3>2, <3>3 DEF q
      <3>8. Total(v, at) = Total(r, x - 1) + Total(q, e)
        BY <2>1, <3>4, <3>5, <3>6, <3>7
      <3> QED BY <3>8 DEF at, e, q
    <2> HIDE DEF Stage
    <2>4. Stages \in SUBSET Nat /\ 0 \in Stages /\ \A d \in Stages : d + 1 \in Stages
      BY <2>2, <2>3
    <2> HIDE DEF Stages
    <2>5. y \in Nat /\ y <= size(x)
      BY <2>1 DEF size
    <2>6. Stage(y)
      BY <2>4, <2>5, SetInduction DEF Stages
    <2> QED BY <2>5, <2>6 DEF Stage
  <1> DEFINE Before1(x) == x <= n => Total(v, off(x)) = Total(r, x)
             C == {x \in Nat : Before1(x)}
  <1>12. Before1(0)
    BY <1>2, <1>5, <1>7, <1>9, TotalPart
  <1>13. ASSUME NEW x \in Nat, Before1(x) PROVE Before1(x + 1)
    <2> DEFINE z == x + 1
    <2> SUFFICES ASSUME z <= n PROVE Total(v, off(z)) = Total(r, z)
      OBVIOUS
    <2>1. z \in 1 .. n /\ z \in 0 .. n /\ z > 0 /\ z - 1 = x /\ x <= n
      BY <1>2
    <2> HIDE DEF z
    <2>2. Total(v, off(z - 1)) = Total(r, z - 1)
      BY <1>13, <2>1
    <2>3. size(z) \in 0 .. size(z)
      BY <1>3, <2>1
    <2>4. Within(z, size(z))
      BY <1>11, <2>1, <2>2, <2>3
    <2>5. off(z) = off(z - 1) + size(z)
      BY <1>5, <2>1
    <2>6. Total(r, z) = Total(r, z - 1) + r[z] /\ r[z] = RowsOf(ps(z))
      BY <1>2, <1>9, <2>1, TotalPart
    <2>7. RowsOf(ps(z)) = Total(ValuesIn(ps(z)), size(z))
      <3>1. RowsOf(SubSeq(ps(z), 1, size(z))) = Total(ValuesIn(ps(z)), size(z))
        BY <1>10, <2>1, <2>3
      <3>2. SubSeq(ps(z), 1, size(z)) = ps(z)
        <4> DEFINE s == ps(z)
        <4>1. s \in Seq(PagesOf(k))
          BY <1>3, <2>1
        <4> HIDE DEF s
        <4>2. SubSeq(s, 1, Len(s)) = s
          BY <4>1
        <4> QED BY <4>2 DEF s
      <3> QED BY <3>1, <3>2
    <2> QED BY <2>4, <2>5, <2>6, <2>7
  <1> HIDE DEF Before1
  <1>14. C \in SUBSET Nat /\ 0 \in C /\ \A x \in C : x + 1 \in C
    BY <1>12, <1>13
  <1> HIDE DEF C
  <1>15. i \in 1 .. n /\ i - 1 \in Nat /\ i - 1 <= n /\ i - 1 \in 0 .. n /\ j - 1 \in 0 .. size(i) /\ size(i) \in Nat
    BY <1>2, <1>3 DEF n, ps
  <1>16. Total(v, off(i - 1)) = Total(r, i - 1)
    BY <1>14, <1>15, SetInduction DEF C, Before1
  <1>17. Within(i, j - 1)
    BY <1>11, <1>15, <1>16
  <1>18. (off(i - 1) + j) - 1 = off(i - 1) + (j - 1) /\ off(i - 1) + (j - 1) \in 0 .. Len(all)
    <2>1. off(i) = off(i - 1) + size(i) /\ off(i) <= Len(all) /\ off(i - 1) \in Nat
      BY <1>15, <1>2, <1>4, <1>5
    <2> DEFINE a == off(i - 1)
               b == size(i)
               c == Len(all)
    <2>2. a \in Nat /\ b \in Nat /\ c \in Nat /\ a + b <= c /\ j \in 1 .. b
      BY <1>7, <1>15, <2>1 DEF ps
    <2> HIDE DEF a, b, c
    <2>3. (a + j) - 1 = a + (j - 1) /\ a + (j - 1) \in 0 .. c
      BY <2>2
    <2> QED BY <2>3 DEF a, c
  <1>19. RowsOf(SubSeq(all, 1, off(i - 1) + (j - 1))) = Total(v, off(i - 1) + (j - 1))
    BY <1>6, <1>18
  <1>20. RowsOf(SubSeq(ps(i), 1, j - 1)) = Total(ValuesIn(ps(i)), j - 1)
    BY <1>10, <1>15
  <1> QED BY <1>9, <1>15, <1>17, <1>18, <1>19, <1>20 DEF all, off, ps

-----------------------------------------------------------------------------
(* The indexes of the chunks, read as one.                                  *)

\* Entry p of the one index is entry j of the index of chunk i.
IsEntry(cs, m, p, i, j) ==
    /\ m.null[p] = cs[i].index.null[j] /\ m.nulls[p] = cs[i].index.nulls[j]
    /\ m.min[p] = cs[i].index.min[j] /\ m.max[p] = cs[i].index.max[j]
    /\ m.order # "Unordered" => cs[i].index.order = m.order

\* multiColumnIndex reads the entry that mapPageIndex names.
LEMMA EntryAt ==
  ASSUME NEW k \in IndexKinds, NEW cs, ChunksHold(k, cs), NEW p \in 1 .. Len(PagesOfAll(cs)),
         NEW i, NEW j, IsAt(cs, p, i, j)
  PROVE  /\ IsEntry(cs, multiColumnIndex(cs), p, i, j)
         /\ FirstRowIndex(cs, p) = rowOffsets(cs, i - 1) + cs[i].firstRows[j]
         /\ Offset(cs, p) = cs[i].offsets[j]
  <1> DEFINE at == mapPageIndex(cs, p)
             m == multiColumnIndex(cs)
             Stages == offsets(cs, Len(cs))
  <1>1. at[1] = i /\ at[2] = j
    BY DEF IsAt
  <1>2. p \in 1 .. Stages
    BY AllPagesAre
  <1>3. i \in DOMAIN cs
    BY DEF ChunksHold, IsAt
  <1>4. /\ m.null[p] = cs[at[1]].index.null[at[2]] /\ m.nulls[p] = cs[at[1]].index.nulls[at[2]]
        /\ m.min[p] = cs[at[1]].index.min[at[2]] /\ m.max[p] = cs[at[1]].index.max[at[2]]
    <2> HIDE DEF Stages
    <2> DEFINE null == [x \in 1 .. Stages |-> cs[mapPageIndex(cs, x)[1]].index.null[mapPageIndex(cs, x)[2]]]
               nulls == [x \in 1 .. Stages |-> cs[mapPageIndex(cs, x)[1]].index.nulls[mapPageIndex(cs, x)[2]]]
               mins == [x \in 1 .. Stages |-> cs[mapPageIndex(cs, x)[1]].index.min[mapPageIndex(cs, x)[2]]]
               maxs == [x \in 1 .. Stages |-> cs[mapPageIndex(cs, x)[1]].index.max[mapPageIndex(cs, x)[2]]]
    <2>1. m.null = null /\ m.nulls = nulls /\ m.min = mins /\ m.max = maxs
      BY DEF multiColumnIndex, Stages
    <2>2. /\ null[p] = cs[at[1]].index.null[at[2]] /\ nulls[p] = cs[at[1]].index.nulls[at[2]]
          /\ mins[p] = cs[at[1]].index.min[at[2]] /\ maxs[p] = cs[at[1]].index.max[at[2]]
      BY <1>2
    <2> HIDE DEF m, null, nulls, mins, maxs
    <2> QED BY <2>1, <2>2
  <1>5. m.order # "Unordered" => cs[i].index.order = m.order
    <2>1. m.order = IF multiIsAscending(cs) THEN "Ascending"
                    ELSE IF multiIsDescending(cs) THEN "Descending" ELSE "Unordered"
      BY DEF multiColumnIndex
    <2>2. multiIsAscending(cs) => cs[i].index.order = "Ascending"
      BY <1>3 DEF multiIsAscending
    <2>3. multiIsDescending(cs) => cs[i].index.order = "Descending"
      BY <1>3 DEF multiIsDescending
    <2> HIDE DEF m
    <2> QED BY <2>1, <2>2, <2>3
  <1>6. FirstRowIndex(cs, p) = rowOffsets(cs, at[1] - 1) + cs[at[1]].firstRows[at[2]]
    BY DEF FirstRowIndex
  <1>7. Offset(cs, p) = cs[at[1]].offsets[at[2]]
    BY DEF Offset
  <1> HIDE DEF m, at
  <1> QED BY <1>1, <1>4, <1>5, <1>6, <1>7 DEF IsEntry, m

\* The bounds of an entry are values.
ValuesAt(m, p) == m.min[p] \in Values /\ m.max[p] \in Values

\* The one index tells the truth about each page.
LEMMA MultiCovers ==
  ASSUME NEW k \in IndexKinds, NEW cs, ChunksHold(k, cs)
  PROVE  /\ NumPages(multiColumnIndex(cs)) = Len(PagesOfAll(cs)) /\ Len(PagesOfAll(cs)) \in Nat
         /\ \A p \in 1 .. Len(PagesOfAll(cs)) :
              /\ PageOK(k, PagesOfAll(cs)[p])
              /\ EntryCovers(k, multiColumnIndex(cs), p, PagesOfAll(cs)[p])
              /\ ValuesAt(multiColumnIndex(cs), p)
              /\ FirstRowIndex(cs, p) = RowsOf(SubSeq(PagesOfAll(cs), 1, p - 1))
              /\ Offset(cs, p) = p
  <1> DEFINE all == PagesOfAll(cs)
             m == multiColumnIndex(cs)
             Pages == PagesOf(k)
  <1>1. all \in Seq(Pages) /\ Len(all) = offsets(cs, Len(cs))
    BY AllPagesAre
  <1>2. \A page \in Pages : PageOK(k, page)
    BY PageIs
  <1> HIDE DEF all, Pages
  <1>3. Len(all) \in Nat /\ \A p \in 1 .. Len(all) : PageOK(k, all[p])
    BY <1>1, <1>2
  <1>4. NumPages(m) = Len(all)
    <2> DEFINE Stages == offsets(cs, Len(cs))
               null == [x \in 1 .. Stages |-> cs[mapPageIndex(cs, x)[1]].index.null[mapPageIndex(cs, x)[2]]]
    <2>1. m.null = null
      BY DEF multiColumnIndex
    <2> HIDE DEF Stages
    <2>2. Stages \in Nat /\ Stages = Len(all)
      BY <1>1, <1>3 DEF Stages
    <2>3. Len(null) = Stages
      BY <2>2
    <2> HIDE DEF null, m
    <2> QED BY <2>1, <2>2, <2>3 DEF NumPages
  <1>5. ASSUME NEW p \in 1 .. Len(all)
        PROVE  /\ EntryCovers(k, m, p, all[p]) /\ ValuesAt(m, p)
               /\ FirstRowIndex(cs, p) = RowsOf(SubSeq(all, 1, p - 1))
               /\ Offset(cs, p) = p
    <2>1. PICK i, j : IsAt(cs, p, i, j)
      BY PageAt DEF all
    <2>2. /\ IsEntry(cs, m, p, i, j)
          /\ FirstRowIndex(cs, p) = rowOffsets(cs, i - 1) + cs[i].firstRows[j]
          /\ Offset(cs, p) = cs[i].offsets[j]
      BY <2>1, EntryAt DEF all
    <2> DEFINE c == cs[i]
    <2>3. /\ i \in 1 .. Len(cs) /\ j \in 1 .. Len(c.pages) /\ p = offsets(cs, i - 1) + j /\ all[p] = c.pages[j]
      BY <2>1 DEF IsAt, all
    <2>4. c \in ChunksOf(k) /\ ChunkHolds(k, c, offsets(cs, i - 1))
      BY <2>3 DEF ChunksHold
    <2>5. /\ EntryCovers(k, c.index, j, c.pages[j])
          /\ c.firstRows[j] = RowsOf(SubSeq(c.pages, 1, j - 1))
          /\ c.offsets[j] = offsets(cs, i - 1) + j
          /\ Len(c.index.min) = Len(c.pages) /\ Len(c.index.max) = Len(c.pages)
      BY <2>3, <2>4 DEF ChunkHolds
    <2>6. RowsOf(SubSeq(all, 1, p - 1)) = rowOffsets(cs, i - 1) + RowsOf(SubSeq(c.pages, 1, j - 1))
      BY <2>3, RowsAt DEF all
    <2>7. c.index.min[j] \in Values /\ c.index.max[j] \in Values
      <3>1. c.index.min \in Seq(Values) /\ c.index.max \in Seq(Values)
        BY <2>4, ChunkType
      <3> DEFINE a == c.index.min
                 b == c.index.max
                 n == Len(c.pages)
      <3>2. a \in Seq(Values) /\ b \in Seq(Values) /\ Len(a) = n /\ Len(b) = n /\ j \in 1 .. n
        BY <2>3, <2>5, <3>1
      <3> HIDE DEF a, b, n
      <3>3. a[j] \in Values /\ b[j] \in Values
        BY <3>2
      <3> QED BY <3>3 DEF a, b
    <2> HIDE DEF c, m
    <2>8. EntryCovers(k, m, p, all[p])
      BY <2>2, <2>3, <2>5 DEF EntryCovers, IsEntry, c
    <2>9. ValuesAt(m, p)
      BY <2>2, <2>7 DEF ValuesAt, IsEntry, c
    <2> QED BY <2>2, <2>3, <2>5, <2>6, <2>8, <2>9 DEF c
  <1> HIDE DEF m
  <1> QED BY <1>3, <1>4, <1>5 DEF all, m

-----------------------------------------------------------------------------
(* The order of the bounds.                                                 *)

HasBounds(index) == \E j \in 1 .. NumPages(index) : ~index.null[j]

\* The first and the last page with bounds.
LEMMA BoundedAre ==
  ASSUME NEW index, NumPages(index) \in Nat
  PROVE  /\ LastBounded(index) > 0 <=> HasBounds(index)
         /\ HasBounds(index) =>
              /\ LastBounded(index) \in 1 .. NumPages(index) /\ ~index.null[LastBounded(index)]
              /\ FirstBounded(index) \in 1 .. NumPages(index) /\ ~index.null[FirstBounded(index)]
              /\ \A j \in 1 .. NumPages(index) : ~index.null[j] =>
                   FirstBounded(index) <= j /\ j <= LastBounded(index)
  <1> DEFINE n == NumPages(index)
             S == {j \in 1 .. n : ~index.null[j]}
             last == Max(S \cup {0})
             first == Min(S)
  <1>1. LastBounded(index) = last
    BY DEF LastBounded
  <1>2. FirstBounded(index) = IF last = 0 THEN 0 ELSE first
    BY <1>1 DEF FirstBounded
  <1>3. HasBounds(index) <=> S # {}
    BY DEF HasBounds
  <1>4. S \in SUBSET Nat /\ S \cup {0} \in SUBSET Nat /\ n \in Nat /\ \A y \in S \cup {0} : y <= n
    OBVIOUS
  <1>5. last \in S \cup {0} /\ \A y \in S \cup {0} : last >= y
    <2> DEFINE Z == S \cup {0}
    <2>1. Z \in SUBSET Nat /\ Z # {} /\ \A y \in Z : y <= n
      BY <1>4
    <2> HIDE DEF Z, n
    <2>2. Max(Z) \in Z /\ \A y \in Z : Max(Z) >= y
      BY <1>4, <2>1, MaxIs
    <2> QED BY <2>2 DEF Z
  <1>6. S # {} => first \in S /\ \A y \in S : first <= y
    <2> HIDE DEF S
    <2> QED BY <1>4, MinIs
  <1>7. \A y \in S : y \in 1 .. n /\ ~index.null[y]
    OBVIOUS
  <1>8. \A j \in 1 .. n : ~index.null[j] => j \in S
    OBVIOUS
  <1> HIDE DEF last, first, S, n
  <1>9. last > 0 <=> S # {}
    <2>1. ASSUME S # {} PROVE last > 0
      <3>1. PICK y \in S : TRUE
        BY <2>1
      <3>2. y \in 1 .. n /\ last >= y /\ last \in Nat
        BY <1>4, <1>5, <1>7, <3>1
      <3> QED BY <1>4, <3>2
    <2>2. ASSUME last > 0 PROVE S # {}
      BY <1>5, <2>2
    <2> QED BY <2>1, <2>2
  <1>10. ASSUME S # {}
         PROVE  /\ last \in 1 .. n /\ ~index.null[last]
                /\ first \in 1 .. n /\ ~index.null[first] /\ last # 0
                /\ \A j \in 1 .. n : ~index.null[j] => first <= j /\ j <= last
    <2>1. last \in S /\ last # 0
      BY <1>4, <1>5, <1>9, <1>10
    <2>2. first \in S /\ \A y \in S : first <= y
      BY <1>6, <1>10
    <2>3. \A j \in 1 .. n : ~index.null[j] => first <= j /\ j <= last
      <3> TAKE j \in 1 .. n
      <3> HAVE ~index.null[j]
      <3>1. j \in S /\ last \in Nat /\ j \in Nat
        BY <1>4, <1>8, <2>1
      <3>2. last >= j
        BY <1>5, <3>1
      <3> QED BY <2>2, <3>1, <3>2
    <2> QED BY <1>7, <2>1, <2>2, <2>3
  <1> QED BY <1>1, <1>2, <1>3, <1>9, <1>10 DEF n

\* The least and the greatest bound of chunk i, in ascending order.
Lowest(cs, i) == cs[i].index.min[FirstBounded(cs[i].index)].value
Highest(cs, i) == cs[i].index.max[LastBounded(cs[i].index)].value

\* The facts about entry j of chunk i that the order is about.
LEMMA ChunkEntry ==
  ASSUME NEW k \in IndexKinds, NEW cs, ChunksHold(k, cs), NEW i \in 1 .. Len(cs)
  PROVE  /\ NumPages(cs[i].index) = Len(cs[i].pages) /\ NumPages(cs[i].index) \in Nat
         /\ OrderHolds(cs[i].index)
         /\ \A j \in 1 .. NumPages(cs[i].index) :
              /\ cs[i].index.min[j].value \in Seq(Int) /\ cs[i].index.max[j].value \in Seq(Int)
              /\ ~cs[i].index.null[j] => AtMost(cs[i].index.min[j].value, cs[i].index.max[j].value)
  <1> DEFINE c == cs[i]
             n == Len(c.pages)
             x == c.index
  <1>1. c \in ChunksOf(k) /\ ChunkHolds(k, c, offsets(cs, i - 1))
    BY DEF ChunksHold
  <1>2. n \in Nat /\ x.min \in Seq(Values) /\ x.max \in Seq(Values)
    BY <1>1, ChunkType
  <1>3. NumPages(x) = n /\ Len(x.min) = n /\ Len(x.max) = n /\ OrderHolds(x)
    BY <1>1 DEF ChunkHolds, NumPages
  <1>4. ASSUME NEW j \in 1 .. n PROVE ~x.null[j] => AtMost(x.min[j].value, x.max[j].value)
    BY <1>1 DEF ChunkHolds, EntryCovers
  <1> HIDE DEF x, c, n
  <1>5. ASSUME NEW j \in 1 .. n PROVE x.min[j].value \in Seq(Int) /\ x.max[j].value \in Seq(Int)
    <2> DEFINE a == x.min
               b == x.max
    <2>1. a \in Seq(Values) /\ b \in Seq(Values) /\ Len(a) = n /\ Len(b) = n
      BY <1>2, <1>3
    <2> HIDE DEF a, b
    <2>2. a[j] \in Values /\ b[j] \in Values
      BY <2>1
    <2> QED BY <2>2 DEF Values, a, b
  <1> QED BY <1>2, <1>3, <1>4, <1>5 DEF x, c, n

\* The bounds of an ascending chunk lie between them.
LEMMA ChunkSpan ==
  ASSUME NEW k \in IndexKinds, NEW cs, ChunksHold(k, cs), NEW i \in 1 .. Len(cs),
         cs[i].index.order = "Ascending",
         NEW j \in 1 .. NumPages(cs[i].index), ~cs[i].index.null[j]
  PROVE  /\ Lowest(cs, i) \in Seq(Int) /\ Highest(cs, i) \in Seq(Int)
         /\ AtMost(Lowest(cs, i), cs[i].index.min[j].value)
         /\ AtMost(cs[i].index.max[j].value, Highest(cs, i))
         /\ AtMost(Lowest(cs, i), Highest(cs, i))
  <1> DEFINE x == cs[i].index
             n == NumPages(x)
             F == FirstBounded(x)
             L == LastBounded(x)
  <1>1. /\ n \in Nat /\ OrderHolds(x)
        /\ \A y \in 1 .. n : /\ x.min[y].value \in Seq(Int) /\ x.max[y].value \in Seq(Int)
                             /\ ~x.null[y] => AtMost(x.min[y].value, x.max[y].value)
    BY ChunkEntry
  <1>2. HasBounds(x)
    BY DEF HasBounds
  <1>3. /\ F \in 1 .. n /\ ~x.null[F] /\ L \in 1 .. n /\ ~x.null[L] /\ F <= j /\ j <= L
        /\ j \in 1 .. n /\ ~x.null[j]
    BY <1>1, <1>2, BoundedAre
  <1>4. x.order = "Ascending" /\ n = Len(x.null)
    BY DEF NumPages
  <1> HIDE DEF x, n, F, L
  <1>5. \A y, z \in 1 .. n : y < z /\ ~x.null[y] /\ ~x.null[z] =>
           AtMost(x.min[y].value, x.min[z].value) /\ AtMost(x.max[y].value, x.max[z].value)
    BY <1>1, <1>4 DEF OrderHolds, Rises
  <1>6. AtMost(x.min[F].value, x.min[j].value)
    BY <1>1, <1>3, <1>5, AtMostIs
  <1>7. AtMost(x.max[j].value, x.max[L].value)
    BY <1>1, <1>3, <1>5, AtMostIs
  <1>8. AtMost(x.min[F].value, x.max[L].value)
    BY <1>1, <1>3, <1>6, <1>7, AtMostTransitive
  <1>9. x.min[F].value \in Seq(Int) /\ x.max[L].value \in Seq(Int)
    BY <1>1, <1>3
  <1> QED BY <1>6, <1>7, <1>8, <1>9 DEF Lowest, Highest, x, F, L

\* Every chunk from i to h has bounds.
AllBounded(cs, i, h) == \A x \in i .. h : HasBounds(cs[x].index)

\* An ascending index of chunks with bounds goes up from chunk to chunk.
LEMMA SpansRise ==
  ASSUME NEW k \in IndexKinds, NEW cs, ChunksHold(k, cs), multiIsAscending(cs),
         NEW i \in 1 .. Len(cs), NEW h \in i + 1 .. Len(cs), AllBounded(cs, i, h)
  PROVE  AtMost(Highest(cs, i), Lowest(cs, h))
  <1> DEFINE n == Len(cs)
             Stage(d) == (i + 1) + d <= h => AtMost(Highest(cs, i), Lowest(cs, (i + 1) + d))
             Stages == {d \in Nat : Stage(d)}
  <1>0. n \in Nat /\ DOMAIN cs = 1 .. n
    BY DEF ChunksHold
  <1>1. ASSUME NEW x \in i .. h
        PROVE  /\ x \in 1 .. n /\ Lowest(cs, x) \in Seq(Int) /\ Highest(cs, x) \in Seq(Int)
               /\ AtMost(Lowest(cs, x), Highest(cs, x))
               /\ LastBounded(cs[x].index) > 0 /\ FirstBounded(cs[x].index) > 0
    <2>1. x \in 1 .. n /\ HasBounds(cs[x].index) /\ cs[x].index.order = "Ascending"
      BY <1>0 DEF AllBounded, multiIsAscending
    <2>2. PICK j \in 1 .. NumPages(cs[x].index) : ~cs[x].index.null[j]
      BY <2>1 DEF HasBounds
    <2>3. NumPages(cs[x].index) \in Nat
      BY <2>1, ChunkEntry
    <2>4. LastBounded(cs[x].index) > 0 /\ FirstBounded(cs[x].index) > 0
      BY <2>1, <2>3, BoundedAre
    <2> QED BY <2>1, <2>2, <2>4, ChunkSpan
  <1>2. ASSUME NEW x \in 1 .. n - 1, x \in i .. h, x + 1 \in i .. h
        PROVE  AtMost(Highest(cs, x), Lowest(cs, x + 1))
    BY <1>1, <1>2 DEF multiIsAscending, AtMost, Highest, Lowest
  <1>3. Stage(0)
    BY <1>0, <1>2
  <1>4. ASSUME NEW d \in Nat, Stage(d) PROVE Stage(d + 1)
    <2> DEFINE x == (i + 1) + d
    <2> SUFFICES ASSUME (i + 1) + (d + 1) <= h PROVE AtMost(Highest(cs, i), Lowest(cs, (i + 1) + (d + 1)))
      OBVIOUS
    <2>1. /\ x \in 1 .. n - 1 /\ x \in i .. h /\ x + 1 \in i .. h /\ (i + 1) + (d + 1) = x + 1
          /\ i \in i .. h /\ x <= h
      BY <1>0
    <2>2. AtMost(Highest(cs, i), Lowest(cs, x))
      BY <1>4, <2>1
    <2> HIDE DEF x
    <2> DEFINE a == Highest(cs, i)
               b == Lowest(cs, x)
               c == Highest(cs, x)
               e == Lowest(cs, x + 1)
    <2>3. a \in Seq(Int) /\ b \in Seq(Int) /\ c \in Seq(Int) /\ e \in Seq(Int)
      BY <1>1, <2>1
    <2>4. AtMost(a, b) /\ AtMost(b, c) /\ AtMost(c, e)
      BY <1>1, <1>2, <2>1, <2>2
    <2> HIDE DEF a, b, c, e
    <2>5. AtMost(a, c)
      BY <2>3, <2>4, AtMostTransitive
    <2>6. AtMost(a, e)
      BY <2>3, <2>4, <2>5, AtMostTransitive
    <2> QED BY <2>1, <2>6 DEF a, e
  <1> HIDE DEF Stage
  <1>5. Stages \in SUBSET Nat /\ 0 \in Stages /\ \A d \in Stages : d + 1 \in Stages
    BY <1>3, <1>4
  <1> HIDE DEF Stages
  <1>6. h - (i + 1) \in Nat /\ (i + 1) + (h - (i + 1)) = h /\ h <= h
    BY <1>0
  <1>7. Stage(h - (i + 1))
    BY <1>5, <1>6, SetInduction DEF Stages
  <1> QED BY <1>6, <1>7 DEF Stage

\* A page before another one is in the same chunk or in one before it.
LEMMA PlacesOrdered ==
  ASSUME NEW k \in IndexKinds, NEW cs, ChunksHold(k, cs), NEW p \in Int, NEW q \in Int, p < q,
         NEW i, NEW j, IsAt(cs, p, i, j), NEW h, NEW l, IsAt(cs, q, h, l)
  PROVE  i < h \/ (i = h /\ j < l)
  <1> DEFINE n == Len(cs)
             w == PagesIn(cs)
  <1>1. cs \in Seq(ChunksOf(k))
    BY DEF ChunksHold
  <1>2. n \in Nat
    BY <1>1
  <1>3. Weighs(w, n) /\ \A x \in 0 .. n : offsets(cs, x) = Total(w, x) /\ Total(w, x) \in Nat
    BY <1>1, <1>2, PagesUpTo
  <1>4. \A x \in 1 .. n : w[x] = Len(cs[x].pages)
    BY AllPagesAre
  <1>5. /\ i \in 1 .. n /\ j \in 1 .. Len(cs[i].pages) /\ p = offsets(cs, i - 1) + j
        /\ h \in 1 .. n /\ l \in 1 .. Len(cs[h].pages) /\ q = offsets(cs, h - 1) + l
    BY DEF IsAt
  <1> HIDE DEF w, n
  <1>6. i \in 0 .. n /\ i - 1 \in 0 .. n /\ h \in 0 .. n /\ h - 1 \in 0 .. n /\ h > 0 /\ i > 0
    BY <1>2, <1>5
  <1>7. ~(h < i)
    <2> SUFFICES ASSUME h < i PROVE FALSE
      OBVIOUS
    <2>1. i - 1 \in h .. n
      BY <1>2, <1>5
    <2>2. Total(w, h) <= Total(w, i - 1)
      BY <1>2, <1>3, <1>6, <2>1, TotalRises
    <2>3. Total(w, h) = Total(w, h - 1) + w[h] /\ w[h] \in Nat
      BY <1>2, <1>3, <1>5, <1>6, TotalPart DEF Weighs
    <2>4. q <= Total(w, h)
      <3>1. w[h] = Len(cs[h].pages) /\ offsets(cs, h - 1) = Total(w, h - 1) /\ Total(w, h - 1) \in Nat
        BY <1>3, <1>4, <1>5, <1>6
      <3>2. q = Total(w, h - 1) + l /\ l \in 1 .. w[h]
        BY <1>5, <3>1
      <3> QED BY <2>3, <3>1, <3>2
    <2>5. p > Total(w, i - 1)
      BY <1>3, <1>5, <1>6
    <2>6. Total(w, h) \in Nat /\ Total(w, i - 1) \in Nat
      BY <1>3, <1>6
    <2> QED BY <2>2, <2>4, <2>5, <2>6
  <1>8. i = h => j < l
    <2> SUFFICES ASSUME i = h PROVE j < l
      OBVIOUS
    <2>1. offsets(cs, i - 1) \in Nat
      BY <1>3, <1>6
    <2>2. j \in Int /\ l \in Int
      BY <1>5
    <2> QED BY <1>5, <2>1, <2>2
  <1> QED BY <1>2, <1>5, <1>7, <1>8

\* The bounds rise from page to page, where every chunk between them has some.
LEMMA MultiRises ==
  ASSUME NEW k \in IndexKinds, NEW cs, ChunksHold(k, cs), multiColumnIndex(cs).order = "Ascending",
         NEW p \in 1 .. Len(PagesOfAll(cs)), ~multiColumnIndex(cs).null[p],
         NEW q \in 1 .. Len(PagesOfAll(cs)), ~multiColumnIndex(cs).null[q], p < q,
         NEW i, NEW j, IsAt(cs, p, i, j), NEW h, NEW l, IsAt(cs, q, h, l),
         AllBounded(cs, i, h)
  PROVE  Rises(multiColumnIndex(cs), p, q)
  <1> DEFINE m == multiColumnIndex(cs)
             x == cs[i].index
             y == cs[h].index
  <1>1. IsEntry(cs, m, p, i, j) /\ IsEntry(cs, m, q, h, l)
    BY EntryAt
  <1>2. /\ m.min[p] = x.min[j] /\ m.max[p] = x.max[j] /\ ~x.null[j] /\ x.order = "Ascending"
        /\ m.min[q] = y.min[l] /\ m.max[q] = y.max[l] /\ ~y.null[l] /\ y.order = "Ascending"
    BY <1>1 DEF IsEntry
  <1>3. i < h \/ (i = h /\ j < l)
    BY PlacesOrdered
  <1>4. i \in 1 .. Len(cs) /\ h \in 1 .. Len(cs) /\ j \in 1 .. Len(cs[i].pages) /\ l \in 1 .. Len(cs[h].pages)
    BY DEF IsAt
  <1>5. multiIsAscending(cs)
    BY DEF multiColumnIndex
  <1>6. /\ OrderHolds(x) /\ j \in 1 .. NumPages(x) /\ l \in 1 .. NumPages(y)
        /\ x.min[j].value \in Seq(Int) /\ x.max[j].value \in Seq(Int)
        /\ AtMost(x.min[j].value, x.max[j].value)
        /\ y.min[l].value \in Seq(Int) /\ y.max[l].value \in Seq(Int)
        /\ AtMost(y.min[l].value, y.max[l].value)
    BY <1>2, <1>4, ChunkEntry
  <1> HIDE DEF m
  <1>7. CASE i < h
    <2> DEFINE a == x.max[j].value
               b == Highest(cs, i)
               c == Lowest(cs, h)
               d == y.min[l].value
               e == x.min[j].value
               g == y.max[l].value
    <2>1. h \in i + 1 .. Len(cs)
      BY <1>4, <1>7
    <2>2. AtMost(b, c)
      BY <1>4, <1>5, <2>1, SpansRise
    <2>3. b \in Seq(Int) /\ AtMost(a, b)
      BY <1>2, <1>4, <1>6, ChunkSpan
    <2>4. c \in Seq(Int) /\ AtMost(c, d)
      BY <1>2, <1>4, <1>6, ChunkSpan
    <2>5. /\ a \in Seq(Int) /\ d \in Seq(Int) /\ e \in Seq(Int) /\ g \in Seq(Int)
          /\ AtMost(e, a) /\ AtMost(d, g)
      BY <1>6
    <2> HIDE DEF a, b, c, d, e, g
    <2>6. AtMost(a, c)
      BY <2>2, <2>3, <2>4, <2>5, AtMostTransitive
    <2>7. AtMost(a, d)
      BY <2>4, <2>5, <2>6, AtMostTransitive
    <2>8. AtMost(e, d)
      BY <2>5, <2>7, AtMostTransitive
    <2>9. AtMost(a, g)
      BY <2>5, <2>7, AtMostTransitive
    <2>10. m.min[p].value = e /\ m.max[p].value = a /\ m.min[q].value = d /\ m.max[q].value = g
      BY <1>2 DEF a, d, e, g
    <2> QED BY <2>8, <2>9, <2>10 DEF Rises, m
  <1>8. CASE i = h /\ j < l
    <2>1. Rises(x, j, l)
      <3>1. j \in 1 .. Len(x.null) /\ l \in 1 .. Len(x.null)
        BY <1>6, <1>8 DEF NumPages
      <3>2. ~x.null[l]
        BY <1>2, <1>8
      <3> HIDE DEF x
      <3> QED BY <1>2, <1>6, <1>8, <3>1, <3>2 DEF OrderHolds
    <2>2. m.min[q] = x.min[l] /\ m.max[q] = x.max[l]
      BY <1>2, <1>8
    <2> HIDE DEF x
    <2> QED BY <1>2, <2>1, <2>2 DEF Rises, m
  <1> QED BY <1>3, <1>7, <1>8

\* One chunk in descending order.
LEMMA SingleFalls ==
  ASSUME NEW k \in IndexKinds, NEW cs, ChunksHold(k, cs), multiColumnIndex(cs).order = "Descending",
         Len(cs) = 1,
         NEW p \in 1 .. Len(PagesOfAll(cs)), ~multiColumnIndex(cs).null[p],
         NEW q \in 1 .. Len(PagesOfAll(cs)), ~multiColumnIndex(cs).null[q], p < q
  PROVE  Rises(multiColumnIndex(cs), q, p)
  <1> DEFINE m == multiColumnIndex(cs)
  <1>1. PICK i, j : IsAt(cs, p, i, j)
    BY PageAt
  <1>2. PICK h, l : IsAt(cs, q, h, l)
    BY PageAt
  <1> DEFINE x == cs[i].index
  <1>3. IsEntry(cs, m, p, i, j) /\ IsEntry(cs, m, q, h, l)
    BY <1>1, <1>2, EntryAt
  <1>4. i = 1 /\ h = 1 /\ j \in 1 .. Len(cs[i].pages) /\ l \in 1 .. Len(cs[h].pages)
    BY <1>1, <1>2 DEF IsAt
  <1>5. j < l
    BY <1>1, <1>2, <1>4, PlacesOrdered
  <1>6. /\ m.min[p] = x.min[j] /\ m.max[p] = x.max[j] /\ ~x.null[j] /\ x.order = "Descending"
        /\ m.min[q] = x.min[l] /\ m.max[q] = x.max[l] /\ ~x.null[l]
    BY <1>3, <1>4 DEF IsEntry
  <1>7. OrderHolds(x) /\ j \in 1 .. Len(x.null) /\ l \in 1 .. Len(x.null)
    BY <1>4, ChunkEntry DEF NumPages
  <1> HIDE DEF x, m
  <1>8. Rises(x, l, j)
    BY <1>5, <1>6, <1>7 DEF OrderHolds
  <1> QED BY <1>6, <1>8 DEF Rises, m

-----------------------------------------------------------------------------
(* What Search returns.                                                     *)

\* Below and Above, by the bounds of the page.
LEMMA BelowIs ==
  ASSUME NEW m, NEW v \in Seq(Int), NEW p, ValuesAt(m, p)
  PROVE  /\ m.min[p].null => Below(m, v, p)
         /\ ~m.min[p].null => (Below(m, v, p) <=> ~AtMost(m.min[p].value, v))
         /\ m.max[p].null => ~Above(m, v, p)
         /\ ~m.max[p].null => (Above(m, v, p) <=> ~AtMost(v, m.max[p].value))
  <1> DEFINE a == m.min[p]
             b == m.max[p]
  <1>1. a.value \in Seq(Int) /\ b.value \in Seq(Int)
    BY DEF ValuesAt, Values
  <1>2. /\ Below(m, v, p) <=> IF a.null THEN -1 < 0 ELSE Compare(v, a.value) < 0
        /\ Above(m, v, p) <=> IF b.null THEN -1 > 0 ELSE Compare(v, b.value) > 0
    <2>1. Some(v).null = FALSE /\ Some(v).value = v
      BY DEF Some
    <2>2. CompareNullsLast(Some(v), a) = IF a.null THEN -1 ELSE Compare(v, a.value)
      BY <2>1 DEF CompareNullsLast
    <2>3. CompareNullsLast(Some(v), b) = IF b.null THEN -1 ELSE Compare(v, b.value)
      BY <2>1 DEF CompareNullsLast
    <2>4. Below(m, v, p) <=> CompareNullsLast(Some(v), a) < 0
      BY DEF Below
    <2>5. Above(m, v, p) <=> CompareNullsLast(Some(v), b) > 0
      BY DEF Above
    <2> HIDE DEF a, b
    <2> QED BY <2>2, <2>3, <2>4, <2>5
  <1> HIDE DEF a, b
  <1>3. Compare(v, a.value) < 0 <=> ~AtMost(a.value, v)
    BY <1>1, AtMostIs
  <1>4. Compare(v, b.value) > 0 <=> ~AtMost(v, b.value)
    BY <1>1, AtMostIs
  <1> QED BY <1>2, <1>3, <1>4 DEF a, b

\* The index shows a page that holds the value.
LEMMA PageSeen ==
  ASSUME NEW k \in IndexKinds, NEW m, NEW p, NEW page, NEW v \in Seq(Int),
         PageOK(k, page), EntryCovers(k, m, p, page), ValuesAt(m, p),
         Holds(page, v), ~CutTop(k, page)
  PROVE  ~Below(m, v, p) /\ ~Above(m, v, p)
  <1> DEFINE a == m.min[p].value
             b == m.max[p].value
             c == page.min.value
             d == page.max.value
  <1>1. ~page.min.null /\ AtMost(c, v) /\ AtMost(v, d)
    BY DEF Holds, AtMost
  <1>2. c \in Seq(Int) /\ d \in Seq(Int)
    BY <1>1 DEF PageOK, BoundsOK
  <1>3. ~m.min[p].null /\ ~m.max[p].null /\ AtMost(a, c) /\ AtMost(d, b)
    BY <1>1 DEF EntryCovers
  <1>4. a \in Seq(Int) /\ b \in Seq(Int)
    BY DEF ValuesAt, Values
  <1> HIDE DEF a, b, c, d
  <1>5. AtMost(a, v) /\ AtMost(v, b)
    BY <1>1, <1>2, <1>3, <1>4, AtMostTransitive
  <1> QED BY <1>3, <1>5, BelowIs DEF a, b

\* No null page comes before a page with values.
NullsLast(all) == \A p, q \in 1 .. Len(all) : p < q /\ all[p].min.null => all[q].min.null

\* What Search promises of the pages of all chunks.
FindsFirst(k, cs, v) ==
    LET m == multiColumnIndex(cs)
        all == PagesOfAll(cs)
        found == Search(m, v)
    IN  /\ \A p \in 1 .. found - 1 : ~Holds(all[p], v) \/ CutTop(k, all[p])
        /\ found <= Len(all) => ~Below(m, v, found) /\ ~Above(m, v, found)

\* linearSearch keeps the promise of Search.
LEMMA LinearSearchFinds ==
  ASSUME NEW k \in IndexKinds, NEW cs, ChunksHold(k, cs), NEW v \in Seq(Int),
         multiColumnIndex(cs).order # "Ascending"
  PROVE  FindsFirst(k, cs, v)
  <1> DEFINE m == multiColumnIndex(cs)
             all == PagesOfAll(cs)
             n == Len(all)
             found == linearSearch(m, v)
  <1>1. /\ NumPages(m) = n /\ n \in Nat
        /\ \A p \in 1 .. n : PageOK(k, all[p]) /\ EntryCovers(k, m, p, all[p]) /\ ValuesAt(m, p)
    BY MultiCovers
  <1>2. Search(m, v) = found
    BY DEF Search
  <1> HIDE DEF m, all, n
  <1>3. /\ found \in 1 .. n + 1
        /\ \A p \in 1 .. found - 1 : Below(m, v, p) \/ Above(m, v, p)
        /\ found <= n => ~Below(m, v, found) /\ ~Above(m, v, found)
    BY <1>1, LinearSearchIs
  <1> HIDE DEF found
  <1>4. \A p \in 1 .. found - 1 : ~Holds(all[p], v) \/ CutTop(k, all[p])
    <2> TAKE p \in 1 .. found - 1
    <2>1. p \in 1 .. n /\ (Below(m, v, p) \/ Above(m, v, p))
      BY <1>1, <1>3
    <2> QED BY <1>1, <2>1, PageSeen
  <1> QED BY <1>2, <1>3, <1>4 DEF FindsFirst, m, all, n

\* With null pages last, the bounds of an ascending index go up.
LEMMA AscendingRises ==
  ASSUME NEW k \in IndexKinds, NEW cs, ChunksHold(k, cs), multiColumnIndex(cs).order = "Ascending",
         NullsLast(PagesOfAll(cs)),
         NEW p \in 1 .. Len(PagesOfAll(cs)),
         NEW q \in 1 .. Len(PagesOfAll(cs)), ~PagesOfAll(cs)[q].min.null, p < q
  PROVE  ~PagesOfAll(cs)[p].min.null /\ Rises(multiColumnIndex(cs), p, q)
  <1> DEFINE m == multiColumnIndex(cs)
             all == PagesOfAll(cs)
  <1>1. ~all[p].min.null
    BY DEF NullsLast
  <1>2. PICK i, j : IsAt(cs, p, i, j)
    BY PageAt
  <1>3. PICK h, l : IsAt(cs, q, h, l)
    BY PageAt
  <1>4. ~m.null[p] /\ ~m.null[q]
    BY <1>1, MultiCovers DEF EntryCovers
  <1>5. AllBounded(cs, i, h)
    <2> SUFFICES ASSUME NEW x \in i .. h PROVE HasBounds(cs[x].index)
      BY DEF AllBounded
    <2>1. i \in 1 .. Len(cs) /\ h \in 1 .. Len(cs) /\ l \in 1 .. Len(cs[h].pages) /\ q = offsets(cs, h - 1) + l
          /\ all[q] = cs[h].pages[l]
      BY <1>2, <1>3 DEF IsAt
    <2>2. cs \in Seq(ChunksOf(k)) /\ Len(cs) \in Nat
      BY DEF ChunksHold
    <2>3. x \in 1 .. Len(cs)
      BY <2>1, <2>2
    <2> DEFINE c == cs[x]
    <2>4. c \in ChunksOf(k) /\ ChunkHolds(k, c, offsets(cs, x - 1))
      BY <2>3 DEF ChunksHold
    <2>5. /\ Len(c.pages) \in Nat /\ c.pages # << >> /\ NumPages(c.index) = Len(c.pages)
          /\ \A y \in 1 .. Len(c.pages) : c.index.null[y] = c.pages[y].min.null
      BY <2>4, ChunkType DEF ChunkHolds, EntryCovers, NumPages
    <2>6. CASE x = h
      BY <2>1, <2>5, <2>6 DEF HasBounds
    <2>7. CASE x # h
      <3>1. x < h
        BY <2>1, <2>2, <2>7
      <3>2. 1 \in 1 .. Len(c.pages)
        <4>1. Len(c.pages) # 0
          <5> DEFINE s == c.pages
                     Pages == PagesOf(k)
          <5>1. s \in Seq(Pages) /\ s # << >>
            BY <2>4, <2>5, ChunkType
          <5> HIDE DEF s, Pages
          <5>2. Len(s) # 0
            BY <5>1
          <5> QED BY <5>2 DEF s
        <4> QED BY <2>5, <4>1
      <3> DEFINE f == offsets(cs, x - 1) + 1
      <3>3. f < q /\ f \in 1 .. Len(all)
        <4> DEFINE w == PagesIn(cs)
        <4>1. x - 1 \in 0 .. Len(cs) /\ x \in 0 .. Len(cs) /\ h - 1 \in 0 .. Len(cs) /\ h - 1 \in x .. Len(cs) /\ x > 0
          BY <2>1, <2>2, <2>3, <3>1
        <4>2. /\ Weighs(w, Len(cs)) /\ offsets(cs, x - 1) = Total(w, x - 1) /\ offsets(cs, h - 1) = Total(w, h - 1)
              /\ Total(w, x - 1) \in Nat /\ Total(w, x) \in Nat /\ Total(w, h - 1) \in Nat
          BY <2>2, <4>1, PagesUpTo
        <4>3. w[x] = Len(c.pages)
          BY <2>3, AllPagesAre
        <4> HIDE DEF w
        <4>4. Total(w, x) <= Total(w, h - 1)
          BY <2>2, <4>1, <4>2, TotalRises
        <4>5. Total(w, x) = Total(w, x - 1) + w[x]
          BY <2>2, <4>1, <4>2, TotalPart
        <4>6. Total(w, x - 1) + 1 <= Total(w, h - 1)
          BY <2>5, <3>2, <4>2, <4>3, <4>4, <4>5
        <4>7. q = Total(w, h - 1) + l /\ l \in Nat /\ l > 0
          BY <2>1, <4>2
        <4>8. f = Total(w, x - 1) + 1
          BY <4>2
        <4> HIDE DEF f
        <4> QED BY <4>2, <4>6, <4>7, <4>8
      <3>4. all[f] = c.pages[1]
        BY <2>3, <3>2, AllPagesAre
      <3> HIDE DEF f
      <3>5. ~all[f].min.null
        BY <3>3 DEF NullsLast
      <3>6. ~c.index.null[1] /\ 1 \in 1 .. NumPages(c.index)
        BY <2>5, <3>2, <3>4, <3>5
      <3> QED BY <3>6 DEF HasBounds
    <2> QED BY <2>6, <2>7
  <1> QED BY <1>1, <1>2, <1>3, <1>4, <1>5, MultiRises

\* binarySearch keeps the promise of Search where null pages come last.
LEMMA BinarySearchFinds ==
  ASSUME NEW k \in IndexKinds, NEW cs, ChunksHold(k, cs), NEW v \in Seq(Int),
         multiColumnIndex(cs).order = "Ascending", NullsLast(PagesOfAll(cs))
  PROVE  FindsFirst(k, cs, v)
  <1> DEFINE m == multiColumnIndex(cs)
             all == PagesOfAll(cs)
             n == Len(all)
  <1>1. /\ NumPages(m) = n /\ n \in Nat
        /\ \A p \in 1 .. n : PageOK(k, all[p]) /\ EntryCovers(k, m, p, all[p]) /\ ValuesAt(m, p)
    BY MultiCovers
  <1>2. Search(m, v) = binarySearch(m, v)
    BY DEF Search
  <1>3. \A p, q \in 1 .. n : p < q /\ ~all[q].min.null => ~all[p].min.null /\ Rises(m, p, q)
    BY AscendingRises
  <1>4. m.order = "Ascending"
    OBVIOUS
  <1> HIDE DEF m, all, n
  \* A null page has no bounds, and is never behind the value.
  <1>5. ASSUME NEW p \in 1 .. n
        PROVE  /\ m.min[p].value \in Seq(Int) /\ m.max[p].value \in Seq(Int)
               /\ all[p].min.null => Below(m, v, p) /\ ~Above(m, v, p)
               /\ ~all[p].min.null => /\ Below(m, v, p) <=> ~AtMost(m.min[p].value, v)
                                      /\ Above(m, v, p) <=> ~AtMost(v, m.max[p].value)
                                      /\ AtMost(m.min[p].value, m.max[p].value)
    <2>1. ValuesAt(m, p) /\ EntryCovers(k, m, p, all[p])
      BY <1>1
    <2>2. m.min[p].value \in Seq(Int) /\ m.max[p].value \in Seq(Int)
      BY <2>1 DEF ValuesAt, Values
    <2>3. /\ all[p].min.null => m.min[p].null /\ m.max[p].null
          /\ ~all[p].min.null => /\ ~m.min[p].null /\ ~m.max[p].null
                                 /\ AtMost(m.min[p].value, m.max[p].value)
      BY <1>4, <2>1 DEF EntryCovers
    <2>4. /\ m.min[p].null => Below(m, v, p)
          /\ ~m.min[p].null => (Below(m, v, p) <=> ~AtMost(m.min[p].value, v))
          /\ m.max[p].null => ~Above(m, v, p)
          /\ ~m.max[p].null => (Above(m, v, p) <=> ~AtMost(v, m.max[p].value))
      BY <2>1, BelowIs
    <2> QED BY <2>2, <2>3, <2>4
  <1>6. ASSUME NEW p \in 1 .. n
        PROVE  Behind(m, v, p) <=> ~all[p].min.null /\ ~AtMost(v, m.max[p].value)
    <2> DEFINE a == m.min[p].value
               b == m.max[p].value
    <2>1. /\ a \in Seq(Int) /\ b \in Seq(Int)
          /\ all[p].min.null => ~Above(m, v, p)
          /\ ~all[p].min.null => /\ Below(m, v, p) <=> ~AtMost(a, v)
                                 /\ Above(m, v, p) <=> ~AtMost(v, b)
                                 /\ AtMost(a, b)
      BY <1>5
    <2> HIDE DEF a, b
    <2>2. ~AtMost(v, b) => AtMost(b, v)
      BY <2>1, AtMostIs
    <2>3. AtMost(a, b) /\ AtMost(b, v) => AtMost(a, v)
      BY <2>1, AtMostTransitive
    <2> QED BY <2>1, <2>2, <2>3 DEF Behind, b
  <1>7. ASSUME NEW p \in 1 .. n, NEW q \in 1 .. n, p <= q, Behind(m, v, q) PROVE Behind(m, v, p)
    <2>1. CASE p = q
      BY <1>7, <2>1
    <2>2. CASE p # q
      <3> DEFINE a == m.max[p].value
                 b == m.max[q].value
      <3>1. p < q /\ ~all[q].min.null /\ ~AtMost(v, b)
        BY <1>6, <1>7, <2>2
      <3>2. ~all[p].min.null /\ AtMost(a, b)
        BY <1>3, <3>1 DEF Rises
      <3>3. a \in Seq(Int) /\ b \in Seq(Int)
        BY <1>5
      <3> HIDE DEF a, b
      <3>4. AtMost(v, a) => AtMost(v, b)
        BY <3>2, <3>3, AtMostTransitive
      <3> QED BY <1>6, <3>1, <3>2, <3>4 DEF a
    <2> QED BY <2>1, <2>2
  <1>8. PICK first \in 0 .. n : BehindFirst(m, v, n, first)
    BY <1>1, <1>7, PrefixEnds
  <1> DEFINE next == first + 1
             found == binarySearch(m, v)
  <1>9. found = IF next <= n /\ (Below(m, v, next) \/ Above(m, v, next)) THEN n + 1 ELSE next
    BY <1>1, <1>8, BinarySearchIs
  <1>10. ASSUME NEW p \in 1 .. n, Holds(all[p], v), ~CutTop(k, all[p])
         PROVE  ~all[p].min.null /\ ~Below(m, v, p) /\ ~Above(m, v, p)
    BY <1>1, <1>10, PageSeen DEF Holds
  <1>11. next \in 1 .. n + 1 /\ \A p \in 1 .. n : Behind(m, v, p) <=> p < next
    BY <1>1, <1>8 DEF BehindFirst
  <1> HIDE DEF next, found
  <1>12. found \in 1 .. n + 1 /\ (found <= n => ~Below(m, v, found) /\ ~Above(m, v, found))
    BY <1>1, <1>9, <1>11
  <1>13. ASSUME NEW p \in 1 .. n, p < found, Holds(all[p], v), ~CutTop(k, all[p]) PROVE FALSE
    <2>1. ~all[p].min.null /\ ~Below(m, v, p) /\ ~Above(m, v, p)
      BY <1>10, <1>13
    <2>2. ~(p < next)
      <3>1. ~Behind(m, v, p)
        BY <2>1 DEF Behind
      <3> QED BY <1>11, <3>1
    \* The search gave up at the page after those it left behind.
    <2>3. next \in 1 .. n /\ next <= p /\ (Below(m, v, next) \/ Above(m, v, next))
      BY <1>1, <1>9, <1>11, <1>13, <2>2
    <2>4. Below(m, v, next) /\ next # p
      BY <1>11, <2>1, <2>3 DEF Behind
    <2>5. next < p
      BY <1>11, <2>3, <2>4
    <2>6. ~all[next].min.null /\ Rises(m, next, p)
      BY <1>3, <2>1, <2>3, <2>5
    <2> DEFINE a == m.min[next].value
               b == m.min[p].value
    <2>7. a \in Seq(Int) /\ b \in Seq(Int) /\ AtMost(a, b)
      BY <1>5, <2>3, <2>6 DEF Rises
    <2>8. ~AtMost(a, v) /\ AtMost(b, v)
      BY <1>5, <2>1, <2>3, <2>4, <2>6
    <2> HIDE DEF a, b
    <2> QED BY <2>7, <2>8, AtMostTransitive
  <1>14. \A p \in 1 .. found - 1 : ~Holds(all[p], v) \/ CutTop(k, all[p])
    <2> TAKE p \in 1 .. found - 1
    <2>1. p \in 1 .. n /\ p < found
      BY <1>1, <1>12
    <2> QED BY <1>13, <2>1
  <1>15. found = Search(m, v)
    BY <1>2 DEF found
  <1> QED BY <1>12, <1>14, <1>15 DEF FindsFirst, m, all, n

-----------------------------------------------------------------------------
(* The column indexer.                                                      *)

\* The bounds of every page are recorded, null ones as a value of the type: the
\* indexers of fixed length and 128-bit columns drop them (column_index.go), so
\* that the bounds of the pages after a null page become those of another page.
BoundsRecorded == WritePageBounds /\ NullPageKinds \cap {"fixedLen", "be128"} = {}

\* What the indexer keeps of a bound.
BoundValue(k, b) == IF b.null /\ k # "byteArray" THEN <<0>> ELSE b.value

Indexers == [nullPages : Seq(BOOLEAN), nullCounts : Seq(Nat),
             minValues : Seq(Seq(Int)), maxValues : Seq(Seq(Int))]

\* The indexer has seen the pages ps.
IndexerHolds(k, i, ps) ==
    /\ i \in Indexers
    /\ Len(i.nullPages) = Len(ps) /\ Len(i.nullCounts) = Len(ps)
    /\ \A j \in 1 .. Len(ps) : i.nullPages[j] = ps[j].min.null /\ i.nullCounts[j] = ps[j].numNulls
    /\ k = "null" => i.minValues = << >> /\ i.maxValues = << >>
    /\ k # "null" =>
         /\ Len(i.minValues) = Len(ps) /\ Len(i.maxValues) = Len(ps)
         /\ \A j \in 1 .. Len(ps) : /\ i.minValues[j] = BoundValue(k, ps[j].min)
                                    /\ i.maxValues[j] = BoundValue(k, ps[j].max)

IndexInv ==
    /\ kind \in IndexKinds
    /\ pages \in Seq(PagesOf(kind))
    /\ IndexerHolds(kind, indexer, pages)
    /\ ChunksHold(kind, chunks)

\* The bounds kept of a page are values of its column.
LEMMA BoundValueType ==
  ASSUME NEW k \in IndexKinds, BoundsRecorded, NEW page, PageOK(k, page)
  PROVE  /\ BoundValue(k, page.min) \in Seq(Int) /\ BoundValue(k, page.max) \in Seq(Int)
         /\ Bytewise(k) => /\ BoundValue(k, page.min) \in Seq(0 .. MaxByte)
                           /\ BoundValue(k, page.max) \in Seq(0 .. MaxByte)
         /\ ~page.min.null => BoundValue(k, page.min) = page.min.value /\ BoundValue(k, page.max) = page.max.value
  <1> DEFINE Byte == 0 .. MaxByte
  <1>1. <<0>> \in Seq(Int) /\ << >> \in Seq(Int) /\ << >> \in Seq(Byte)
    <2>1. 0 \in Int
      OBVIOUS
    <2> HIDE DEF Byte
    <2> QED BY <2>1
  <1> HIDE DEF Byte
  <1>2. CASE page.min.null
    <2>1. page.min = Null /\ page.max = Null /\ k \in NullPageKinds
      BY <1>2 DEF PageOK
    <2>2. Null.null = TRUE /\ Null.value = << >>
      BY DEF Null
    <2>3. Bytewise(k) => k = "byteArray"
      BY <2>1 DEF Bytewise, BoundsRecorded
    <2> QED BY <1>1, <1>2, <2>1, <2>2, <2>3 DEF BoundValue, Byte
  <1>3. CASE ~page.min.null
    BY <1>3 DEF PageOK, BoundsOK, BoundValue
  <1> QED BY <1>2, <1>3

\* What AppendBound adds.
LEMMA AppendBoundIs ==
  ASSUME NEW k \in IndexKinds, NEW bounds, NEW b, k \in {"fixedLen", "be128"} => ~b.null
  PROVE  AppendBound(k, bounds, b) = IF k = "null" THEN bounds ELSE Append(bounds, BoundValue(k, b))
  <1>1. CASE k \in {"boolean", "int"}
    BY <1>1 DEF AppendBound, AppendInt, BoundValue
  <1>2. CASE k \in {"int96", "float"}
    BY <1>2 DEF AppendBound, AppendFloat, BoundValue
  <1>3. CASE k = "unsigned"
    BY <1>3 DEF AppendBound, AppendUnsigned, BoundValue
  <1>4. CASE k = "byteArray"
    BY <1>4 DEF AppendBound, AppendBytes, BoundValue
  <1>5. CASE k = "fixedLen"
    BY <1>5 DEF AppendBound, AppendFixedLen, BoundValue
  <1>6. CASE k = "be128"
    BY <1>6 DEF AppendBound, AppendBE128, BoundValue
  <1>7. CASE k = "null"
    BY <1>7 DEF AppendBound, AppendNothing
  <1> QED BY <1>1, <1>2, <1>3, <1>4, <1>5, <1>6, <1>7, IndexAssumption DEF IndexAssumption

\* IndexPage keeps one entry for the page, and does not touch the others.
LEMMA IndexPageHolds ==
  ASSUME NEW k \in IndexKinds, BoundsRecorded, NEW ps \in Seq(PagesOf(k)), NEW page \in PagesOf(k),
         NEW i, IndexerHolds(k, i, ps)
  PROVE  IndexerHolds(k, IndexPage(k, i, page), Append(ps, page))
  <1> DEFINE Pages == PagesOf(k)
             n == Len(ps)
             next == IndexPage(k, i, page)
             qs == Append(ps, page)
             low == BoundValue(k, page.min)
             high == BoundValue(k, page.max)
  <1>1. PageOK(k, page) /\ i \in Indexers
    BY PageIs DEF IndexerHolds
  <1>2. low \in Seq(Int) /\ high \in Seq(Int)
    BY <1>1, BoundValueType
  <1>3. k \in {"fixedLen", "be128"} => ~page.min.null /\ ~page.max.null
    BY <1>1 DEF PageOK, BoundsRecorded
  <1> DEFINE seen == [nullPages |-> Append(i.nullPages, page.numValues = page.numNulls),
                      nullCounts |-> Append(i.nullCounts, page.numNulls),
                      minValues |-> i.minValues, maxValues |-> i.maxValues]
             mins == AppendBound(k, i.minValues, page.min)
             maxs == AppendBound(k, i.maxValues, page.max)
  <1>4. /\ next.nullPages = Append(i.nullPages, page.numValues = page.numNulls)
        /\ next.nullCounts = Append(i.nullCounts, page.numNulls)
        /\ next.minValues = mins /\ next.maxValues = maxs
        /\ next = [nullPages |-> next.nullPages, nullCounts |-> next.nullCounts,
                   minValues |-> next.minValues, maxValues |-> next.maxValues]
    <2>1. observe(i, page.numValues, page.numNulls) = seen
      BY DEF observe
    <2>2. next = [seen EXCEPT !.minValues = AppendBound(k, @, page.min), !.maxValues = AppendBound(k, @, page.max)]
      BY <2>1 DEF IndexPage, BoundsRecorded
    <2>3. seen.minValues = i.minValues /\ seen.maxValues = i.maxValues
      OBVIOUS
    <2>4. next = [seen EXCEPT !.minValues = mins, !.maxValues = maxs]
      BY <2>2, <2>3
    <2> HIDE DEF mins, maxs, next
    <2> QED BY <2>4
  <1> HIDE DEF next, low, high
  <1>5. /\ next.minValues = IF k = "null" THEN i.minValues ELSE Append(i.minValues, low)
        /\ next.maxValues = IF k = "null" THEN i.maxValues ELSE Append(i.maxValues, high)
    <2>1. mins = IF k = "null" THEN i.minValues ELSE Append(i.minValues, low)
      BY <1>3, AppendBoundIs DEF low
    <2>2. maxs = IF k = "null" THEN i.maxValues ELSE Append(i.maxValues, high)
      BY <1>3, AppendBoundIs DEF high
    <2> HIDE DEF mins, maxs
    <2> QED BY <1>4, <2>1, <2>2
  <1> HIDE DEF seen, mins, maxs
  <1>6. /\ i.nullPages \in Seq(BOOLEAN) /\ i.nullCounts \in Seq(Nat)
        /\ i.minValues \in Seq(Seq(Int)) /\ i.maxValues \in Seq(Seq(Int))
    BY <1>1 DEF Indexers
  <1>7. (page.numValues = page.numNulls) = page.min.null /\ page.min.null \in BOOLEAN /\ page.numNulls \in Nat
    BY <1>1 DEF PageOK
  <1>8. ps \in Seq(Pages) /\ page \in Pages
    OBVIOUS
  <1> HIDE DEF Pages
  <1>9. /\ n \in Nat /\ Len(qs) = n + 1 /\ qs[n + 1] = page /\ \A j \in 1 .. n : qs[j] = ps[j]
        /\ \A j \in 1 .. n + 1 : j \in 1 .. n \/ j = n + 1
    BY <1>8
  <1> HIDE DEF qs
  <1>10. Len(i.nullPages) = n /\ Len(i.nullCounts) = n
    BY DEF IndexerHolds
  <1> HIDE DEF n
  <1> DEFINE a == i.nullPages
             b == i.nullCounts
             c == i.minValues
             d == i.maxValues
  <1>11. /\ a \in Seq(BOOLEAN) /\ b \in Seq(Nat) /\ c \in Seq(Seq(Int)) /\ d \in Seq(Seq(Int))
         /\ Len(a) = n /\ Len(b) = n
         /\ next.nullPages = Append(a, page.min.null) /\ next.nullCounts = Append(b, page.numNulls)
         /\ next.minValues = IF k = "null" THEN c ELSE Append(c, low)
         /\ next.maxValues = IF k = "null" THEN d ELSE Append(d, high)
    BY <1>4, <1>5, <1>6, <1>7, <1>10
  <1>12. /\ \A j \in 1 .. n : a[j] = ps[j].min.null /\ b[j] = ps[j].numNulls
         /\ k = "null" => c = << >> /\ d = << >>
         /\ k # "null" => /\ Len(c) = n /\ Len(d) = n
                          /\ \A j \in 1 .. n : c[j] = BoundValue(k, ps[j].min) /\ d[j] = BoundValue(k, ps[j].max)
    BY DEF IndexerHolds, n
  <1> HIDE DEF a, b, c, d
  <1>13. /\ next.nullPages \in Seq(BOOLEAN) /\ next.nullCounts \in Seq(Nat)
         /\ Len(next.nullPages) = n + 1 /\ Len(next.nullCounts) = n + 1
         /\ \A j \in 1 .. n : next.nullPages[j] = a[j] /\ next.nullCounts[j] = b[j]
         /\ next.nullPages[n + 1] = page.min.null /\ next.nullCounts[n + 1] = page.numNulls
    BY <1>7, <1>9, <1>11
  <1>14. next.minValues \in Seq(Seq(Int)) /\ next.maxValues \in Seq(Seq(Int))
    <2> DEFINE V == Seq(Int)
    <2>1. c \in Seq(V) /\ d \in Seq(V) /\ low \in V /\ high \in V
      BY <1>2, <1>11
    <2> HIDE DEF V
    <2>2. Append(c, low) \in Seq(V) /\ Append(d, high) \in Seq(V)
      BY <2>1
    <2> QED BY <1>11, <2>1, <2>2 DEF V
  <1>15. k # "null" =>
           /\ Len(next.minValues) = n + 1 /\ Len(next.maxValues) = n + 1
           /\ \A j \in 1 .. n : next.minValues[j] = c[j] /\ next.maxValues[j] = d[j]
           /\ next.minValues[n + 1] = low /\ next.maxValues[n + 1] = high
    <2> DEFINE V == Seq(Int)
    <2>1. c \in Seq(V) /\ d \in Seq(V) /\ low \in V /\ high \in V
      BY <1>2, <1>11
    <2> HIDE DEF V
    <2> QED BY <1>9, <1>11, <1>12, <2>1
  <1>16. next \in Indexers
    BY <1>4, <1>13, <1>14 DEF Indexers
  <1>17. \A j \in 1 .. n + 1 : next.nullPages[j] = qs[j].min.null /\ next.nullCounts[j] = qs[j].numNulls
    BY <1>9, <1>12, <1>13
  <1>18. k # "null" => \A j \in 1 .. n + 1 : /\ next.minValues[j] = BoundValue(k, qs[j].min)
                                             /\ next.maxValues[j] = BoundValue(k, qs[j].max)
    BY <1>9, <1>12, <1>15 DEF low, high
  <1>19. k = "null" => next.minValues = << >> /\ next.maxValues = << >>
    BY <1>11, <1>12
  <1>20. /\ Len(next.nullPages) = Len(qs) /\ Len(next.nullCounts) = Len(qs) /\ Len(qs) = n + 1
         /\ k # "null" => Len(next.minValues) = Len(qs) /\ Len(next.maxValues) = Len(qs)
    BY <1>9, <1>13, <1>15
  <1> QED BY <1>16, <1>17, <1>18, <1>19, <1>20 DEF IndexerHolds, next, qs

-----------------------------------------------------------------------------
(* The order of the bounds of a chunk.                                      *)

\* What ascends from each to the next ascends from each to any later one.
LEMMA AscendingPairs ==
  ASSUME NEW s \in Seq(Seq(Int)), Ascending(s), NEW p \in 1 .. Len(s), NEW q \in p .. Len(s)
  PROVE  AtMost(s[p], s[q])
  <1> DEFINE Stage(d) == p + d <= Len(s) => AtMost(s[p], s[p + d])
             Stages == {d \in Nat : Stage(d)}
  <1>1. Len(s) \in Nat /\ \A i \in 1 .. Len(s) : s[i] \in Seq(Int)
    OBVIOUS
  <1>2. Stage(0)
    BY AtMostIs
  <1>3. ASSUME NEW d \in Nat, Stage(d) PROVE Stage(d + 1)
    <2> DEFINE i == p + d
    <2> SUFFICES ASSUME p + (d + 1) <= Len(s) PROVE AtMost(s[p], s[p + (d + 1)])
      OBVIOUS
    <2>1. i \in 1 .. (Len(s) - 1) /\ i \in 1 .. Len(s) /\ i + 1 \in 1 .. Len(s) /\ p + (d + 1) = i + 1 /\ i <= Len(s)
      BY <1>1
    <2>2. AtMost(s[p], s[i])
      BY <1>3, <2>1
    <2> HIDE DEF i
    <2>3. AtMost(s[i], s[i + 1])
      BY <2>1 DEF Ascending, AtMost
    <2>4. s[p] \in Seq(Int) /\ s[i] \in Seq(Int) /\ s[i + 1] \in Seq(Int)
      BY <1>1, <2>1
    <2>5. AtMost(s[p], s[i + 1])
      BY <2>2, <2>3, <2>4, AtMostTransitive
    <2> QED BY <2>1, <2>5
  <1> HIDE DEF Stage
  <1>4. Stages \in SUBSET Nat /\ 0 \in Stages /\ \A d \in Stages : d + 1 \in Stages
    BY <1>2, <1>3
  <1> HIDE DEF Stages
  <1>5. q - p \in Nat /\ p + (q - p) = q /\ q <= Len(s)
    BY <1>1
  <1>6. Stage(q - p)
    BY <1>4, <1>5, SetInduction DEF Stages
  <1> QED BY <1>5, <1>6 DEF Stage

\* What descends from each to the next descends from each to any later one.
LEMMA DescendingPairs ==
  ASSUME NEW s \in Seq(Seq(Int)), Descending(s), NEW p \in 1 .. Len(s), NEW q \in p .. Len(s)
  PROVE  AtMost(s[q], s[p])
  <1> DEFINE Stage(d) == p + d <= Len(s) => AtMost(s[p + d], s[p])
             Stages == {d \in Nat : Stage(d)}
  <1>1. Len(s) \in Nat /\ \A i \in 1 .. Len(s) : s[i] \in Seq(Int)
    OBVIOUS
  <1>2. Stage(0)
    BY AtMostIs
  <1>3. ASSUME NEW d \in Nat, Stage(d) PROVE Stage(d + 1)
    <2> DEFINE i == p + d
    <2> SUFFICES ASSUME p + (d + 1) <= Len(s) PROVE AtMost(s[p + (d + 1)], s[p])
      OBVIOUS
    <2>1. i \in 1 .. (Len(s) - 1) /\ i \in 1 .. Len(s) /\ i + 1 \in 1 .. Len(s) /\ p + (d + 1) = i + 1 /\ i <= Len(s)
      BY <1>1
    <2>2. AtMost(s[i], s[p])
      BY <1>3, <2>1
    <2> HIDE DEF i
    <2>4. s[p] \in Seq(Int) /\ s[i] \in Seq(Int) /\ s[i + 1] \in Seq(Int)
      BY <1>1, <2>1
    <2>3. AtMost(s[i + 1], s[i])
      BY <2>1, <2>4, AtMostIs DEF Descending
    <2>5. AtMost(s[i + 1], s[p])
      BY <2>2, <2>3, <2>4, AtMostTransitive
    <2> QED BY <2>1, <2>5
  <1> HIDE DEF Stage
  <1>4. Stages \in SUBSET Nat /\ 0 \in Stages /\ \A d \in Stages : d + 1 \in Stages
    BY <1>2, <1>3
  <1> HIDE DEF Stages
  <1>5. q - p \in Nat /\ p + (q - p) = q /\ q <= Len(s)
    BY <1>1
  <1>6. Stage(q - p)
    BY <1>4, <1>5, SetInduction DEF Stages
  <1> QED BY <1>5, <1>6 DEF Stage

\* The boundary order is that of both lists of bounds.
LEMMA BoundaryOrderIs ==
  ASSUME NEW s, NEW t
  PROVE  /\ boundaryOrderOf(orderOf(s), orderOf(t)) \in {"Ascending", "Descending", "Unordered"}
         /\ boundaryOrderOf(orderOf(s), orderOf(t)) = "Ascending" => Ascending(s) /\ Ascending(t)
         /\ boundaryOrderOf(orderOf(s), orderOf(t)) = "Descending" => Descending(s) /\ Descending(t)
  <1>1. /\ orderOf(s) \in {-1, 0, 1} /\ (orderOf(s) = 1 => Ascending(s)) /\ (orderOf(s) = -1 => Descending(s))
        /\ orderOf(t) \in {-1, 0, 1} /\ (orderOf(t) = 1 => Ascending(t)) /\ (orderOf(t) = -1 => Descending(t))
    BY DEF orderOf
  <1> DEFINE a == orderOf(s)
             b == orderOf(t)
  <1> HIDE DEF a, b
  <1>2. /\ a \in {-1, 0, 1} /\ (a = 1 => Ascending(s)) /\ (a = -1 => Descending(s))
        /\ b \in {-1, 0, 1} /\ (b = 1 => Ascending(t)) /\ (b = -1 => Descending(t))
    BY <1>1 DEF a, b
  <1>3. boundaryOrderOf(a, b) = IF a # b \/ a = 0 THEN "Unordered" ELSE IF a > 0 THEN "Ascending" ELSE "Descending"
    BY DEF boundaryOrderOf
  <1>4. CASE a = 1 /\ b = 1
    BY <1>2, <1>3, <1>4 DEF a, b
  <1>5. CASE a = -1 /\ b = -1
    BY <1>2, <1>3, <1>5 DEF a, b
  <1>6. CASE a # b \/ a = 0
    BY <1>3, <1>6 DEF a, b
  <1> QED BY <1>2, <1>4, <1>5, <1>6

-----------------------------------------------------------------------------
(* The index of a chunk.                                                    *)

\* What ColumnIndex keeps of a bound.
MinKept(k, v) == IF Truncates(k) THEN truncateLargeMin(v) ELSE v
MaxKept(k, v) == IF Truncates(k) THEN truncateLargeMax(v) ELSE v

\* The bounds kept cover the page, unless its maximum is cut to the top.
LEMMA KeptIs ==
  ASSUME NEW k \in IndexKinds, BoundsRecorded, NEW page, PageOK(k, page)
  PROVE  /\ MinKept(k, BoundValue(k, page.min)) \in Seq(Int)
         /\ MaxKept(k, BoundValue(k, page.max)) \in Seq(Int)
         /\ ~page.min.null =>
              /\ AtMost(MinKept(k, BoundValue(k, page.min)), page.min.value)
              /\ CutTop(k, page) \/ AtMost(page.max.value, MaxKept(k, BoundValue(k, page.max)))
              /\ AtMost(MinKept(k, BoundValue(k, page.min)), MaxKept(k, BoundValue(k, page.max)))
  <1> DEFINE low == BoundValue(k, page.min)
             high == BoundValue(k, page.max)
  <1>1. /\ low \in Seq(Int) /\ high \in Seq(Int)
        /\ Bytewise(k) => low \in Seq(0 .. MaxByte) /\ high \in Seq(0 .. MaxByte)
        /\ ~page.min.null => low = page.min.value /\ high = page.max.value
    BY BoundValueType
  <1>2. ~page.min.null => AtMost(page.min.value, page.max.value) /\ ~page.max.null
    BY DEF PageOK, BoundsOK
  <1> HIDE DEF low, high
  <1>3. CASE ~Truncates(k)
    BY <1>1, <1>2, <1>3, AtMostIs DEF MinKept, MaxKept, low, high
  <1>4. CASE Truncates(k)
    <2>1. MinKept(k, low) = truncateLargeMin(low) /\ MaxKept(k, high) = truncateLargeMax(high)
      BY <1>4 DEF MinKept, MaxKept
    <2>2. low \in Seq(0 .. MaxByte) /\ high \in Seq(0 .. MaxByte)
      BY <1>1, <1>4 DEF Truncates, Bytewise
    <2>3. truncateLargeMin(low) \in Seq(Int) /\ truncateLargeMin(high) \in Seq(Int) /\ AtMost(truncateLargeMin(low), low)
      BY <1>1, CutIs, CutBelow
    <2>4. /\ truncateLargeMax(high) \in Seq(Int)
          /\ AtMost(truncateLargeMin(high), truncateLargeMax(high))
          /\ \/ AtMost(high, truncateLargeMax(high))
             \/ Len(high) > SizeLimit /\ \A i \in 1 .. SizeLimit : high[i] = MaxByte
      BY <2>2, CutCovers
    <2>5. ASSUME ~page.min.null
          PROVE  /\ AtMost(truncateLargeMin(low), truncateLargeMax(high))
                 /\ CutTop(k, page) \/ AtMost(page.max.value, truncateLargeMax(high))
      <3>1. AtMost(low, high)
        BY <1>1, <1>2, <2>5
      <3>2. AtMost(truncateLargeMin(low), truncateLargeMin(high))
        BY <1>1, <3>1, CutMonotone
      <3>3. AtMost(truncateLargeMin(low), truncateLargeMax(high))
        BY <2>3, <2>4, <3>2, AtMostTransitive
      <3>4. ~page.max.null /\ high = page.max.value
        BY <1>1, <1>2, <2>5
      <3>5. CASE AtMost(high, truncateLargeMax(high))
        BY <3>3, <3>4, <3>5
      <3>6. CASE Len(high) > SizeLimit /\ \A i \in 1 .. SizeLimit : high[i] = MaxByte
        BY <1>4, <3>3, <3>4, <3>6 DEF CutTop
      <3> QED BY <2>4, <3>5, <3>6
    <2> HIDE DEF CutTop
    <2> QED BY <1>1, <2>1, <2>3, <2>4, <2>5 DEF low, high
  <1> QED BY <1>3, <1>4 DEF low, high

\* The bounds that readers see: null for a null page.
BoundsOf(nulls, values, n) == [j \in 1 .. n |-> IF nulls[j] THEN Null ELSE Some(values[j])]

\* There is a value where the page is not null.
BoundsGiven(nulls, values, n) ==
    \A j \in 1 .. n : nulls[j] \in BOOLEAN /\ (~nulls[j] => values[j] \in Seq(Int))

\* The bounds that readers see have the values of the pages that are not null.
LEMMA BoundsOfIs ==
  ASSUME NEW n \in Nat, NEW nulls, NEW values, BoundsGiven(nulls, values, n)
  PROVE  /\ BoundsOf(nulls, values, n) \in Seq(Values) /\ Len(BoundsOf(nulls, values, n)) = n
         /\ \A j \in 1 .. n : /\ BoundsOf(nulls, values, n)[j].null = nulls[j]
                              /\ ~nulls[j] => BoundsOf(nulls, values, n)[j].value = values[j]
  <1> DEFINE b == BoundsOf(nulls, values, n)
  <1>1. Null \in Values /\ Null.null = TRUE
    <2>1. << >> \in Seq(Int)
      OBVIOUS
    <2> DEFINE V == Seq(Int)
    <2> HIDE DEF V
    <2>2. Null \in [null : BOOLEAN, value : V]
      BY <2>1 DEF Null, V
    <2> QED BY <2>2 DEF Values, V, Null
  <1>2. ASSUME NEW v \in Seq(Int)
        PROVE  Some(v) \in Values /\ Some(v).null = FALSE /\ Some(v).value = v
    <2> DEFINE V == Seq(Int)
    <2>1. v \in V
      OBVIOUS
    <2> HIDE DEF V
    <2>2. Some(v) \in [null : BOOLEAN, value : V] /\ Some(v).null = FALSE /\ Some(v).value = v
      BY <2>1 DEF Some
    <2> QED BY <2>2 DEF Values, V
  <1>3. ASSUME NEW j \in 1 .. n
        PROVE  b[j] \in Values /\ b[j].null = nulls[j] /\ (~nulls[j] => b[j].value = values[j])
    <2>1. b[j] = IF nulls[j] THEN Null ELSE Some(values[j])
      BY DEF BoundsOf
    <2>2. nulls[j] \in BOOLEAN /\ (~nulls[j] => values[j] \in Seq(Int))
      BY DEF BoundsGiven
    <2> HIDE DEF b
    <2> QED BY <1>1, <1>2, <2>1, <2>2
  <1>4. b = [j \in 1 .. n |-> b[j]]
    BY DEF BoundsOf
  <1> HIDE DEF b
  <1>5. b \in [1 .. n -> Values]
    BY <1>3, <1>4
  <1>6. b \in Seq(Values) /\ Len(b) = n
    BY <1>5, SeqDef
  <1> QED BY <1>3, <1>6 DEF b

\* What the readers of a file see of the indexer.
SeenIndex(k, i) == FileColumnIndex(ColumnIndex(k, i))
MinsKept(k, i) == [j \in DOMAIN i.minValues |-> MinKept(k, i.minValues[j])]
MaxsKept(k, i) == [j \in DOMAIN i.maxValues |-> MaxKept(k, i.maxValues[j])]

\* The two readers of an index, field by field.
LEMMA SeenIndexIs ==
  ASSUME NEW k \in IndexKinds, NEW i, DOMAIN i.nullPages = 1 .. Len(i.nullPages)
  PROVE  /\ SeenIndex(k, i) = [null |-> i.nullPages, nulls |-> i.nullCounts,
                               min |-> BoundsOf(i.nullPages, MinsKept(k, i), Len(i.nullPages)),
                               max |-> BoundsOf(i.nullPages, MaxsKept(k, i), Len(i.nullPages)),
                               order |-> boundaryOrderOf(orderOf(MinsKept(k, i)), orderOf(MaxsKept(k, i)))]
         /\ formatColumnIndex(ColumnIndex(k, i)) =
              [null |-> [j \in 1 .. Len(MinsKept(k, i)) |-> i.nullPages[j]],
               nulls |-> [j \in 1 .. Len(MinsKept(k, i)) |-> i.nullCounts[j]],
               min |-> BoundsOf(i.nullPages, MinsKept(k, i), Len(MinsKept(k, i))),
               max |-> BoundsOf(i.nullPages, MaxsKept(k, i), Len(MinsKept(k, i))),
               order |-> boundaryOrderOf(orderOf(MinsKept(k, i)), orderOf(MaxsKept(k, i)))]
  <1> DEFINE index == ColumnIndex(k, i)
             mins == MinsKept(k, i)
             maxs == MaxsKept(k, i)
             order == boundaryOrderOf(orderOf(mins), orderOf(maxs))
  <1>1. index = [NullPages |-> i.nullPages, NullCounts |-> i.nullCounts, MinValues |-> mins, MaxValues |-> maxs,
                 BoundaryOrder |-> order]
    BY DEF ColumnIndex, MinsKept, MaxsKept, MinKept, MaxKept
  <1> HIDE DEF index, mins, maxs, order
  <1>2. /\ index.NullPages = i.nullPages /\ index.NullCounts = i.nullCounts
        /\ index.MinValues = mins /\ index.MaxValues = maxs /\ index.BoundaryOrder = order
    BY <1>1
  <1>3. FileColumnIndex(index) = [null |-> i.nullPages, nulls |-> i.nullCounts,
                                  min |-> BoundsOf(i.nullPages, mins, Len(i.nullPages)),
                                  max |-> BoundsOf(i.nullPages, maxs, Len(i.nullPages)), order |-> order]
    BY <1>2, Zenon DEF FileColumnIndex, BoundsOf
  <1>4. formatColumnIndex(index) =
              [null |-> [j \in 1 .. Len(mins) |-> i.nullPages[j]],
               nulls |-> [j \in 1 .. Len(mins) |-> i.nullCounts[j]],
               min |-> BoundsOf(i.nullPages, mins, Len(mins)),
               max |-> BoundsOf(i.nullPages, maxs, Len(mins)), order |-> order]
    BY <1>2, Zenon DEF formatColumnIndex, BoundsOf
  <1> QED BY <1>3, <1>4 DEF SeenIndex, index, mins, maxs, order

\* An index of the pages ps.
IndexHolds(k, x, ps) ==
    /\ x \in Indexes
    /\ Len(x.null) = Len(ps) /\ Len(x.min) = Len(ps) /\ Len(x.max) = Len(ps)
    /\ \A j \in 1 .. Len(ps) : EntryCovers(k, x, j, ps[j])
    /\ OrderHolds(x)

\* The bounds kept are those of the pages.
LEMMA KeptBounds ==
  ASSUME NEW k \in IndexKinds, k # "null", NEW ps \in Seq(PagesOf(k)), NEW i, IndexerHolds(k, i, ps), BoundsRecorded
  PROVE  /\ MinsKept(k, i) \in Seq(Seq(Int)) /\ Len(MinsKept(k, i)) = Len(ps)
         /\ MaxsKept(k, i) \in Seq(Seq(Int)) /\ Len(MaxsKept(k, i)) = Len(ps)
         /\ \A j \in 1 .. Len(ps) : /\ MinsKept(k, i)[j] = MinKept(k, BoundValue(k, ps[j].min))
                                    /\ MaxsKept(k, i)[j] = MaxKept(k, BoundValue(k, ps[j].max))
  <1> DEFINE n == Len(ps)
             a == i.minValues
             b == i.maxValues
             mins == MinsKept(k, i)
             maxs == MaxsKept(k, i)
             V == Seq(Int)
  <1>1. /\ a \in Seq(V) /\ b \in Seq(V) /\ Len(a) = n /\ Len(b) = n
        /\ \A j \in 1 .. n : a[j] = BoundValue(k, ps[j].min) /\ b[j] = BoundValue(k, ps[j].max)
    BY DEF IndexerHolds, Indexers
  <1>2. n \in Nat /\ \A j \in 1 .. n : PageOK(k, ps[j])
    <2> DEFINE Pages == PagesOf(k)
    <2>1. ps \in Seq(Pages) /\ \A page \in Pages : PageOK(k, page)
      BY PageIs
    <2> HIDE DEF Pages
    <2> QED BY <2>1
  <1>3. mins = [j \in DOMAIN a |-> MinKept(k, a[j])] /\ maxs = [j \in DOMAIN b |-> MaxKept(k, b[j])]
    BY DEF MinsKept, MaxsKept
  <1>4. \A j \in 1 .. n : MinKept(k, BoundValue(k, ps[j].min)) \in V /\ MaxKept(k, BoundValue(k, ps[j].max)) \in V
    BY <1>2, KeptIs
  <1> HIDE DEF n, a, b, mins, maxs, V
  <1>5. DOMAIN a = 1 .. n /\ DOMAIN b = 1 .. n
    BY <1>1
  <1>6. \A j \in 1 .. n : /\ mins[j] = MinKept(k, BoundValue(k, ps[j].min)) /\ mins[j] \in V
                          /\ maxs[j] = MaxKept(k, BoundValue(k, ps[j].max)) /\ maxs[j] \in V
    BY <1>1, <1>3, <1>4, <1>5
  <1>7. mins \in [1 .. n -> V] /\ maxs \in [1 .. n -> V]
    BY <1>3, <1>5, <1>6
  <1>8. mins \in Seq(V) /\ Len(mins) = n /\ maxs \in Seq(V) /\ Len(maxs) = n
    BY <1>2, <1>7, SeqDef
  <1> QED BY <1>6, <1>8 DEF n, mins, maxs, V

\* In a column of nulls there are null pages only.
LEMMA NullColumn ==
  ASSUME NEW ps \in Seq(PagesOf("null")), "null" \in IndexKinds
  PROVE  \A j \in 1 .. Len(ps) : ps[j].min.null
  <1> DEFINE Pages == PagesOf("null")
  <1>1. ps \in Seq(Pages) /\ \A page \in Pages : PageOK("null", page)
    BY PageIs
  <1> HIDE DEF Pages
  <1>2. \A j \in 1 .. Len(ps) : PageOK("null", ps[j])
    BY <1>1
  <1> QED BY <1>2 DEF PageOK

\* The index of a chunk tells the truth about its pages.
LEMMA SeenIndexHolds ==
  ASSUME NEW k \in IndexKinds, BoundsRecorded, NEW ps \in Seq(PagesOf(k)), NEW i, IndexerHolds(k, i, ps)
  PROVE  IndexHolds(k, SeenIndex(k, i), ps)
  <1> DEFINE n == Len(ps)
             x == SeenIndex(k, i)
             nulls == i.nullPages
             counts == i.nullCounts
             mins == MinsKept(k, i)
             maxs == MaxsKept(k, i)
             order == boundaryOrderOf(orderOf(mins), orderOf(maxs))
             low == BoundsOf(nulls, mins, n)
             high == BoundsOf(nulls, maxs, n)
  <1>1. n \in Nat /\ \A j \in 1 .. n : PageOK(k, ps[j])
    <2> DEFINE Pages == PagesOf(k)
    <2>1. ps \in Seq(Pages) /\ \A page \in Pages : PageOK(k, page)
      BY PageIs
    <2> HIDE DEF Pages
    <2> QED BY <2>1
  <1>2. /\ nulls \in Seq(BOOLEAN) /\ counts \in Seq(Nat) /\ Len(nulls) = n /\ Len(counts) = n
        /\ \A j \in 1 .. n : nulls[j] = ps[j].min.null /\ counts[j] = ps[j].numNulls
    BY DEF IndexerHolds, Indexers
  <1>3. DOMAIN nulls = 1 .. Len(nulls)
    BY <1>2
  <1>4. /\ x.null = nulls /\ x.nulls = counts /\ x.min = low /\ x.max = high /\ x.order = order
        /\ x = [null |-> x.null, nulls |-> x.nulls, min |-> x.min, max |-> x.max, order |-> x.order]
    BY <1>2, <1>3, SeenIndexIs
  <1>5. /\ order \in {"Ascending", "Descending", "Unordered"}
        /\ order = "Ascending" => Ascending(mins) /\ Ascending(maxs)
        /\ order = "Descending" => Descending(mins) /\ Descending(maxs)
    BY BoundaryOrderIs
  <1>6. k # "null" =>
          /\ mins \in Seq(Seq(Int)) /\ Len(mins) = n /\ maxs \in Seq(Seq(Int)) /\ Len(maxs) = n
          /\ \A j \in 1 .. n : /\ mins[j] = MinKept(k, BoundValue(k, ps[j].min)) /\ mins[j] \in Seq(Int)
                               /\ maxs[j] = MaxKept(k, BoundValue(k, ps[j].max)) /\ maxs[j] \in Seq(Int)
    <2> SUFFICES ASSUME k # "null"
                 PROVE  /\ mins \in Seq(Seq(Int)) /\ Len(mins) = n /\ maxs \in Seq(Seq(Int)) /\ Len(maxs) = n
                        /\ \A j \in 1 .. n : /\ mins[j] = MinKept(k, BoundValue(k, ps[j].min)) /\ mins[j] \in Seq(Int)
                                             /\ maxs[j] = MaxKept(k, BoundValue(k, ps[j].max)) /\ maxs[j] \in Seq(Int)
      OBVIOUS
    <2>1. /\ mins \in Seq(Seq(Int)) /\ Len(mins) = n /\ maxs \in Seq(Seq(Int)) /\ Len(maxs) = n
          /\ \A j \in 1 .. n : /\ mins[j] = MinKept(k, BoundValue(k, ps[j].min))
                               /\ maxs[j] = MaxKept(k, BoundValue(k, ps[j].max))
      BY KeptBounds
    <2>2. \A j \in 1 .. n : /\ MinKept(k, BoundValue(k, ps[j].min)) \in Seq(Int)
                            /\ MaxKept(k, BoundValue(k, ps[j].max)) \in Seq(Int)
      BY <1>1, KeptIs
    <2> HIDE DEF mins, maxs, n
    <2> QED BY <2>1, <2>2
  <1>7. \A j \in 1 .. n : ~nulls[j] => k # "null"
    BY <1>1, <1>2 DEF PageOK
  <1>8. \A j \in 1 .. n : nulls[j] \in BOOLEAN /\ (~nulls[j] => mins[j] \in Seq(Int) /\ maxs[j] \in Seq(Int))
    <2> HIDE DEF nulls, mins, maxs, n
    <2> QED BY <1>2, <1>6, <1>7
  <1>9. /\ low \in Seq(Values) /\ Len(low) = n /\ high \in Seq(Values) /\ Len(high) = n
        /\ \A j \in 1 .. n : /\ low[j].null = nulls[j] /\ high[j].null = nulls[j]
                             /\ ~nulls[j] => low[j].value = mins[j] /\ high[j].value = maxs[j]
    <2> HIDE DEF nulls, mins, maxs, n
    <2>1. BoundsGiven(nulls, mins, n) /\ BoundsGiven(nulls, maxs, n) /\ n \in Nat
      BY <1>1, <1>8 DEF BoundsGiven
    <2>2. /\ low \in Seq(Values) /\ Len(low) = n
          /\ \A j \in 1 .. n : low[j].null = nulls[j] /\ (~nulls[j] => low[j].value = mins[j])
      BY <2>1, BoundsOfIs
    <2>3. /\ high \in Seq(Values) /\ Len(high) = n
          /\ \A j \in 1 .. n : high[j].null = nulls[j] /\ (~nulls[j] => high[j].value = maxs[j])
      BY <2>1, BoundsOfIs
    <2> HIDE DEF low, high
    <2> QED BY <2>2, <2>3
  <1> HIDE DEF n, x, nulls, counts, mins, maxs, order, low, high
  <1>10. x \in Indexes
    <2>1. x.null \in Seq(BOOLEAN) /\ x.nulls \in Seq(Nat) /\ x.min \in Seq(Values) /\ x.max \in Seq(Values)
      BY <1>2, <1>4, <1>9
    <2>2. x.order \in {"Ascending", "Descending", "Unordered"}
      BY <1>4, <1>5
    <2> DEFINE V == Values
    <2> HIDE DEF V
    <2>3. x.min \in Seq(V) /\ x.max \in Seq(V)
      BY <2>1 DEF V
    <2>4. x \in [null : Seq(BOOLEAN), nulls : Seq(Nat), min : Seq(V), max : Seq(V),
                 order : {"Ascending", "Descending", "Unordered"}]
      BY <1>4, <2>1, <2>2, <2>3
    <2> QED BY <2>4 DEF Indexes, V
  <1>11. Len(x.null) = n /\ Len(x.min) = n /\ Len(x.max) = n
    BY <1>2, <1>4, <1>9
  <1>12. ASSUME NEW j \in 1 .. n PROVE EntryCovers(k, x, j, ps[j])
    <2>1. x.null[j] = ps[j].min.null /\ x.nulls[j] = ps[j].numNulls
      BY <1>2, <1>4
    <2>2. /\ x.min[j].null = ps[j].min.null /\ x.max[j].null = ps[j].min.null
          /\ ~ps[j].min.null => x.min[j].value = mins[j] /\ x.max[j].value = maxs[j]
      BY <1>2, <1>4, <1>9
    <2>3. ps[j].min.null \in BOOLEAN /\ (~ps[j].min.null => k # "null")
      BY <1>1 DEF PageOK
    <2> DEFINE a == MinKept(k, BoundValue(k, ps[j].min))
               b == MaxKept(k, BoundValue(k, ps[j].max))
    <2>4. ~ps[j].min.null => /\ AtMost(a, ps[j].min.value)
                             /\ CutTop(k, ps[j]) \/ AtMost(ps[j].max.value, b)
                             /\ AtMost(a, b)
      BY <1>1, KeptIs
    <2> HIDE DEF a, b
    <2>5. ~ps[j].min.null => x.min[j].value = a /\ x.max[j].value = b
      BY <1>6, <2>2, <2>3 DEF a, b
    <2> QED BY <2>1, <2>2, <2>3, <2>4, <2>5 DEF EntryCovers
  <1>13. OrderHolds(x)
    <2> SUFFICES ASSUME NEW p \in 1 .. n, NEW q \in 1 .. n, p < q, ~x.null[p], ~x.null[q]
                 PROVE  /\ x.order = "Ascending" => Rises(x, p, q)
                        /\ x.order = "Descending" => Rises(x, q, p)
      BY <1>11 DEF OrderHolds
    <2>1. k # "null" /\ q \in p .. n
      BY <1>4, <1>7
    <2>2. /\ x.min[p].value = mins[p] /\ x.max[p].value = maxs[p]
          /\ x.min[q].value = mins[q] /\ x.max[q].value = maxs[q]
      BY <1>4, <1>9
    <2>3. order = "Ascending" => AtMost(mins[p], mins[q]) /\ AtMost(maxs[p], maxs[q])
      BY <1>5, <1>6, <2>1, AscendingPairs
    <2>4. order = "Descending" => AtMost(mins[q], mins[p]) /\ AtMost(maxs[q], maxs[p])
      BY <1>5, <1>6, <2>1, DescendingPairs
    <2> QED BY <1>4, <2>2, <2>3, <2>4 DEF Rises
  <1> QED BY <1>10, <1>11, <1>12, <1>13 DEF IndexHolds, x, n

\* The other reader sees the same.
LEMMA FormatIs ==
  ASSUME NEW k \in IndexKinds, BoundsRecorded, NEW ps \in Seq(PagesOf(k)), NEW i, IndexerHolds(k, i, ps)
  PROVE  /\ formatColumnIndex(ColumnIndex(k, i)) \in Indexes
         /\ k # "null" => formatColumnIndex(ColumnIndex(k, i)) = SeenIndex(k, i)
  <1> DEFINE n == Len(ps)
             x == SeenIndex(k, i)
             y == formatColumnIndex(ColumnIndex(k, i))
             nulls == i.nullPages
             counts == i.nullCounts
             mins == MinsKept(k, i)
             maxs == MaxsKept(k, i)
             order == boundaryOrderOf(orderOf(mins), orderOf(maxs))
  <1>1. n \in Nat /\ nulls \in Seq(BOOLEAN) /\ counts \in Seq(Nat) /\ Len(nulls) = n /\ Len(counts) = n
    <2> DEFINE Pages == PagesOf(k)
    <2>1. ps \in Seq(Pages)
      OBVIOUS
    <2> HIDE DEF Pages
    <2>2. n \in Nat
      BY <2>1
    <2> QED BY <2>2 DEF IndexerHolds, Indexers
  <1>2. DOMAIN nulls = 1 .. Len(nulls)
    BY <1>1
  <1>3. /\ x = [null |-> nulls, nulls |-> counts, min |-> BoundsOf(nulls, mins, n), max |-> BoundsOf(nulls, maxs, n),
                order |-> order]
        /\ y = [null |-> [j \in 1 .. Len(mins) |-> nulls[j]], nulls |-> [j \in 1 .. Len(mins) |-> counts[j]],
                min |-> BoundsOf(nulls, mins, Len(mins)), max |-> BoundsOf(nulls, maxs, Len(mins)),
                order |-> order]
    BY <1>1, <1>2, SeenIndexIs
  <1>4. order \in {"Ascending", "Descending", "Unordered"}
    BY BoundaryOrderIs
  <1>5. CASE k # "null"
    <2>1. Len(mins) = n
      BY <1>5, KeptBounds
    <2>2. [j \in 1 .. n |-> nulls[j]] = nulls /\ [j \in 1 .. n |-> counts[j]] = counts
      <3> HIDE DEF nulls, counts, n
      <3> QED BY <1>1
    <2>3. y = x
      <3> HIDE DEF x, y, nulls, counts, mins, maxs, order, n
      <3> QED BY <1>3, <2>1, <2>2
    <2>4. x \in Indexes
      BY SeenIndexHolds DEF IndexHolds
    <2> HIDE DEF x, y
    <2> QED BY <2>3, <2>4 DEF x, y
  <1>6. CASE k = "null"
    <2>1. i.minValues = << >>
      BY <1>6 DEF IndexerHolds
    <2>2. mins = << >>
      BY <2>1 DEF MinsKept
    <2> HIDE DEF mins
    <2>3. Len(mins) = 0 /\ 1 .. Len(mins) = {}
      BY <2>2
    <2>4. /\ BoundsOf(nulls, mins, Len(mins)) = << >> /\ BoundsOf(nulls, maxs, Len(mins)) = << >>
          /\ [j \in 1 .. Len(mins) |-> nulls[j]] = << >> /\ [j \in 1 .. Len(mins) |-> counts[j]] = << >>
      BY <2>3 DEF BoundsOf
    <2>5. << >> \in Seq(BOOLEAN) /\ << >> \in Seq(Nat) /\ << >> \in Seq(Values)
      <3> DEFINE V == Values
      <3> HIDE DEF V
      <3>1. << >> \in Seq(V)
        OBVIOUS
      <3> QED BY <3>1 DEF V
    <2> HIDE DEF order, y
    <2>6. y = [null |-> << >>, nulls |-> << >>, min |-> << >>, max |-> << >>, order |-> order]
      BY <1>3, <2>4
    <2> DEFINE V == Seq(Values)
    <2> HIDE DEF V
    <2>7. y \in [null : Seq(BOOLEAN), nulls : Seq(Nat), min : V, max : V, order : {"Ascending", "Descending", "Unordered"}]
      BY <1>4, <2>5, <2>6 DEF V
    <2> QED BY <1>6, <2>7 DEF Indexes, V, y
  <1> QED BY <1>5, <1>6

\* A page in memory is an index of itself.
LEMMA PageColumnIndexHolds ==
  ASSUME NEW k \in IndexKinds, k # "null", NEW page \in PagesOf(k)
  PROVE  IndexHolds(k, PageColumnIndex(k, page), <<page>>)
  <1> DEFINE x == PageColumnIndex(k, page)
             null == page.numNulls = page.numValues
             zero == IF k = "byteArray" THEN << >> ELSE <<0>>
             low == Some(IF page.min.null THEN zero ELSE page.min.value)
             high == Some(IF page.max.null THEN zero ELSE page.max.value)
  <1>1. PageOK(k, page)
    BY PageIs
  <1>2. /\ page.numNulls \in Nat /\ null \in BOOLEAN /\ null = page.min.null /\ page.max.null = page.min.null
        /\ ~page.min.null => /\ page.min.value \in Seq(Int) /\ page.max.value \in Seq(Int)
                             /\ AtMost(page.min.value, page.max.value)
    BY <1>1 DEF PageOK, BoundsOK
  <1>3. zero \in Seq(Int)
    OBVIOUS
  <1> DEFINE a == IF page.min.null THEN zero ELSE page.min.value
             b == IF page.max.null THEN zero ELSE page.max.value
  <1>4. a \in Seq(Int) /\ b \in Seq(Int) /\ (~page.min.null => a = page.min.value /\ b = page.max.value)
    BY <1>2, <1>3
  <1>5. low = Some(a) /\ high = Some(b)
    OBVIOUS
  <1> HIDE DEF a, b, zero
  <1>6. /\ low \in Values /\ low.null = FALSE /\ low.value = a
        /\ high \in Values /\ high.null = FALSE /\ high.value = b
    <2> DEFINE V == Seq(Int)
    <2> HIDE DEF V
    <2>1. a \in V /\ b \in V
      BY <1>4 DEF V
    <2>2. Some(a) \in [null : BOOLEAN, value : V] /\ Some(b) \in [null : BOOLEAN, value : V]
      BY <2>1 DEF Some
    <2>3. Some(a).null = FALSE /\ Some(a).value = a /\ Some(b).null = FALSE /\ Some(b).value = b
      BY DEF Some
    <2> HIDE DEF low, high
    <2> QED BY <1>5, <2>2, <2>3 DEF Values, V
  <1>7. x = [null |-> <<null>>, nulls |-> <<page.numNulls>>, min |-> <<low>>, max |-> <<high>>, order |-> "Unordered"]
    BY DEF PageColumnIndex, zero
  <1> HIDE DEF x, low, high, null
  <1>8. x.null = <<null>> /\ x.nulls = <<page.numNulls>> /\ x.min = <<low>> /\ x.max = <<high>> /\ x.order = "Unordered"
    BY <1>7
  <1>9. /\ <<null>> \in Seq(BOOLEAN) /\ <<page.numNulls>> \in Seq(Nat) /\ <<low>> \in Seq(Values) /\ <<high>> \in Seq(Values)
    <2> DEFINE V == Values
    <2>1. low \in V /\ high \in V
      BY <1>6
    <2> HIDE DEF V
    <2>2. <<low>> \in Seq(V) /\ <<high>> \in Seq(V)
      BY <2>1
    <2> QED BY <1>2, <2>2 DEF V
  <1>10. x \in Indexes
    <2> DEFINE V == Seq(Values)
    <2> HIDE DEF V
    <2>1. x \in [null : Seq(BOOLEAN), nulls : Seq(Nat), min : V, max : V, order : {"Ascending", "Descending", "Unordered"}]
      BY <1>7, <1>9 DEF V
    <2> QED BY <2>1 DEF Indexes, V
  <1>11. Len(x.null) = 1 /\ Len(x.min) = 1 /\ Len(x.max) = 1 /\ Len(<<page>>) = 1
    BY <1>8
  <1>12. EntryCovers(k, x, 1, page)
    BY <1>2, <1>4, <1>6, <1>8, AtMostIs DEF EntryCovers
  <1>13. OrderHolds(x)
    BY <1>11 DEF OrderHolds
  <1>14. \A j \in 1 .. Len(<<page>>) : j = 1 /\ <<page>>[j] = page
    OBVIOUS
  <1> QED BY <1>10, <1>11, <1>12, <1>13, <1>14 DEF IndexHolds, x

-----------------------------------------------------------------------------
(* The chunks grow.                                                         *)

\* What comes before is not touched.
LEMMA AppendIs ==
  ASSUME NEW T, NEW s \in Seq(T), NEW e \in T
  PROVE  /\ Append(s, e) \in Seq(T) /\ Len(s) \in Nat /\ Len(Append(s, e)) = Len(s) + 1
         /\ Append(s, e)[Len(s) + 1] = e /\ \A j \in 1 .. Len(s) : Append(s, e)[j] = s[j]
         /\ \A j \in 1 .. Len(s) + 1 : j \in 1 .. Len(s) \/ j = Len(s) + 1
  OBVIOUS

\* A chunk more does not move the pages before it.
LEMMA OffsetsKept ==
  ASSUME NEW k \in IndexKinds, NEW cs \in Seq(ChunksOf(k)), NEW c \in ChunksOf(k), NEW i \in 0 .. Len(cs)
  PROVE  offsets(Append(cs, c), i) = offsets(cs, i)
  <1> DEFINE T == ChunksOf(k)
             next == Append(cs, c)
             w == PagesIn(cs)
             u == PagesIn(next)
             n == Len(cs)
  <1>1. /\ next \in Seq(T) /\ n \in Nat /\ Len(next) = n + 1 /\ \A j \in 1 .. n : next[j] = cs[j]
        /\ DOMAIN cs = 1 .. n /\ DOMAIN next = 1 .. n + 1
    <2>1. cs \in Seq(T) /\ c \in T
      OBVIOUS
    <2> HIDE DEF T
    <2> QED BY <2>1
  <1>2. i \in 0 .. n /\ i \in 0 .. n + 1 /\ i \in Nat
    BY <1>1
  <1>3. Weighs(w, n) /\ offsets(cs, i) = Total(w, i)
    BY <1>2, PagesUpTo
  <1>4. offsets(next, i) = Total(u, i)
    BY <1>1, <1>2, PagesUpTo
  <1>5. \A j \in 1 .. n : u[j] = w[j]
    BY <1>1 DEF PagesIn
  <1> HIDE DEF next, u, w, n
  <1>6. Weighs(w, i) /\ \A j \in 1 .. i : u[j] = w[j]
    BY <1>1, <1>2, <1>3, <1>5 DEF Weighs
  <1>7. Total(u, i) = Total(w, i)
    BY <1>2, <1>6, TotalAgrees
  <1> QED BY <1>3, <1>4, <1>7 DEF next

\* The chunk of the pages ps joins the others.
LEMMA ChunkJoins ==
  ASSUME NEW k \in IndexKinds, ChunksHold(k, chunks), NEW ps \in Seq(PagesOf(k)), ps # << >>,
         NEW x, IndexHolds(k, x, ps), NEW y \in Indexes, k # "null" => y = x
  PROVE  ChunksHold(k, Append(chunks, ChunkOf(ps, x, y)))
  <1> DEFINE c == ChunkOf(ps, x, y)
             n == Len(ps)
             m == Len(chunks)
             base == offsets(chunks, m)
             first == [j \in DOMAIN ps |-> RowsOf(SubSeq(ps, 1, j - 1))]
             places == [j \in DOMAIN ps |-> base + j]
             next == Append(chunks, c)
             T == ChunksOf(k)
  <1>1. chunks \in Seq(T) /\ \A i \in 1 .. m : ChunkHolds(k, chunks[i], offsets(chunks, i - 1))
    BY DEF ChunksHold
  <1>2. m \in Nat /\ base \in Nat
    <2>1. m \in Nat
      <3> HIDE DEF T
      <3> QED BY <1>1
    <2>2. m \in 0 .. m
      BY <2>1
    <2> QED BY <1>1, <2>1, <2>2, PagesUpTo
  <1>3. n \in Nat /\ DOMAIN ps = 1 .. n
    <2> DEFINE Pages == PagesOf(k)
    <2>1. ps \in Seq(Pages)
      OBVIOUS
    <2> HIDE DEF Pages
    <2> QED BY <2>1
  <1>4. \A j \in 1 .. n : RowsOf(SubSeq(ps, 1, j - 1)) \in Nat
    <2> TAKE j \in 1 .. n
    <2>1. j - 1 \in 0 .. n
      BY <1>3
    <2>2. RowsOf(SubSeq(ps, 1, j - 1)) = Total(ValuesIn(ps), j - 1) /\ Total(ValuesIn(ps), j - 1) \in Nat
      BY <2>1, RowsUpTo
    <2> QED BY <2>2
  <1>5. c = [pages |-> ps, index |-> x, format |-> y, firstRows |-> first, offsets |-> places]
    BY DEF ChunkOf
  <1>6. /\ \A j \in 1 .. n : first[j] = RowsOf(SubSeq(ps, 1, j - 1)) /\ places[j] = base + j
        /\ first \in [1 .. n -> Nat] /\ places \in [1 .. n -> Nat]
    <2> HIDE DEF base, n
    <2> QED BY <1>2, <1>3, <1>4
  <1> HIDE DEF c, base, first, places
  <1>7. first \in Seq(Nat) /\ places \in Seq(Nat)
    <2> HIDE DEF n
    <2> QED BY <1>3, <1>6, SeqDef
  <1>8. c.pages = ps /\ c.index = x /\ c.format = y /\ c.firstRows = first /\ c.offsets = places
    BY <1>5
  <1>9. c \in T
    <2> DEFINE P == Seq(PagesOf(k))
               X == Indexes
    <2>1. ps \in P /\ x \in X /\ y \in X
      BY DEF IndexHolds
    <2> HIDE DEF P, X, T
    <2>2. c \in [pages : P, index : X, format : X, firstRows : Seq(Nat), offsets : Seq(Nat)]
      BY <1>5, <1>7, <2>1
    <2> QED BY <2>2 DEF ChunksOf, P, X, T
  <1>10. ChunkHolds(k, c, base)
    BY <1>6, <1>8 DEF ChunkHolds, IndexHolds
  <1> HIDE DEF m, n
  <1>11. /\ next \in Seq(T) /\ Len(next) = m + 1 /\ next[m + 1] = c
         /\ \A i \in 1 .. m : next[i] = chunks[i]
         /\ \A i \in 1 .. m + 1 : i \in 1 .. m \/ i = m + 1
    <2> HIDE DEF T
    <2> QED BY <1>1, <1>9, AppendIs DEF m
  <1>12. \A i \in 0 .. m : offsets(next, i) = offsets(chunks, i)
    BY <1>1, <1>9, OffsetsKept DEF m
  <1> HIDE DEF next
  <1>13. ASSUME NEW i \in 1 .. m + 1 PROVE ChunkHolds(k, next[i], offsets(next, i - 1))
    <2>1. i - 1 \in 0 .. m
      BY <1>2
    <2>2. offsets(next, i - 1) = offsets(chunks, i - 1)
      BY <1>12, <2>1
    <2>3. CASE i \in 1 .. m
      BY <1>1, <1>11, <2>2, <2>3
    <2>4. CASE i = m + 1
      BY <1>10, <1>11, <1>2, <2>2, <2>4 DEF base
    <2> QED BY <1>11, <2>3, <2>4
  <1> QED BY <1>11, <1>13 DEF ChunksHold, next, c

-----------------------------------------------------------------------------
(* The steps.                                                               *)

\* A new indexer has seen no page.
LEMMA NewIndexerHolds ==
  ASSUME NEW k \in IndexKinds
  PROVE  IndexerHolds(k, NewIndexer, << >>)
  <1> DEFINE V == Seq(Int)
  <1>1. << >> \in Seq(BOOLEAN) /\ << >> \in Seq(Nat) /\ << >> \in Seq(V) /\ Len(<< >>) = 0 /\ 1 .. 0 = {}
    <2> HIDE DEF V
    <2> QED OBVIOUS
  <1> HIDE DEF V
  <1>2. NewIndexer \in [nullPages : Seq(BOOLEAN), nullCounts : Seq(Nat), minValues : Seq(V), maxValues : Seq(V)]
    BY <1>1 DEF NewIndexer
  <1>3. NewIndexer \in Indexers
    BY <1>2 DEF Indexers, V
  <1>4. /\ NewIndexer.nullPages = << >> /\ NewIndexer.nullCounts = << >>
        /\ NewIndexer.minValues = << >> /\ NewIndexer.maxValues = << >>
    BY DEF NewIndexer
  <1> QED BY <1>1, <1>3, <1>4 DEF IndexerHolds

\* The invariant holds initially.
LEMMA IndexInitHolds == IndexInit => IndexInv
  <1> SUFFICES ASSUME IndexInit PROVE IndexInv
    OBVIOUS
  <1>1. kind \in IndexKinds /\ indexer = NewIndexer /\ pages = << >> /\ chunks = << >>
    BY DEF IndexInit
  <1>2. IndexerHolds(kind, indexer, pages)
    BY <1>1, NewIndexerHolds
  <1>3. << >> \in Seq(PagesOf(kind)) /\ << >> \in Seq(ChunksOf(kind)) /\ 1 .. Len(<< >>) = {}
    <2> DEFINE P == PagesOf(kind)
               T == ChunksOf(kind)
    <2> HIDE DEF P, T
    <2>1. << >> \in Seq(P) /\ << >> \in Seq(T) /\ 1 .. Len(<< >>) = {}
      OBVIOUS
    <2> QED BY <2>1 DEF P, T
  <1>4. ChunksHold(kind, chunks)
    BY <1>1, <1>3 DEF ChunksHold
  <1> QED BY <1>1, <1>2, <1>3, <1>4 DEF IndexInv

\* A page written adds an entry to the indexer (writer.go: recordPageStats).
LEMMA WriteIndexedPageHolds ==
  ASSUME BoundsRecorded, IndexInv, NEW page \in PagesOf(kind), WriteIndexedPage(page)
  PROVE  IndexInv'
  <1>1. /\ indexer' = IndexPage(kind, indexer, page) /\ pages' = Append(pages, page)
        /\ kind' = kind /\ chunks' = chunks
    BY DEF WriteIndexedPage
  <1>2. /\ kind \in IndexKinds /\ pages \in Seq(PagesOf(kind)) /\ IndexerHolds(kind, indexer, pages)
        /\ ChunksHold(kind, chunks)
    BY DEF IndexInv
  <1>3. IndexerHolds(kind, IndexPage(kind, indexer, page), Append(pages, page))
    BY <1>2, IndexPageHolds
  <1>4. Append(pages, page) \in Seq(PagesOf(kind))
    BY <1>2, AppendIs
  <1>5. /\ kind' \in IndexKinds /\ pages' \in Seq(PagesOf(kind')) /\ IndexerHolds(kind', indexer', pages')
        /\ ChunksHold(kind', chunks')
    BY <1>1, <1>2, <1>3, <1>4
  <1> QED BY <1>5 DEF IndexInv

\* The end of a chunk takes the index and leaves a new indexer.
LEMMA EndChunkHolds ==
  ASSUME BoundsRecorded, IndexInv, EndChunk
  PROVE  IndexInv'
  <1> DEFINE index == ColumnIndex(kind, indexer)
             x == SeenIndex(kind, indexer)
             y == formatColumnIndex(index)
  <1>1. /\ pages # << >> /\ chunks' = Append(chunks, ChunkOf(pages, x, y))
        /\ indexer' = NewIndexer /\ pages' = << >> /\ kind' = kind
    BY DEF EndChunk, Reset, SeenIndex
  <1>2. /\ kind \in IndexKinds /\ pages \in Seq(PagesOf(kind)) /\ IndexerHolds(kind, indexer, pages)
        /\ ChunksHold(kind, chunks)
    BY DEF IndexInv
  <1>3. IndexHolds(kind, x, pages)
    BY <1>2, SeenIndexHolds
  <1>4. y \in Indexes /\ (kind # "null" => y = x)
    BY <1>2, FormatIs
  <1> HIDE DEF x, y
  <1>5. ChunksHold(kind, Append(chunks, ChunkOf(pages, x, y)))
    BY <1>1, <1>2, <1>3, <1>4, ChunkJoins
  <1>6. IndexerHolds(kind, NewIndexer, << >>)
    BY <1>2, NewIndexerHolds
  <1>7. << >> \in Seq(PagesOf(kind))
    <2> DEFINE P == PagesOf(kind)
    <2> HIDE DEF P
    <2>1. << >> \in Seq(P)
      OBVIOUS
    <2> QED BY <2>1 DEF P
  <1>8. /\ kind' \in IndexKinds /\ pages' \in Seq(PagesOf(kind')) /\ IndexerHolds(kind', indexer', pages')
        /\ ChunksHold(kind', chunks')
    BY <1>1, <1>2, <1>5, <1>6, <1>7
  <1> QED BY <1>8 DEF IndexInv

\* A page in memory joins the chunks as an index of its own.
LEMMA BufferChunkHolds ==
  ASSUME IndexInv, NEW page \in PagesOf(kind), BufferChunk(page)
  PROVE  IndexInv'
  <1> DEFINE x == PageColumnIndex(kind, page)
  <1>1. /\ chunks' = Append(chunks, ChunkOf(<<page>>, x, x)) /\ kind \in BufferKinds
        /\ kind' = kind /\ indexer' = indexer /\ pages' = pages
    BY DEF BufferChunk
  <1>2. /\ kind \in IndexKinds /\ pages \in Seq(PagesOf(kind)) /\ IndexerHolds(kind, indexer, pages)
        /\ ChunksHold(kind, chunks)
    BY DEF IndexInv
  <1>3. kind # "null"
    BY <1>1, IndexAssumption DEF IndexAssumption
  <1>4. IndexHolds(kind, x, <<page>>)
    BY <1>2, <1>3, PageColumnIndexHolds
  <1>5. x \in Indexes
    BY <1>4 DEF IndexHolds
  <1>6. <<page>> \in Seq(PagesOf(kind)) /\ <<page>> # << >>
    <2> DEFINE P == PagesOf(kind)
    <2>1. page \in P
      OBVIOUS
    <2> HIDE DEF P
    <2>2. <<page>> \in Seq(P) /\ <<page>> # << >>
      BY <2>1
    <2> QED BY <2>2 DEF P
  <1> HIDE DEF x
  <1>7. ChunksHold(kind, Append(chunks, ChunkOf(<<page>>, x, x)))
    BY <1>2, <1>4, <1>5, <1>6, ChunkJoins
  <1>8. /\ kind' \in IndexKinds /\ pages' \in Seq(PagesOf(kind')) /\ IndexerHolds(kind', indexer', pages')
        /\ ChunksHold(kind', chunks')
    BY <1>1, <1>2, <1>7
  <1> QED BY <1>8 DEF IndexInv

\* The indexer tells the truth about the current pages, and the chunks about theirs.
LEMMA IndexInvCorrect ==
  ASSUME BoundsRecorded
  PROVE  IndexSpec => []IndexInv
  <1>1. IndexInv /\ [IndexNext]_indexVars => IndexInv'
    <2> SUFFICES ASSUME IndexInv, [IndexNext]_indexVars PROVE IndexInv'
      OBVIOUS
    <2>1. CASE \E page \in PagesOf(kind) : WriteIndexedPage(page)
      BY <2>1, WriteIndexedPageHolds
    <2>2. CASE EndChunk
      BY <2>2, EndChunkHolds
    <2>3. CASE \E page \in PagesOf(kind) : BufferChunk(page)
      BY <2>3, BufferChunkHolds
    <2>4. CASE UNCHANGED indexVars
      BY <2>4 DEF indexVars, IndexInv
    <2> QED BY <2>1, <2>2, <2>3, <2>4 DEF IndexNext
  <1> QED BY <1>1, IndexInitHolds, PTL DEF IndexSpec

-----------------------------------------------------------------------------
(* What the readers of the index may rely on.                               *)

\* The pages of the properties are those of the lemmas.
LEMMA AllPagesOf ==
  ASSUME IndexInv
  PROVE  /\ AllPages = PagesOfAll(chunks) /\ AllPages \in Seq(PagesOf(kind))
         /\ Len(AllPages) \in Nat /\ DOMAIN AllPages = 1 .. Len(AllPages)
         /\ \A page : CutToTop(page) <=> CutTop(kind, page)
  <1>1. AllPages = PagesOfAll(chunks)
    BY DEF AllPages, PagesOfAll, PagesOfChunks
  <1>2. kind \in IndexKinds /\ ChunksHold(kind, chunks)
    BY DEF IndexInv
  <1>3. PagesOfAll(chunks) \in Seq(PagesOf(kind))
    BY <1>2, AllPagesAre
  <1> DEFINE P == PagesOf(kind)
             all == PagesOfAll(chunks)
  <1>4. all \in Seq(P)
    BY <1>3
  <1> HIDE DEF P, all
  <1>5. Len(all) \in Nat /\ DOMAIN all = 1 .. Len(all)
    BY <1>4
  <1> QED BY <1>1, <1>3, <1>5 DEF CutToTop, CutTop, all

\* The invariant implies that the index tells the truth.
LEMMA TruthHolds ==
  ASSUME IndexInv
  PROVE  IndexTruthful
  <1> DEFINE m == multiColumnIndex(chunks)
             all == PagesOfAll(chunks)
             bounded == {p \in DOMAIN all : ~all[p].min.null}
             n == Len(all)
  <1>1. kind \in IndexKinds /\ ChunksHold(kind, chunks)
    BY DEF IndexInv
  <1>2. Multi = m /\ AllPages = all /\ DOMAIN all = 1 .. n /\ n \in Nat /\ \A page : CutToTop(page) <=> CutTop(kind, page)
    BY AllPagesOf DEF Multi
  <1>3. /\ NumPages(m) = n
        /\ \A p \in 1 .. n : /\ PageOK(kind, all[p]) /\ EntryCovers(kind, m, p, all[p]) /\ ValuesAt(m, p)
                             /\ FirstRowIndex(chunks, p) = RowsOf(SubSeq(all, 1, p - 1))
                             /\ Offset(chunks, p) = p
    BY <1>1, MultiCovers
  <1>4. kind # "null" => \A i \in DOMAIN chunks : chunks[i].format = chunks[i].index
    <2>1. chunks \in Seq(ChunksOf(kind)) /\ \A i \in 1 .. Len(chunks) : ChunkHolds(kind, chunks[i], offsets(chunks, i - 1))
      BY <1>1 DEF ChunksHold
    <2> DEFINE T == ChunksOf(kind)
    <2>2. chunks \in Seq(T)
      BY <2>1
    <2> HIDE DEF T
    <2>3. DOMAIN chunks = 1 .. Len(chunks)
      BY <2>2
    <2> QED BY <2>1, <2>3 DEF ChunkHolds
  <1> HIDE DEF m, all, n
  <1>5. ASSUME NEW p \in 1 .. n
        PROVE  /\ m.null[p] = (all[p].numNulls = all[p].numValues) /\ m.nulls[p] = all[p].numNulls
               /\ m.null[p] = all[p].min.null
    <2>1. PageOK(kind, all[p]) /\ EntryCovers(kind, m, p, all[p])
      BY <1>3
    <2>2. m.null[p] = all[p].min.null /\ m.nulls[p] = all[p].numNulls
      BY <2>1 DEF EntryCovers
    <2>3. all[p].min.null \in BOOLEAN /\ (all[p].min.null <=> all[p].numNulls = all[p].numValues)
      BY <2>1 DEF PageOK
    <2>4. (all[p].numNulls = all[p].numValues) = all[p].min.null
      BY <2>3
    <2> QED BY <2>2, <2>4
  <1>6. ASSUME NEW p \in bounded
        PROVE  /\ p \in 1 .. n /\ ~m.null[p]
               /\ Compare(m.min[p].value, all[p].min.value) <= 0
               /\ CutTop(kind, all[p]) \/ Compare(all[p].max.value, m.max[p].value) <= 0
    BY <1>2, <1>3 DEF EntryCovers, AtMost
  <1>7. ASSUME NEW p \in bounded, NEW q \in bounded, p < q, m.order = "Ascending", EveryChunkBounded
        PROVE  Compare(m.min[p].value, m.min[q].value) <= 0 /\ Compare(m.max[p].value, m.max[q].value) <= 0
    <2>1. p \in 1 .. n /\ q \in 1 .. n /\ ~m.null[p] /\ ~m.null[q]
      BY <1>6
    <2>2. PICK i, j : IsAt(chunks, p, i, j)
      BY <1>1, <2>1, PageAt DEF n, all
    <2>3. PICK h, l : IsAt(chunks, q, h, l)
      BY <1>1, <2>1, PageAt DEF n, all
    <2>4. AllBounded(chunks, i, h)
      <3> SUFFICES ASSUME NEW x \in i .. h PROVE HasBounds(chunks[x].index)
        BY DEF AllBounded
      <3>1. i \in 1 .. Len(chunks) /\ h \in 1 .. Len(chunks)
        BY <2>2, <2>3 DEF IsAt
      <3>2. x \in 1 .. Len(chunks) /\ DOMAIN chunks = 1 .. Len(chunks)
        <4>1. chunks \in Seq(ChunksOf(kind))
          BY <1>1 DEF ChunksHold
        <4> DEFINE T == ChunksOf(kind)
        <4>2. chunks \in Seq(T)
          BY <4>1
        <4> HIDE DEF T
        <4> QED BY <3>1, <4>2
      <3>3. NumPages(chunks[x].index) \in Nat
        BY <1>1, <3>2, ChunkEntry
      <3>4. LastBounded(chunks[x].index) > 0
        BY <1>7, <3>2 DEF EveryChunkBounded
      <3> QED BY <3>3, <3>4, BoundedAre
    <2>5. Rises(m, p, q)
      BY <1>1, <1>7, <2>1, <2>2, <2>3, <2>4, MultiRises DEF m, n, all
    <2> QED BY <2>5 DEF Rises, AtMost
  <1>8. ASSUME NEW p \in bounded, NEW q \in bounded, p < q, m.order = "Descending", Len(chunks) = 1
        PROVE  Compare(m.min[p].value, m.min[q].value) >= 0 /\ Compare(m.max[p].value, m.max[q].value) >= 0
    <2>1. p \in 1 .. n /\ q \in 1 .. n /\ ~m.null[p] /\ ~m.null[q]
      BY <1>6
    <2>2. Rises(m, q, p)
      BY <1>1, <1>8, <2>1, SingleFalls DEF m, n, all
    <2>3. ValuesAt(m, p) /\ ValuesAt(m, q)
      BY <1>3, <2>1
    <2>4. /\ m.min[p].value \in Seq(Int) /\ m.max[p].value \in Seq(Int)
          /\ m.min[q].value \in Seq(Int) /\ m.max[q].value \in Seq(Int)
      BY <2>3 DEF ValuesAt, Values
    <2>5. AtMost(m.min[q].value, m.min[p].value) /\ AtMost(m.max[q].value, m.max[p].value)
      BY <2>2 DEF Rises
    <2>6. Compare(m.min[p].value, m.min[q].value) >= 0
      BY <2>4, <2>5, AtMostIs
    <2>7. Compare(m.max[p].value, m.max[q].value) >= 0
      BY <2>4, <2>5, AtMostIs
    <2> QED BY <2>6, <2>7
  <1>9. \A p \in 1 .. n : /\ m.null[p] = (all[p].numNulls = all[p].numValues) /\ m.nulls[p] = all[p].numNulls
                          /\ FirstRowIndex(chunks, p) = RowsOf(SubSeq(all, 1, p - 1)) /\ Offset(chunks, p) = p
    BY <1>3, <1>5
  <1>10. \A p \in bounded : /\ Compare(m.min[p].value, all[p].min.value) <= 0
                            /\ CutToTop(all[p]) \/ Compare(all[p].max.value, m.max[p].value) <= 0
    BY <1>2, <1>6
  <1>11. \A p, q \in bounded : p < q =>
            /\ m.order = "Ascending" /\ EveryChunkBounded =>
                  Compare(m.min[p].value, m.min[q].value) <= 0 /\ Compare(m.max[p].value, m.max[q].value) <= 0
            /\ m.order = "Descending" /\ Len(chunks) = 1 =>
                  Compare(m.min[p].value, m.min[q].value) >= 0 /\ Compare(m.max[p].value, m.max[q].value) >= 0
    BY <1>7, <1>8
  <1> QED BY <1>2, <1>3, <1>4, <1>9, <1>10, <1>11, Zenon DEF IndexTruthful, n

\* Search, whichever of the two it is.
LEMMA SearchHolds ==
  ASSUME IndexInv
  PROVE  SearchFindsFirst
  <1> DEFINE m == multiColumnIndex(chunks)
             all == PagesOfAll(chunks)
  <1>1. kind \in IndexKinds /\ ChunksHold(kind, chunks)
    BY DEF IndexInv
  <1>2. /\ Multi = m /\ AllPages = all /\ DOMAIN all = 1 .. Len(all)
        /\ \A page : CutToTop(page) <=> CutTop(kind, page)
    BY AllPagesOf DEF Multi
  <1> SUFFICES ASSUME \A p, q \in DOMAIN AllPages : p < q /\ AllPages[p].min.null => AllPages[q].min.null
               PROVE  ValuesAreFound
    BY DEF SearchFindsFirst
  <1>3. NullsLast(all)
    BY <1>2 DEF NullsLast
  <1> SUFFICES ASSUME NEW v \in ValuesOf(kind)
               PROVE  /\ \A p \in 1 .. (Search(m, v) - 1) : ~Holds(all[p], v) \/ CutToTop(all[p])
                      /\ Search(m, v) <= Len(all) => ~Below(m, v, Search(m, v)) /\ ~Above(m, v, Search(m, v))
    BY <1>2, Zenon DEF ValuesAreFound
  <1>4. v \in Seq(Int)
    BY <1>1, ValuesType
  <1>5. FindsFirst(kind, chunks, v)
    BY <1>1, <1>3, <1>4, BinarySearchFinds, LinearSearchFinds
  <1> HIDE DEF m, all
  <1> QED BY <1>2, <1>5 DEF FindsFirst, m, all

(* The indexes of the chunks, read as one index, tell the truth about the    *)
(* pages: column_index.go, multi_row_group.go.                               *)
THEOREM IndexTruthfulCorrect ==
  ASSUME BoundsRecorded
  PROVE  IndexSpec => []IndexTruthful
  <1>1. IndexInv => IndexTruthful
    BY TruthHolds
  <1> QED BY <1>1, IndexInvCorrect, PTL

(* Search returns the first page that may hold the value and never leaves    *)
(* out a page that does, when null pages come last: search.go.               *)
THEOREM SearchFindsFirstCorrect ==
  ASSUME BoundsRecorded
  PROVE  IndexSpec => []SearchFindsFirst
  <1>1. IndexInv => SearchFindsFirst
    BY SearchHolds
  <1> QED BY <1>1, IndexInvCorrect, PTL

-----------------------------------------------------------------------------
(* The values of a typed column.                                            *)

Integral == {"int32", "uint32", "int64", "uint64", "int96"}
Floating == {"float", "double"}
ByteStorages == {"byteArray", "fixedLenByteArray", "be128"}
Storages == {"boolean"} \cup Integral \cup Floating \cup ByteStorages
Forms == {"num", "bits", "text", "word", "raw", "nan"}
Numbers == {<<"num", n>> : n \in Int}

\* The values that the buffer and the dictionary of a storage hold.
ColumnSet(storage) ==
    CASE storage = "boolean"     -> {Num(0), Num(1)}
      [] storage \in Integral    -> Numbers
      [] storage \in Floating    -> Numbers \cup {NotANumber}
      [] OTHER                   -> Forms \X Int

\* The types: their storage and the order that pages and readers share.
SoundType(type) ==
    /\ type.storage \in Storages
    /\ type.pages = type.compare
    /\ CASE type.pages = "number"     -> type.storage \notin ByteStorages
         [] type.pages = "bytes"      -> type.storage \in ByteStorages
         [] type.pages = "decimal32"  -> type.storage = "fixedLenByteArray"
         [] type.pages = "decimal128" -> type.storage = "be128"
         [] OTHER                     -> FALSE

LEMMA TypesAreSound ==
  ASSUME NEW name \in DOMAIN Types
  PROVE  SoundType(Types[name])
  <1> DEFINE Plain == {booleanType, int32Type, uint32Type, int64Type, uint64Type, int96Type, floatType,
                       doubleType, byteArrayType, fixedLenByteArrayType, be128Type}
             D32 == TypeOf("fixedLenByteArray", "decimal32")
             D128 == TypeOf("be128", "decimal128")
  <1>1. \A t \in Plain : SoundType(t)
    BY DEF SoundType, Storages, Integral, Floating, ByteStorages, TypeOf, booleanType, int32Type, uint32Type,
           int64Type, uint64Type, int96Type, floatType, doubleType, byteArrayType, fixedLenByteArrayType, be128Type
  <1>2. SoundType(D32) /\ SoundType(D128)
    BY DEF SoundType, Storages, Integral, Floating, ByteStorages, TypeOf
  <1>3. /\ intType(W32, FALSE) = uint32Type /\ intType(W64, FALSE) = uint64Type
        /\ timeType(TRUE) = int64Type /\ timeType(FALSE) = int32Type
        /\ stringType = byteArrayType
    <2>1. W32 # W64
      BY DEF W32, W64
    <2> QED BY <2>1, Zenon DEF intType, timeType, stringType, byteArrayType
  <1>4. decimalType(int32Type) = int32Type
    <2>1. int32Type.storage = "int32"
      BY DEF int32Type, TypeOf
    <2> QED BY <2>1, Zenon DEF decimalType
  <1>5. decimalType(fixedLenByteArrayType) = TypeOf("fixedLenByteArray", "decimal32")
    <2>1. fixedLenByteArrayType.storage = "fixedLenByteArray"
      BY DEF fixedLenByteArrayType, TypeOf
    <2> QED BY <2>1, Zenon DEF decimalType
  <1>6. decimalType(be128Type) = TypeOf("be128", "decimal128")
    <2>1. be128Type.storage = "be128"
      BY DEF be128Type, TypeOf
    <2> QED BY <2>1, Zenon DEF decimalType
  <1> HIDE DEF D32, D128
  <1>7. /\ name \in {"boolean", "int32", "uint32", "int64", "uint64", "int96", "float", "double"} => Types[name] \in Plain
        /\ name \in {"byteArray", "fixed", "be128", "string", "enum", "json", "bson", "geometry", "geography",
                      "uuid", "interval"} => Types[name] \in Plain
        /\ name \in {"date", "timestamp", "timeMillis", "timeMicros", "decimalInt"} => Types[name] \in Plain
        /\ name \in {"decimal32", "decimal128"} => Types[name] \in {D32, D128}
    <2>1. /\ Types["boolean"] = booleanType /\ Types["int32"] = int32Type
          /\ Types["uint32"] = uint32Type /\ Types["int64"] = int64Type
          /\ Types["uint64"] = uint64Type /\ Types["int96"] = int96Type
          /\ Types["float"] = floatType /\ Types["double"] = doubleType
      BY <1>3 DEF Types
    <2>2. name \in {"byteArray", "fixed", "be128", "string", "enum", "json", "bson", "geometry", "geography",
                    "uuid", "interval"} => Types[name] \in Plain
      BY <1>3 DEF Types, enumType, jsonType, bsonType, geometryType, geographyType, uuidType, intervalType
    <2>3. /\ Types["date"] = int32Type /\ Types["timestamp"] = int64Type
          /\ Types["timeMillis"] = int32Type /\ Types["timeMicros"] = int64Type
          /\ Types["decimalInt"] = int32Type
      BY <1>3, <1>4 DEF Types, dateType, timestampType
    <2>4. name \in {"decimal32", "decimal128"} => Types[name] \in {D32, D128}
      BY <1>5, <1>6 DEF Types, D32, D128
    <2> QED BY <2>1, <2>2, <2>3, <2>4
  <1>8. name \in {"boolean", "int32", "uint32", "int64", "uint64", "int96", "float", "double", "byteArray", "fixed",
                  "be128", "string", "enum", "json", "bson", "geometry", "geography", "uuid", "interval", "date",
                  "timestamp", "timeMillis", "timeMicros", "decimalInt", "decimal32", "decimal128"}
    BY DEF Types
  <1> QED BY <1>1, <1>2, <1>7, <1>8

\* The powers of two of the scaled widths.
LEMMA Powers ==
    /\ 2^1 = 2
    /\ 2^W32 = 4 /\ 2^(W32 - 1) = 2
    /\ 2^W64 = 8 /\ 2^(W64 - 1) = 4
    /\ 2^W96 = 16 /\ 2^(W96 - 1) = 8
    /\ 2^W128 = 32 /\ 2^(W128 - 1) = 16
  BY DEF W32, W64, W96, W128

\* The arithmetic of a width gives integers.
LEMMA WidthsAreIntegers ==
  ASSUME NEW n \in Int
  PROVE  /\ Signed(W32, n) \in Int /\ Unsigned(W32, n) \in Int
         /\ Signed(W64, n) \in Int /\ Unsigned(W64, n) \in Int
         /\ Signed(W96, n) \in Int /\ Unsigned(W96, n) \in Int
         /\ Signed(W128, n) \in Int /\ Unsigned(1, n) \in Int
  BY Powers DEF Signed, Unsigned

\* A Go value is a kind and a number.
LEMMA InputsAre ==
  ASSUME NEW g \in GoInputs
  PROVE  N(g) \in Int
  BY DEF GoInputs, N

\* An INT32 is in the range of its type.
LEMMA InputKinds ==
  ASSUME NEW g \in GoInputs, Kind(g) = "int32"
  PROVE  N(g) \in {-2, 1}
  BY DEF GoInputs, N, Kind

-----------------------------------------------------------------------------
(* What the buffer and the dictionary make of a Go value.                   *)

Inserts(storage, g, v) == \A dict : DictionaryInsert(storage, dict, g) = Insert(dict, v)
Writes(storage, g, v) == \A values : BufferWrite(storage, values, g) = AppendValue(values, v)

\* Every storage inserts a value that it holds, or refuses; so it is written,
\* and the two are the same but for the writes that are known to differ.
LEMMA ValuesOfBoth ==
  ASSUME NEW storage \in Storages, NEW g \in GoInputs
  PROVE  \E u, v \in ColumnSet(storage) \cup {Panic} :
            /\ Inserts(storage, g, u) /\ Writes(storage, g, v)
            /\ u # Panic /\ v # Panic /\ ~KnownToDiffer(storage, g) => u = v
  <1>1. N(g) \in Int
    BY InputsAre
  <1> DEFINE Kept(v) == v \in ColumnSet(storage) \cup {Panic}
             Same(u, v) == u # Panic /\ v # Panic /\ ~KnownToDiffer(storage, g) => u = v
             Goal == \E u, v \in ColumnSet(storage) \cup {Panic} :
                        Inserts(storage, g, u) /\ Writes(storage, g, v) /\ Same(u, v)
  <1>2. ASSUME NEW u, NEW v, Kept(u), Kept(v), Inserts(storage, g, u), Writes(storage, g, v), Same(u, v)
        PROVE  Goal
    BY <1>2
  <1> HIDE DEF Goal
  <1>3. CASE storage = "boolean"
    <2> DEFINE u == IF IsNumber(g) THEN Num(IF N(g) = 0 THEN 0 ELSE 1)
                    ELSE Num(IF Kind(g) = "empty" THEN 0 ELSE 1)
    <2>1. Kept(u)
      <3>1. ColumnSet("boolean") = {Num(0), Num(1)}
        BY Zenon DEF ColumnSet, Integral, Floating
      <3>2. u \in {Num(0), Num(1)}
        OBVIOUS
      <3> QED BY <1>3, <3>1, <3>2
    <2>2. Inserts(storage, g, u)
      BY <1>3 DEF Inserts, DictionaryInsert, booleanDictionary
    <2>3. Writes(storage, g, u)
      BY <1>3 DEF Writes, BufferWrite, booleanColumnBuffer
    <2> QED BY <1>2, <2>1, <2>2, <2>3
  <1>4. CASE storage = "int32"
    <2> DEFINE u == IF IsNumber(g) THEN Num(Signed(W32, N(g))) ELSE ParseInt(W32, g)
    <2>1. Kept(u)
      BY <1>1, <1>4, WidthsAreIntegers DEF ColumnSet, Integral, Numbers, Num, ParseInt
    <2>2. Inserts(storage, g, u)
      BY <1>4 DEF Inserts, DictionaryInsert, int32Dictionary
    <2>3. Writes(storage, g, u)
      BY <1>4 DEF Writes, BufferWrite, int32ColumnBuffer
    <2> QED BY <1>2, <2>1, <2>2, <2>3
  <1>5. CASE storage = "uint32"
    <2> DEFINE u == IF IsNumber(g) THEN Num(Unsigned(W32, N(g))) ELSE ParseUint(W32, g)
    <2>1. Kept(u)
      BY <1>1, <1>5, WidthsAreIntegers DEF ColumnSet, Integral, Numbers, Num, ParseUint
    <2>2. Inserts(storage, g, u)
      BY <1>5 DEF Inserts, DictionaryInsert, uint32Dictionary
    <2>3. Writes(storage, g, u)
      BY <1>5 DEF Writes, BufferWrite, uint32ColumnBuffer
    <2> QED BY <1>2, <2>1, <2>2, <2>3
  <1>6. CASE storage = "int64"
    <2> DEFINE u == IF Kind(g) = "bool" THEN Panic
                    ELSE IF IsNumber(g) THEN Num(Signed(W64, N(g))) ELSE ParseInt(W64, g)
               v == IF IsNumber(g) THEN Num(Signed(W64, N(g))) ELSE ParseInt(W64, g)
    <2>1. Kept(u)
      BY <1>1, <1>6, WidthsAreIntegers DEF ColumnSet, Integral, Numbers, Num, ParseInt
    <2>2. Inserts(storage, g, u)
      BY <1>6 DEF Inserts, DictionaryInsert, int64Dictionary
    <2>3. Writes(storage, g, v)
      BY <1>6 DEF Writes, BufferWrite, int64ColumnBuffer
    <2>4. Kept(v)
      BY <1>1, <1>6, WidthsAreIntegers DEF ColumnSet, Integral, Numbers, Num, ParseInt
    <2>5. Same(u, v)
      BY DEF IsNumber, ParseInt
    <2> QED BY <1>2, <2>1, <2>2, <2>3, <2>4, <2>5
  <1>7. CASE storage = "uint64"
    <2> DEFINE u == IF Kind(g) = "int96" THEN Num(Unsigned(W64, Signed(W64, N(g))))
                    ELSE IF IsNumber(g) THEN Num(Unsigned(W64, N(g))) ELSE ParseUint(W32, g)
               v == IF Kind(g) = "int96" THEN Num(Unsigned(W64, Signed(W32, N(g))))
                    ELSE IF IsNumber(g) THEN Num(Unsigned(W64, N(g))) ELSE ParseUint(W32, g)
    <2>1. Kept(u)
      BY <1>1, <1>7, WidthsAreIntegers DEF ColumnSet, Integral, Numbers, Num, ParseUint
    <2>2. Inserts(storage, g, u)
      BY <1>7 DEF Inserts, DictionaryInsert, uint64Dictionary
    <2>3. Writes(storage, g, v)
      BY <1>7 DEF Writes, BufferWrite, uint64ColumnBuffer
    <2>4. Kept(v)
      BY <1>1, <1>7, WidthsAreIntegers DEF ColumnSet, Integral, Numbers, Num, ParseUint
    <2>5. Same(u, v)
      BY <1>1, <1>7, Powers DEF KnownToDiffer, InSigned, Signed, Unsigned
    <2> QED BY <1>2, <2>1, <2>2, <2>3, <2>4, <2>5
  <1>8. CASE storage = "int96"
    <2> DEFINE u == IF Kind(g) = "int32" THEN Num(Unsigned(W32, N(g)))
                    ELSE IF IsNumber(g) THEN Num(Signed(W96, N(g))) ELSE ParseInt96(g)
               v == IF IsNumber(g) THEN Num(Signed(W96, N(g))) ELSE ParseInt96(g)
    <2>1. Kept(u)
      BY <1>1, <1>8, WidthsAreIntegers DEF ColumnSet, Integral, Numbers, Num, ParseInt96
    <2>2. Inserts(storage, g, u)
      BY <1>8 DEF Inserts, DictionaryInsert, int96Dictionary
    <2>3. Writes(storage, g, v)
      BY <1>8 DEF Writes, BufferWrite, int96ColumnBuffer
    <2>4. Kept(v)
      BY <1>1, <1>8, WidthsAreIntegers DEF ColumnSet, Integral, Numbers, Num, ParseInt96
    <2>5. Same(u, v)
      BY <1>1, <1>8, InputKinds, Powers DEF KnownToDiffer, IsNumber, Signed, Unsigned
    <2> QED BY <1>2, <2>1, <2>2, <2>3, <2>4, <2>5
  <1>9. CASE storage = "float"
    <2> DEFINE u == IF Kind(g) = "nan" THEN NotANumber
                    ELSE IF Kind(g) = "int96" THEN Num(Signed(W32, N(g)))
                    ELSE IF IsNumber(g) THEN Num(N(g)) ELSE ParseUint(W32, g)
               v == FloatWrite(g)
    <2>1. Kept(u)
      BY <1>1, <1>9, WidthsAreIntegers DEF ColumnSet, Integral, Floating, Numbers, Num, ParseUint
    <2>2. Inserts(storage, g, u)
      BY <1>9 DEF Inserts, DictionaryInsert, floatDictionary
    <2>3. Writes(storage, g, v)
      BY <1>9 DEF Writes, BufferWrite, floatColumnBuffer
    <2>4. Kept(v)
      BY <1>1, <1>9, WidthsAreIntegers DEF ColumnSet, Integral, Floating, Numbers, Num, ParseUint, FloatWrite, ParseFloat
    <2>5. Same(u, v)
      BY DEF FloatWrite, ParseUint, ParseFloat, IsNumber
    <2> QED BY <1>2, <2>1, <2>2, <2>3, <2>4, <2>5
  <1>10. CASE storage = "double"
    <2> DEFINE u == IF Kind(g) = "nan" THEN NotANumber
                    ELSE IF Kind(g) = "int96" THEN Num(Signed(W64, N(g)))
                    ELSE IF IsNumber(g) THEN Num(N(g)) ELSE ParseUint(W32, g)
               v == FloatWrite(g)
    <2>1. Kept(u)
      BY <1>1, <1>10, WidthsAreIntegers DEF ColumnSet, Integral, Floating, Numbers, Num, ParseUint
    <2>2. Inserts(storage, g, u)
      BY <1>10 DEF Inserts, DictionaryInsert, doubleDictionary
    <2>3. Writes(storage, g, v)
      BY <1>10 DEF Writes, BufferWrite, doubleColumnBuffer
    <2>4. Kept(v)
      BY <1>1, <1>10, WidthsAreIntegers DEF ColumnSet, Integral, Floating, Numbers, Num, ParseUint, FloatWrite, ParseFloat
    <2>5. Same(u, v)
      BY <1>1, <1>10, Powers DEF KnownToDiffer, FloatWrite, ParseUint, ParseFloat, IsNumber, InSigned, Signed
    <2> QED BY <1>2, <2>1, <2>2, <2>3, <2>4, <2>5
  <1>11. CASE storage = "byteArray"
    <2> DEFINE u == CASE Kind(g) = "bool"                  -> <<"word", N(g)>>
                      [] Kind(g) = "int96"                 -> Text(Unsigned(W96, N(g)))
                      [] Kind(g) = "nan"                   -> NotANumber
                      [] Kind(g) \in {"empty", "sixteen"}  -> <<"raw", N(g)>>
                      [] OTHER                             -> Text(N(g))
    <2>1. Kept(u)
      BY <1>1, <1>11, WidthsAreIntegers DEF ColumnSet, Integral, Floating, Forms, Text, NotANumber
    <2>2. Inserts(storage, g, u)
      BY <1>11 DEF Inserts, DictionaryInsert, byteArrayDictionary
    <2>3. Writes(storage, g, u)
      BY <1>11 DEF Writes, BufferWrite, byteArrayColumnBuffer
    <2> QED BY <1>2, <2>1, <2>2, <2>3
  <1>12. CASE storage = "fixedLenByteArray"
    <2> DEFINE u == IF IsNumber(g) \/ IsFloat(g) THEN BigEndian(W32, g) ELSE Panic
    <2>1. Kept(u)
      BY <1>1, <1>12, WidthsAreIntegers DEF ColumnSet, Integral, Floating, Forms, Num, BigEndian
    <2>2. Inserts(storage, g, u)
      BY <1>12 DEF Inserts, DictionaryInsert, fixedLenByteArrayDictionary
    <2>3. Writes(storage, g, u)
      BY <1>12 DEF Writes, BufferWrite, fixedLenByteArrayColumnBuffer
    <2> QED BY <1>2, <2>1, <2>2, <2>3
  <1>13. CASE storage = "be128"
    <2> DEFINE u == CASE IsNumber(g) \/ IsFloat(g) -> BigEndian(W128, g)
                      [] Kind(g) = "sixteen"       -> <<"raw", N(g)>>
                      [] OTHER                     -> Panic
    <2>1. Kept(u)
      BY <1>1, <1>13, WidthsAreIntegers DEF ColumnSet, Integral, Floating, Forms, Num, BigEndian
    <2>2. Inserts(storage, g, u)
      BY <1>13 DEF Inserts, DictionaryInsert, be128Dictionary
    <2>3. Writes(storage, g, u)
      BY <1>13 DEF Writes, BufferWrite, be128ColumnBuffer
    <2> QED BY <1>2, <2>1, <2>2, <2>3
  <1> QED BY <1>3, <1>4, <1>5, <1>6, <1>7, <1>8, <1>9, <1>10, <1>11, <1>12, <1>13
          DEF Storages, Integral, Floating, ByteStorages, Goal

\* What a storage inserts is one value, and so is what it writes.
LEMMA OneValue ==
  ASSUME NEW storage, NEW g, NEW u, NEW v, v # Panic
  PROVE  /\ Inserts(storage, g, u) /\ Inserts(storage, g, v) => u = v
         /\ Writes(storage, g, u) /\ Writes(storage, g, v) => u = v
  <1>1. ASSUME Inserts(storage, g, u), Inserts(storage, g, v) PROVE u = v
    <2>1. Insert(<<>>, u).values = Insert(<<>>, v).values
      BY <1>1 DEF Inserts
    <2>2. \A w : w # Panic => Insert(<<>>, w).values = <<w>>
      <3> TAKE w
      <3> HAVE w # Panic
      <3>1. ~ \E i \in DOMAIN <<>> : <<>>[i] = w
        OBVIOUS
      <3>2. Insert(<<>>, w) = [panics |-> FALSE, values |-> Append(<<>>, w), index |-> Len(<<>>) + 1]
        BY <3>1, Zenon DEF Insert
      <3> QED BY <3>2
    <2>3. u # Panic
      <3> SUFFICES ASSUME u = Panic PROVE FALSE
        OBVIOUS
      <3>1. ~ \E i \in DOMAIN <<>> : <<>>[i] = u \/ <<>>[i] = v
        OBVIOUS
      <3>2. Insert(<<>>, u) = [panics |-> TRUE, values |-> <<>>, index |-> 0]
        BY <3>1, Zenon DEF Insert
      <3>3. Insert(<<>>, v) = [panics |-> FALSE, values |-> Append(<<>>, v), index |-> Len(<<>>) + 1]
        BY <3>1, Zenon DEF Insert
      <3>4. Insert(<<>>, u) = Insert(<<>>, v)
        BY <1>1 DEF Inserts
      <3>5. Insert(<<>>, u).panics /\ ~Insert(<<>>, v).panics
        BY <3>2, <3>3
      <3> QED BY <3>4, <3>5
    <2>4. <<u>> = <<v>>
      BY <2>1, <2>2, <2>3
    <2> QED BY <2>4
  <1>2. ASSUME Writes(storage, g, u), Writes(storage, g, v) PROVE u = v
    <2>1. AppendValue(<<>>, u) = AppendValue(<<>>, v)
      BY <1>2 DEF Writes
    <2>2. Append(<<>>, u) = Append(<<>>, v)
      BY <2>1 DEF AppendValue
    <2> QED BY <2>2
  <1> QED BY <1>1, <1>2

\* An insertion returns the place of the value and keeps the others in theirs.
LEMMA InsertKeeps ==
  ASSUME NEW S, Panic \notin S, NEW dict \in Seq(S), NEW v \in S \cup {Panic}, ~ Insert(dict, v).panics
  PROVE  LET d == Insert(dict, v)
         IN  /\ v \in S /\ d.values \in Seq(S) /\ d.index \in 1 .. Len(d.values) /\ d.values[d.index] = v
             /\ \A i \in 1 .. Len(dict) : i \in 1 .. Len(d.values) /\ d.values[i] = dict[i]
  <1> DEFINE d == Insert(dict, v)
             known == \E i \in DOMAIN dict : dict[i] = v
  <1>1. DOMAIN dict = 1 .. Len(dict) /\ Len(dict) \in Nat /\ \A i \in 1 .. Len(dict) : dict[i] \in S
    OBVIOUS
  <1>2. v \in S
    <2> SUFFICES ASSUME v = Panic PROVE FALSE
      OBVIOUS
    <2>1. ~known
      BY <1>1
    <2>2. Insert(dict, v) = [panics |-> TRUE, values |-> dict, index |-> 0]
      BY <2>1, Zenon DEF Insert
    <2> QED BY <2>2
  <1>3. v # Panic
    BY <1>2
  <1>4. CASE known
    <2>1. d = [panics |-> FALSE, values |-> dict, index |-> PositionIn(dict, v)]
      BY <1>3, <1>4, Zenon DEF Insert
    <2>2. PositionIn(dict, v) \in DOMAIN dict /\ dict[PositionIn(dict, v)] = v
      BY <1>4, Zenon DEF PositionIn
    <2>3. d.values = dict /\ d.index = PositionIn(dict, v)
      BY <2>1
    <2> HIDE DEF d
    <2> QED BY <1>1, <1>2, <2>2, <2>3 DEF d
  <1>5. CASE ~known
    <2>1. d = [panics |-> FALSE, values |-> Append(dict, v), index |-> Len(dict) + 1]
      BY <1>3, <1>5, Zenon DEF Insert
    <2>2. d.values = Append(dict, v) /\ d.index = Len(dict) + 1
      BY <2>1
    <2> HIDE DEF d
    <2>3. /\ d.values \in Seq(S) /\ Len(d.values) = Len(dict) + 1 /\ d.values[Len(dict) + 1] = v
          /\ \A i \in 1 .. Len(dict) : d.values[i] = dict[i]
      BY <1>2, <2>2
    <2> QED BY <1>1, <1>2, <2>2, <2>3 DEF d
  <1> QED BY <1>4, <1>5

\* No storage holds a panic.
LEMMA NoPanicStored ==
  ASSUME NEW storage \in Storages
  PROVE  Panic \notin ColumnSet(storage)
  <1>1. Panic \notin Numbers /\ Panic \notin Forms \X Int /\ Panic # NotANumber /\ Panic \notin {Num(0), Num(1)}
    BY DEF Numbers, Forms, Panic, NotANumber, Num
  <1>2. ColumnSet(storage) \in {{Num(0), Num(1)}, Numbers, Numbers \cup {NotANumber}, Forms \X Int}
    BY Zenon DEF ColumnSet, Storages, Integral, Floating, ByteStorages
  <1> QED BY <1>1, <1>2

-----------------------------------------------------------------------------
(* The column: each index leads to the value that its Go value inserts, and  *)
(* the plain values are those that the Go values after them write.           *)

\* The storage of the column.
Storage == Types[typeName].storage

TypedType ==
    /\ typeName \in TypeNames
    /\ encoding \in {"dictionary", "plain"}
    /\ given \in Seq(GoInputs)
    /\ typedDict \in Seq(ColumnSet(Storage)) /\ typedPlain \in Seq(ColumnSet(Storage))
    /\ typedIndex \in Seq(Nat)
    /\ Len(given) = Len(typedIndex) + Len(typedPlain)
    /\ encoding = "dictionary" => typedPlain = <<>>

IndexesLead ==
    \A i \in 1 .. Len(typedIndex) :
        typedIndex[i] \in 1 .. Len(typedDict) /\ Inserts(Storage, given[i], typedDict[typedIndex[i]])

PlainFollows ==
    \A i \in 1 .. Len(typedPlain) : Writes(Storage, given[Len(typedIndex) + i], typedPlain[i])

TypedInv == TypedType /\ IndexesLead /\ PlainFollows

\* The type of the column has one of the storages.
LEMMA StorageIs == ASSUME typeName \in TypeNames PROVE Storage \in Storages
  BY TypedAssumption, TypesAreSound DEF Storage, SoundType

\* An empty column.
LEMMA TypedInitInv == TypedInit => TypedInv
  BY DEF TypedInit, TypedInitOn, TypedInv, TypedType, IndexesLead, PlainFollows

\* A write to the dictionary: the index of the value is the last one.
LEMMA WriteIndexedInv ==
  ASSUME TypedInv, WriteIndexed
  PROVE  TypedInv'
  <1> DEFINE st == Types[typeName].storage
  <1>1. st = Storage /\ st \in Storages /\ Storage' = st /\ Panic \notin ColumnSet(st)
    BY StorageIs, NoPanicStored DEF TypedInv, TypedType, Storage, WriteIndexed
  <1>2. PICK g \in GoInputs :
           LET d == DictionaryInsert(st, typedDict, g)
           IN  /\ ~ d.panics /\ given' = Append(given, g) /\ typedDict' = d.values
               /\ typedIndex' = Append(typedIndex, d.index)
    BY DEF WriteIndexed
  <1>3. encoding = "dictionary" /\ typeName' = typeName /\ typedPlain' = typedPlain /\ encoding' = encoding
    BY DEF WriteIndexed
  <1> HIDE DEF st
  <1>4. PICK u \in ColumnSet(st) \cup {Panic} : Inserts(st, g, u)
    BY <1>1, ValuesOfBoth
  <1> DEFINE d == Insert(typedDict, u)
  <1>5. DictionaryInsert(st, typedDict, g) = d
    BY <1>4 DEF Inserts
  <1>6. typedDict \in Seq(ColumnSet(st)) /\ typedIndex \in Seq(Nat) /\ given \in Seq(GoInputs)
    BY <1>1 DEF TypedInv, TypedType
  <1>7. /\ u \in ColumnSet(st) /\ d.values \in Seq(ColumnSet(st)) /\ d.index \in 1 .. Len(d.values) /\ d.values[d.index] = u
        /\ \A i \in 1 .. Len(typedDict) : i \in 1 .. Len(d.values) /\ d.values[i] = typedDict[i]
    <2> DEFINE S == ColumnSet(st)
    <2>1. Panic \notin S /\ typedDict \in Seq(S) /\ u \in S \cup {Panic} /\ ~ Insert(typedDict, u).panics
      BY <1>1, <1>2, <1>4, <1>5, <1>6
    <2> HIDE DEF S
    <2>2. /\ u \in S /\ d.values \in Seq(S) /\ d.index \in 1 .. Len(d.values) /\ d.values[d.index] = u
          /\ \A i \in 1 .. Len(typedDict) : i \in 1 .. Len(d.values) /\ d.values[i] = typedDict[i]
      BY <2>1, InsertKeeps
    <2> QED BY <2>2 DEF S
  <1>8. given' = Append(given, g) /\ typedDict' = d.values /\ typedIndex' = Append(typedIndex, d.index)
    BY <1>2, <1>5
  <1> HIDE DEF d
  <1>9. typedPlain = <<>> /\ Len(given) = Len(typedIndex) /\ typeName \in TypeNames
    BY <1>3 DEF TypedInv, TypedType
  <1>10. d.index \in Nat
    BY <1>7
  <1>11. TypedType'
    BY <1>1, <1>10, <1>2, <1>3, <1>6, <1>7, <1>8, <1>9 DEF TypedType
  <1>12. IndexesLead'
    <2>1. Len(typedIndex') = Len(typedIndex) + 1 /\ Len(typedIndex) \in Nat
      BY <1>6, <1>8, <1>10
    <2> SUFFICES ASSUME NEW i \in 1 .. Len(typedIndex) + 1
                 PROVE  typedIndex'[i] \in 1 .. Len(typedDict') /\ Inserts(st, given'[i], typedDict'[typedIndex'[i]])
      BY <1>1, <2>1 DEF IndexesLead
    <2>2. CASE i = Len(typedIndex) + 1
      BY <1>10, <1>2, <1>4, <1>6, <1>7, <1>8, <1>9, <2>1, <2>2
    <2>3. CASE i \in 1 .. Len(typedIndex)
      <3>1. typedIndex'[i] = typedIndex[i] /\ given'[i] = given[i]
        BY <1>2, <1>6, <1>8, <1>9, <1>10, <2>3
      <3>2. typedIndex[i] \in 1 .. Len(typedDict) /\ Inserts(st, given[i], typedDict[typedIndex[i]])
        BY <1>1, <2>3 DEF TypedInv, IndexesLead
      <3> QED BY <1>7, <1>8, <3>1, <3>2
    <2> QED BY <2>1, <2>2, <2>3
  <1>13. PlainFollows'
    BY <1>3, <1>9 DEF PlainFollows
  <1> QED BY <1>11, <1>12, <1>13 DEF TypedInv

\* A write to the column buffer.
LEMMA WritePlainInv ==
  ASSUME TypedInv, WritePlain
  PROVE  TypedInv'
  <1> DEFINE st == Types[typeName].storage
  <1>1. st = Storage /\ st \in Storages /\ Storage' = st /\ Panic \notin ColumnSet(st)
    BY StorageIs, NoPanicStored DEF TypedInv, TypedType, Storage, WritePlain
  <1>2. PICK g \in GoInputs :
           LET b == BufferWrite(st, typedPlain, g)
           IN  ~ b.panics /\ given' = Append(given, g) /\ typedPlain' = b.values
    BY DEF WritePlain
  <1>3. /\ encoding = "plain" /\ typeName' = typeName /\ typedDict' = typedDict /\ typedIndex' = typedIndex
        /\ encoding' = encoding
    BY DEF WritePlain
  <1> HIDE DEF st
  <1>4. PICK v \in ColumnSet(st) \cup {Panic} : Writes(st, g, v)
    BY <1>1, ValuesOfBoth
  <1>5. v \in ColumnSet(st) /\ typedPlain' = Append(typedPlain, v) /\ given' = Append(given, g)
    BY <1>2, <1>4 DEF Writes, AppendValue
  <1>6. /\ typedDict \in Seq(ColumnSet(st)) /\ typedPlain \in Seq(ColumnSet(st)) /\ typedIndex \in Seq(Nat)
        /\ given \in Seq(GoInputs) /\ typeName \in TypeNames /\ Len(given) = Len(typedIndex) + Len(typedPlain)
    BY <1>1 DEF TypedInv, TypedType
  <1>7. TypedType'
    <2>1. given' \in Seq(GoInputs) /\ Len(given') = Len(given) + 1
      BY <1>2, <1>5, <1>6
    <2>2. typedPlain' \in Seq(ColumnSet(st)) /\ Len(typedPlain') = Len(typedPlain) + 1
      BY <1>5, <1>6
    <2>3. Len(given') = Len(typedIndex') + Len(typedPlain')
      BY <1>3, <1>6, <2>1, <2>2
    <2> QED BY <1>1, <1>3, <1>6, <2>1, <2>2, <2>3 DEF TypedType
  <1>8. IndexesLead'
    <2> SUFFICES ASSUME NEW i \in 1 .. Len(typedIndex)
                 PROVE  typedIndex[i] \in 1 .. Len(typedDict) /\ Inserts(st, given'[i], typedDict[typedIndex[i]])
      BY <1>1, <1>3 DEF IndexesLead
    <2>1. given'[i] = given[i]
      BY <1>2, <1>5, <1>6
    <2> QED BY <1>1, <2>1 DEF TypedInv, IndexesLead
  <1>9. PlainFollows'
    <2>1. Len(typedIndex) \in Nat /\ Len(typedPlain) \in Nat /\ Len(typedPlain') = Len(typedPlain) + 1
      BY <1>5, <1>6
    <2> SUFFICES ASSUME NEW i \in 1 .. Len(typedPlain) + 1
                 PROVE  Writes(st, given'[Len(typedIndex) + i], typedPlain'[i])
      BY <1>1, <1>3, <2>1 DEF PlainFollows
    <2>2. CASE i = Len(typedPlain) + 1
      BY <1>2, <1>4, <1>5, <1>6, <2>1, <2>2
    <2>3. CASE i \in 1 .. Len(typedPlain)
      BY <1>1, <1>2, <1>5, <1>6, <2>1, <2>3 DEF TypedInv, PlainFollows
    <2> QED BY <2>1, <2>2, <2>3
  <1> QED BY <1>7, <1>8, <1>9 DEF TypedInv

\* Every step, the fallback included.
LEMMA TypedNextInv == TypedInv /\ [TypedNext]_typedVars => TypedInv'
  <1> SUFFICES ASSUME TypedInv, [TypedNext]_typedVars PROVE TypedInv'
    OBVIOUS
  <1>1. CASE WriteIndexed
    BY <1>1, WriteIndexedInv
  <1>2. CASE WritePlain
    BY <1>2, WritePlainInv
  <1>3. CASE FallBack
    BY <1>3 DEF FallBack, Storage, TypedInv, TypedType, IndexesLead, PlainFollows
  <1>4. CASE UNCHANGED typedVars
    BY <1>4 DEF typedVars, Storage, TypedInv, TypedType, IndexesLead, PlainFollows
  <1> QED BY <1>1, <1>2, <1>3, <1>4 DEF TypedNext

\* Every column keeps it.
LEMMA TypedInvCorrect == TypedSpec => []TypedInv
  BY TypedInitInv, TypedNextInv, PTL DEF TypedSpec

\* The values of the column, of the Go values in their order.
LEMMA ColumnValuesAre ==
  ASSUME TypedInv, NEW i \in DOMAIN given
  PROVE  /\ given[i] \in GoInputs /\ ColumnValues[i] \in ColumnSet(Storage)
         /\ Inserts(Storage, given[i], ColumnValues[i]) \/ Writes(Storage, given[i], ColumnValues[i])
  <1> DEFINE k == Len(typedIndex)
             st == ColumnSet(Storage)
             front == [j \in 1 .. k |-> typedDict[typedIndex[j]]]
  <1>1. /\ typedDict \in Seq(st) /\ typedPlain \in Seq(st) /\ typedIndex \in Seq(Nat) /\ k \in Nat
        /\ given \in Seq(GoInputs) /\ Len(given) = k + Len(typedPlain) /\ Len(typedPlain) \in Nat
    BY DEF TypedInv, TypedType
  <1>2. \A j \in 1 .. k : typedDict[typedIndex[j]] \in st
    <2> HIDE DEF st
    <2> QED BY <1>1 DEF TypedInv, IndexesLead
  <1>3. IndexedValues = front
    BY <1>1 DEF IndexedValues
  <1>4. front \in Seq(st) /\ Len(front) = k
    <2> HIDE DEF st, k
    <2> QED BY <1>1, <1>2
  <1>5. i \in 1 .. k + Len(typedPlain) /\ given[i] \in GoInputs
    BY <1>1
  <1>6. CASE i \in 1 .. k
    <2>1. ColumnValues[i] = typedDict[typedIndex[i]]
      <3> HIDE DEF st
      <3>1. ColumnValues[i] = front[i]
        BY <1>1, <1>3, <1>4, <1>6 DEF ColumnValues
      <3> QED BY <1>6, <3>1
    <2> QED BY <1>2, <1>5, <1>6, <2>1 DEF TypedInv, IndexesLead
  <1>7. CASE i \notin 1 .. k
    <2>1. i - k \in 1 .. Len(typedPlain) /\ k + (i - k) = i
      BY <1>1, <1>5, <1>7
    <2>2. ColumnValues[i] = typedPlain[i - k]
      <3> HIDE DEF st, front
      <3> QED BY <1>1, <1>3, <1>4, <1>5, <1>7 DEF ColumnValues
    <2>3. Writes(Storage, given[k + (i - k)], typedPlain[i - k])
      BY <2>1 DEF TypedInv, PlainFollows
    <2>4. typedPlain[i - k] \in st
      <3> HIDE DEF st
      <3> QED BY <1>1, <2>1
    <2> QED BY <1>5, <2>1, <2>2, <2>3, <2>4
  <1> QED BY <1>6, <1>7

\* Two equal Go values: what one inserts, the other inserts or writes.
LEMMA FallbackHolds ==
  ASSUME TypedInv
  PROVE  FallbackKeepsValues
  <1> SUFFICES ASSUME NEW i \in DOMAIN given, NEW j \in DOMAIN given, given[i] = given[j],
                      ~ KnownToDiffer(Storage, given[i])
               PROVE  ColumnValues[i] = ColumnValues[j]
    BY DEF FallbackKeepsValues, Storage
  <1> DEFINE g == given[i]
  <1>1. Storage \in Storages /\ Panic \notin ColumnSet(Storage)
    BY StorageIs, NoPanicStored DEF TypedInv, TypedType
  <1>2. /\ g \in GoInputs /\ ColumnValues[i] # Panic /\ ColumnValues[j] # Panic
        /\ Inserts(Storage, g, ColumnValues[i]) \/ Writes(Storage, g, ColumnValues[i])
        /\ Inserts(Storage, g, ColumnValues[j]) \/ Writes(Storage, g, ColumnValues[j])
    BY <1>1, ColumnValuesAre
  <1>3. PICK u, v \in ColumnSet(Storage) \cup {Panic} :
            /\ Inserts(Storage, g, u) /\ Writes(Storage, g, v)
            /\ u # Panic /\ v # Panic /\ ~KnownToDiffer(Storage, g) => u = v
    BY <1>1, <1>2, ValuesOfBoth
  <1>4. u # Panic /\ v # Panic => u = v
    BY <1>3
  <1>5. \A w : w # Panic => (Inserts(Storage, g, w) => w = u) /\ (Writes(Storage, g, w) => w = v)
    BY <1>3, OneValue
  <1> HIDE DEF g
  <1> QED BY <1>2, <1>4, <1>5

-----------------------------------------------------------------------------
(* The bounds of pages.                                                     *)

\* A function on 1 .. n has a least value on each nonempty part of its domain.
LEMMA LeastValue ==
  ASSUME NEW n \in Nat, NEW f \in [1 .. n -> Int], NEW T \in SUBSET (1 .. n), T # {}
  PROVE  \E x \in T : \A y \in T : f[x] <= f[y]
  <1> DEFINE Least(x, d) == x \in T /\ x <= d /\ \A y \in T : y <= d => f[x] <= f[y]
             Stage(d) == (\E y \in T : y <= d) => \E x \in T : Least(x, d)
             Stages == {d \in Nat : Stage(d)}
  <1>1. Stage(0)
    OBVIOUS
  <1>2. ASSUME NEW d \in Nat, Stage(d) PROVE Stage(d + 1)
    <2> SUFFICES ASSUME NEW z \in T, z <= d + 1 PROVE \E x \in T : Least(x, d + 1)
      OBVIOUS
    <2>1. \A y \in T : y \in Nat /\ f[y] \in Int /\ (y <= d + 1 <=> y <= d \/ y = d + 1)
      OBVIOUS
    <2>2. CASE ~ \E y \in T : y <= d
      BY <2>1, <2>2
    <2>3. CASE \E y \in T : y <= d
      <3>1. PICK x \in T : Least(x, d)
        BY <1>2, <2>3
      <3>2. CASE d + 1 \in T /\ f[d + 1] < f[x]
        <4>1. Least(d + 1, d + 1)
          BY <2>1, <3>1, <3>2
        <4> QED BY <3>2, <4>1
      <3>3. CASE ~(d + 1 \in T /\ f[d + 1] < f[x])
        <4>1. Least(x, d + 1)
          BY <2>1, <3>1, <3>3
        <4> QED BY <4>1
      <3> QED BY <3>2, <3>3
    <2> QED BY <2>2, <2>3
  <1> HIDE DEF Stage
  <1>3. Stages \in SUBSET Nat /\ 0 \in Stages /\ \A d \in Stages : d + 1 \in Stages
    BY <1>1, <1>2
  <1> HIDE DEF Stages
  <1>4. Stage(n)
    BY <1>3, SetInduction DEF Stages
  <1>5. \A y \in T : y <= n
    OBVIOUS
  <1>6. \E x \in T : Least(x, n)
    BY <1>4, <1>5 DEF Stage
  <1> QED BY <1>5, <1>6

\* The place of a value in each order.
Place(order, v) ==
    IF order = "number" THEN v[2]
    ELSE IF order = "bytes" THEN BytesKey(v)
    ELSE IF order = "decimal32" THEN compareDecimalByteArrays(W32, v)
    ELSE compareDecimalByteArrays(W128, v)

\* Values that the order compares: a number is one, in the order of numbers.
Comparable(order, v) ==
    /\ v[1] \in Forms /\ v[2] \in Int
    /\ order = "number" => v[1] # "nan"

\* The orders compare places.
LEMMA LessIsPlace ==
  ASSUME NEW order, NEW u, NEW v, Comparable(order, u), Comparable(order, v)
  PROVE  /\ Place(order, u) \in Int /\ Place(order, v) \in Int
         /\ Less(order, u, v) <=> Place(order, u) < Place(order, v)
  <1>1. \A w : Comparable(order, w) => Place(order, w) \in Int
    <2> SUFFICES ASSUME NEW w, Comparable(order, w) PROVE Place(order, w) \in Int
      OBVIOUS
    <2>1. w[2] \in Int
      BY DEF Comparable
    <2>2. BytesKey(w) \in Int
      <3> DEFINE n == w[2]
                 bits == IF n < 0 THEN 70 - n ELSE 50 + n
                 text == IF n < 0 THEN -200 - n ELSE 10 * n
                 none == -300
                 word == 900 + n
      <3>1. n \in Int /\ bits \in Int /\ text \in Int /\ none \in Int /\ word \in Int
        BY <2>1
      <3>2. BytesKey(w) = CASE w[1] = "num"     -> n
                            [] w[1] = "bits"    -> bits
                            [] w[1] = "text"    -> text
                            [] w = <<"raw", 0>> -> none
                            [] w[1] = "nan"     -> 800
                            [] w[1] = "word"    -> word
                            [] OTHER            -> 1000
        BY DEF BytesKey
      <3> HIDE DEF n, bits, text, none, word
      <3>3. BytesKey(w) \in {n, bits, text, none, word, 800, 1000}
        BY <3>2, Zenon
      <3> QED BY <3>1, <3>3
    <2>3. Signed(W32, w[2]) \in Int /\ Signed(W128, w[2]) \in Int
      BY <2>1, WidthsAreIntegers
    <2> QED BY <2>1, <2>2, <2>3 DEF Place, compareDecimalByteArrays
  <1>2. CASE order = "number"
    <2>1. u[1] # "nan" /\ v[1] # "nan"
      BY <1>2 DEF Comparable
    <2>2. Less(order, u, v) <=> u[1] # "nan" /\ v[1] # "nan" /\ u[2] < v[2]
      BY <1>2, Zenon DEF Less
    <2> QED BY <1>1, <1>2, <2>1, <2>2 DEF Place
  <1>3. CASE order = "bytes"
    <2>1. Less(order, u, v) <=> BytesKey(u) < BytesKey(v)
      BY <1>3, Zenon DEF Less
    <2> QED BY <1>1, <1>3, <2>1 DEF Place
  <1>4. CASE order = "decimal32"
    <2>1. Less(order, u, v) <=> compareDecimalByteArrays(W32, u) < compareDecimalByteArrays(W32, v)
      BY <1>4, Zenon DEF Less
    <2> QED BY <1>1, <1>4, <2>1 DEF Place
  <1>5. CASE order \notin {"number", "bytes", "decimal32"}
    <2>1. order # "number" /\ order # "bytes" /\ order # "decimal32"
      BY <1>5
    <2>2. Less(order, u, v) <=> compareDecimalByteArrays(W128, u) < compareDecimalByteArrays(W128, v)
      BY <2>1, Zenon DEF Less
    <2> QED BY <1>1, <2>1, <2>2 DEF Place
  <1> QED BY <1>2, <1>3, <1>4, <1>5

\* The least and the greatest of some values of a page are among them, and no
\* other is less or greater.
LEMMA MinMaxIs ==
  ASSUME NEW order, NEW V, NEW vals \in Seq(V), NEW S \in SUBSET Elements(vals), S # {},
         \A v \in S : Comparable(order, v)
  PROVE  LET b == MinMax(order, S)
         IN  /\ DOMAIN b = 1 .. 2 /\ b[1] \in S /\ b[2] \in S
             /\ \A v \in S : ~ Less(order, v, b[1]) /\ ~ Less(order, b[2], v)
  <1> DEFINE n == Len(vals)
             T == {i \in 1 .. n : vals[i] \in S}
             up == [i \in 1 .. n |-> IF i \in T THEN Place(order, vals[i]) ELSE 0]
             down == [i \in 1 .. n |-> IF i \in T THEN -Place(order, vals[i]) ELSE 0]
  <1>1. n \in Nat /\ DOMAIN vals = 1 .. n
    OBVIOUS
  <1>2. T \in SUBSET (1 .. n) /\ T # {} /\ \A v \in S : \E i \in T : v = vals[i]
    BY <1>1 DEF Elements
  <1>3. \A i \in T : Place(order, vals[i]) \in Int
    BY LessIsPlace
  <1>4. up \in [1 .. n -> Int] /\ down \in [1 .. n -> Int]
    <2> HIDE DEF T
    <2> QED BY <1>3
  <1> HIDE DEF n
  <1>5. PICK x \in T : \A y \in T : up[x] <= up[y]
    <2> HIDE DEF T, up, down
    <2> QED BY <1>1, <1>2, <1>4, LeastValue
  <1>6. PICK z \in T : \A y \in T : down[z] <= down[y]
    <2> HIDE DEF T, up, down
    <2> QED BY <1>1, <1>2, <1>4, LeastValue
  <1>7. \A y \in T : up[y] = Place(order, vals[y]) /\ down[y] = -Place(order, vals[y])
    BY <1>2
  <1> HIDE DEF up, down
  <1>8. \E v \in S : \A u \in S : ~ Less(order, u, v)
    <2>1. vals[x] \in S
      OBVIOUS
    <2>2. ASSUME NEW u \in S PROVE ~ Less(order, u, vals[x])
      <3>1. PICK y \in T : u = vals[y]
        BY <1>2
      <3>2. Place(order, vals[x]) <= Place(order, u)
        BY <1>5, <1>7, <3>1
      <3>3. Comparable(order, u) /\ Comparable(order, vals[x])
        BY <2>1
      <3> QED BY <3>2, <3>3, LessIsPlace
    <2> QED BY <2>1, <2>2
  <1>9. \E v \in S : \A u \in S : ~ Less(order, v, u)
    <2>1. vals[z] \in S
      OBVIOUS
    <2>2. ASSUME NEW u \in S PROVE ~ Less(order, vals[z], u)
      <3>1. PICK y \in T : u = vals[y]
        BY <1>2
      <3>2. Place(order, vals[z]) \in Int /\ Place(order, u) \in Int
        BY <1>3, <3>1
      <3>3. Place(order, u) <= Place(order, vals[z])
        BY <1>6, <1>7, <3>1, <3>2
      <3>4. Comparable(order, u) /\ Comparable(order, vals[z])
        BY <2>1
      <3> QED BY <3>2, <3>3, <3>4, LessIsPlace
    <2> QED BY <2>1, <2>2
  <1> DEFINE least == CHOOSE v \in S : \A u \in S : ~ Less(order, u, v)
             most == CHOOSE v \in S : \A u \in S : ~ Less(order, v, u)
  <1>10. least \in S /\ \A u \in S : ~ Less(order, u, least)
    BY <1>8
  <1>11. most \in S /\ \A u \in S : ~ Less(order, most, u)
    BY <1>9
  <1>12. MinMax(order, S) = <<least, most>>
    BY DEF MinMax
  <1> HIDE DEF least, most
  <1> QED BY <1>10, <1>11, <1>12

\* The values of a storage, in the order of a type with that storage: those
\* that are not comparable are not numbers, and only floats have them.
LEMMA StoredCompare ==
  ASSUME NEW type, SoundType(type), NEW v \in ColumnSet(type.storage)
  PROVE  /\ v[1] \in Forms /\ v[2] \in Int
         /\ v = NotANumber \/ Comparable(type.compare, v)
         /\ v[1] = "nan" <=> v[1] = NotANumber[1]
         /\ type.compare = "number" /\ v[1] = "nan" => v = NotANumber /\ type.storage \in Floating
  <1> DEFINE st == type.storage
  <1>1. st \in Storages
    BY DEF SoundType
  <1>2. /\ st = "boolean" => ColumnSet(st) = {Num(0), Num(1)}
        /\ st \in Integral => ColumnSet(st) = Numbers
        /\ st \in Floating => ColumnSet(st) = Numbers \cup {NotANumber}
        /\ st \in ByteStorages => ColumnSet(st) = Forms \X Int
    <2>1. st = "boolean" => ColumnSet(st) = {Num(0), Num(1)}
      BY Zenon DEF ColumnSet, Integral, Floating
    <2>2. st \in Integral => ColumnSet(st) = Numbers
      BY Zenon DEF ColumnSet, Integral, Floating
    <2>3. st \in Floating => ColumnSet(st) = Numbers \cup {NotANumber}
      BY Zenon DEF ColumnSet, Integral, Floating
    <2>4. st \in ByteStorages => ColumnSet(st) = Forms \X Int
      BY Zenon DEF ColumnSet, Integral, Floating, ByteStorages
    <2> QED BY <2>1, <2>2, <2>3, <2>4
  <1>3. type.compare = "number" => st \notin ByteStorages
    BY Zenon DEF SoundType
  <1>4. \A w \in Numbers \cup {Num(0), Num(1)} : w[1] = "num" /\ w[2] \in Int
    BY DEF Numbers, Num
  <1>5. NotANumber[1] = "nan" /\ NotANumber[2] \in Int
    BY DEF NotANumber
  <1>6. "num" \in Forms /\ "nan" \in Forms /\ "num" # "nan"
    BY DEF Forms
  <1> HIDE DEF st
  <1>7. CASE st \in ByteStorages
    BY <1>2, <1>3, <1>5, <1>7 DEF st, Comparable
  <1>8. CASE st \in Floating
    BY <1>2, <1>4, <1>5, <1>6, <1>8 DEF Comparable, st
  <1>9. CASE st = "boolean" \/ st \in Integral
    BY <1>2, <1>4, <1>5, <1>6, <1>9 DEF st, Comparable
  <1> QED BY <1>1, <1>7, <1>8, <1>9 DEF Storages

\* Bounds of all the values, but for those that the order of numbers leaves out.
LEMMA MinMaxCovers ==
  ASSUME NEW type, SoundType(type), NEW vals \in Seq(ColumnSet(type.storage)),
         NEW S \in SUBSET Elements(vals), S # {}, Elements(vals) \subseteq S \cup {NotANumber},
         IF type.compare = "number" THEN NotANumber \notin S ELSE S = Elements(vals)
  PROVE  Covers(type, vals, MinMax(type.compare, S)) /\ NumbersAreBounded(type, vals, MinMax(type.compare, S))
  <1> DEFINE order == type.compare
             V == ColumnSet(type.storage)
             b == MinMax(order, S)
  <1>1. \A v \in V : v[1] \in Forms /\ v[2] \in Int /\ (order = "number" /\ v[1] = "nan" => v = NotANumber)
    BY StoredCompare
  <1> HIDE DEF V
  <1>2. vals \in Seq(V) /\ DOMAIN vals = 1 .. Len(vals) /\ \A i \in DOMAIN vals : vals[i] \in V
    BY DEF V
  <1>3. \A v \in S : v \in V /\ Comparable(order, v)
    BY <1>1, <1>2 DEF Comparable, Elements
  <1>4. /\ DOMAIN b = 1 .. 2 /\ b[1] \in S /\ b[2] \in S
        /\ \A v \in S : ~ Less(order, v, b[1]) /\ ~ Less(order, b[2], v)
    BY <1>2, <1>3, MinMaxIs
  <1> HIDE DEF b
  <1>5. ASSUME NEW i \in DOMAIN vals PROVE ~ Less(order, vals[i], b[1]) /\ ~ Less(order, b[2], vals[i])
    <2>1. CASE vals[i] \in S
      BY <1>4, <2>1
    <2>2. CASE vals[i] \notin S
      <3>1. vals[i] = NotANumber /\ order = "number"
        BY <2>2 DEF Elements
      <3>2. vals[i][1] = "nan"
        BY <3>1 DEF NotANumber
      <3> QED BY <3>1, <3>2, Zenon DEF Less
    <2> QED BY <2>1, <2>2
  <1>6. Covers(type, vals, b)
    BY <1>5 DEF Covers
  <1>7. NumbersAreBounded(type, vals, b)
    BY <1>4 DEF NumbersAreBounded, Elements
  <1> QED BY <1>6, <1>7 DEF b

\* Bounds that are not numbers, of values that are compared as numbers.
LEMMA NaNCovers ==
  ASSUME NEW type, type.compare = "number", NEW vals
  PROVE  /\ Covers(type, vals, <<NotANumber, NotANumber>>)
         /\ Elements(vals) = {NotANumber} => NumbersAreBounded(type, vals, <<NotANumber, NotANumber>>)
  <1>1. \A v : ~ Less("number", v, NotANumber) /\ ~ Less("number", NotANumber, v)
    <2>1. NotANumber[1] = "nan"
      BY DEF NotANumber
    <2> QED BY <2>1, Zenon DEF Less
  <1> QED BY <1>1 DEF Covers, NumbersAreBounded

\* The elements of a page with values.
LEMMA ElementsAre ==
  ASSUME NEW V, NEW vals \in Seq(V), vals # <<>>
  PROVE  vals[1] \in Elements(vals) /\ vals[1] \in V /\ Elements(vals) # {} /\ Elements(vals) \subseteq V
  BY DEF Elements

Bounded(type, vals, bounds) == Covers(type, vals, bounds) /\ NumbersAreBounded(type, vals, bounds)

\* The bounds that pages of numbers and of byte arrays report.
LEMMA PlainBounds ==
  ASSUME NEW type, SoundType(type), NEW vals \in Seq(ColumnSet(type.storage)), vals # <<>>,
         type.storage \notin Floating
  PROVE  Bounded(type, vals, MinMax(type.compare, Elements(vals)))
  <1> DEFINE V == ColumnSet(type.storage)
  <1>1. \A v \in V : type.compare = "number" /\ v[1] = "nan" => FALSE
    BY StoredCompare
  <1>2. Elements(vals) # {} /\ Elements(vals) \subseteq V
    BY ElementsAre
  <1>3. type.compare = "number" => NotANumber \notin Elements(vals)
    <2>1. NotANumber[1] = "nan"
      BY DEF NotANumber
    <2> HIDE DEF V
    <2> QED BY <1>1, <1>2, <2>1
  <1> HIDE DEF V
  <1> QED BY <1>2, <1>3, MinMaxCovers DEF Bounded

\* The bounds that pages of floats report.
LEMMA FloatBounds ==
  ASSUME NEW type, SoundType(type), NEW vals \in Seq(ColumnSet(type.storage)), vals # <<>>,
         type.compare = "number"
  PROVE  Bounded(type, vals, FloatPageBounds(vals))
  <1> DEFINE numbers == Elements(vals) \ {NotANumber}
  <1>1. vals[1] \in Elements(vals) /\ Elements(vals) # {}
    BY ElementsAre
  <1>2. CASE numbers = {}
    BY <1>1, <1>2, NaNCovers DEF FloatPageBounds, Bounded
  <1>3. CASE numbers # {}
    BY <1>3, MinMaxCovers DEF FloatPageBounds, Bounded
  <1> QED BY <1>2, <1>3

\* The bounds that pages of booleans report.
LEMMA BooleanBounds ==
  ASSUME NEW type, SoundType(type), NEW vals \in Seq(ColumnSet("boolean")), vals # <<>>,
         type.storage = "boolean", type.compare = "number"
  PROVE  Bounded(type, vals, booleanPage(vals).bounds)
  <1>1. ColumnSet("boolean") = {Num(0), Num(1)}
    BY Zenon DEF ColumnSet, Integral, Floating
  <1> DEFINE low == Num(IF Num(0) \in Elements(vals) THEN 0 ELSE 1)
             high == Num(IF Num(1) \in Elements(vals) THEN 1 ELSE 0)
  <1>2. booleanPage(vals).bounds = <<low, high>>
    BY DEF booleanPage, PageOf
  <1>3. \A i \in DOMAIN vals : vals[i] \in {Num(0), Num(1)} /\ vals[i] \in Elements(vals)
    BY <1>1 DEF Elements
  <1>4. \A u, v : u[1] = "num" /\ v[1] = "num" => (Less("number", u, v) <=> u[2] < v[2])
    BY Zenon DEF Less
  <1>5. low \in {Num(0), Num(1)} /\ high \in {Num(0), Num(1)}
    OBVIOUS
  <1>6. \A i \in DOMAIN vals : ~ Less("number", vals[i], low) /\ ~ Less("number", high, vals[i])
    <2>1. \A a, b \in {0, 1} : Less("number", Num(a), Num(b)) <=> a < b
      BY <1>4 DEF Num
    <2>2. /\ low = Num(0) \/ (low = Num(1) /\ Num(0) \notin Elements(vals))
          /\ high = Num(1) \/ (high = Num(0) /\ Num(1) \notin Elements(vals))
      OBVIOUS
    <2> HIDE DEF low, high
    <2> QED BY <1>3, <2>1, <2>2
  <1>7. NotANumber \notin {low, high}
    BY <1>5 DEF NotANumber, Num
  <1> HIDE DEF low, high
  <1>8. Elements(<<low, high>>) = {low, high}
    BY DEF Elements
  <1> QED BY <1>2, <1>6, <1>7, <1>8 DEF Bounded, Covers, NumbersAreBounded

\* The bounds of a page of any type.
LEMMA PageBounded ==
  ASSUME NEW type, SoundType(type), NEW vals \in Seq(ColumnSet(type.storage)), vals # <<>>
  PROVE  Bounded(type, vals, TypedPage(type, vals).bounds)
  <1> DEFINE page == TypedPage(type, vals)
  <1>1. /\ type.pages = type.compare /\ type.storage \in Storages
        /\ type.compare \in {"number", "bytes", "decimal32", "decimal128"}
        /\ type.compare = "number" => type.storage \notin ByteStorages
        /\ type.compare = "bytes" => type.storage \in ByteStorages
        /\ type.compare \in {"decimal32", "decimal128"} => type.storage \in ByteStorages
    <2>1. type.pages = type.compare /\ type.storage \in Storages
      BY DEF SoundType
    <2>2. type.compare \in {"number", "bytes", "decimal32", "decimal128"}
      BY <2>1, Zenon DEF SoundType
    <2>3. type.compare = "number" => type.storage \notin ByteStorages
      BY <2>1, Zenon DEF SoundType
    <2>4. type.compare = "bytes" => type.storage \in ByteStorages
      BY <2>1, Zenon DEF SoundType
    <2>5. type.compare = "decimal32" => type.storage \in ByteStorages
      BY <2>1, Zenon DEF SoundType, ByteStorages
    <2>6. type.compare = "decimal128" => type.storage \in ByteStorages
      BY <2>1, Zenon DEF SoundType, ByteStorages
    <2> QED BY <2>1, <2>2, <2>3, <2>4, <2>5, <2>6
  <1>2. CASE type.compare \in {"decimal32", "decimal128"}
    <2>1. type.storage \notin Floating
      BY <1>1, <1>2 DEF ByteStorages, Floating
    <2>2. type.pages # "bytes" /\ type.pages # "number"
      BY <1>1, <1>2
    <2>3. page = decimalPage(type.pages, vals)
      BY <2>2 DEF TypedPage
    <2>4. page.bounds = MinMax(type.compare, Elements(vals))
      BY <1>1, <2>3 DEF decimalPage, PageOf
    <2> QED BY <2>1, <2>4, PlainBounds
  <1>3. type.compare \notin {"decimal32", "decimal128"} => type.pages \in {"bytes", "number"}
    BY <1>1
  <1> DEFINE plain == PageOf(vals, MinMax(type.compare, Elements(vals)))
             page1 == CASE type.storage = "boolean"           -> booleanPage(vals)
                        [] type.storage = "int32"             -> int32Page(vals)
                        [] type.storage = "uint32"            -> uint32Page(vals)
                        [] type.storage = "int64"             -> int64Page(vals)
                        [] type.storage = "uint64"            -> uint64Page(vals)
                        [] type.storage = "int96"             -> int96Page(vals)
                        [] type.storage = "float"             -> floatPage(vals)
                        [] type.storage = "double"            -> doublePage(vals)
                        [] type.storage = "byteArray"         -> byteArrayPage(vals)
                        [] type.storage = "fixedLenByteArray" -> fixedLenByteArrayPage(vals)
                        [] type.storage = "be128"             -> be128Page(vals)
  <1>4. CASE type.compare \notin {"decimal32", "decimal128"} /\ type.storage \in Integral
    <2>1. type.compare = "number"
      BY <1>1, <1>4 DEF Integral, ByteStorages
    <2>2. page = page1
      BY <1>3, <1>4 DEF TypedPage
    <2>3. page1 \in {int32Page(vals), uint32Page(vals), int64Page(vals), uint64Page(vals), int96Page(vals)}
      BY <1>4, Zenon DEF Integral
    <2>4. page = plain
      BY <2>1, <2>2, <2>3 DEF int32Page, uint32Page, int64Page, uint64Page, int96Page
    <2>5. page.bounds = MinMax(type.compare, Elements(vals)) /\ type.storage \notin Floating
      BY <1>4, <2>4 DEF PageOf, Integral, Floating
    <2> QED BY <2>5, PlainBounds
  <1>5. CASE type.compare \notin {"decimal32", "decimal128"} /\ type.storage \in ByteStorages
    <2>1. type.compare = "bytes"
      BY <1>1, <1>5
    <2>2. page = page1
      BY <1>3, <1>5 DEF TypedPage
    <2>3. page1 \in {byteArrayPage(vals), fixedLenByteArrayPage(vals), be128Page(vals)}
      BY <1>5, Zenon DEF ByteStorages
    <2>4. page = plain
      BY <2>1, <2>2, <2>3 DEF byteArrayPage, fixedLenByteArrayPage, be128Page
    <2>5. page.bounds = MinMax(type.compare, Elements(vals)) /\ type.storage \notin Floating
      BY <1>5, <2>4 DEF PageOf, ByteStorages, Floating
    <2> QED BY <2>5, PlainBounds
  <1>6. CASE type.compare \notin {"decimal32", "decimal128"} /\ type.storage \in Floating
    <2>1. type.compare = "number"
      BY <1>1, <1>6 DEF Floating, ByteStorages
    <2>2. page = page1
      BY <1>3, <1>6 DEF TypedPage
    <2>3. page1 \in {floatPage(vals), doublePage(vals)}
      BY <1>6, Zenon DEF Floating
    <2>4. page.bounds = FloatPageBounds(vals)
      <3>1. floatPage(vals).bounds = FloatPageBounds(vals) /\ doublePage(vals).bounds = FloatPageBounds(vals)
        BY DEF floatPage, doublePage, PageOf
      <3> HIDE DEF page, page1
      <3> QED BY <2>2, <2>3, <3>1
    <2> QED BY <2>1, <2>4, FloatBounds
  <1>7. CASE type.compare \notin {"decimal32", "decimal128"} /\ type.storage = "boolean"
    <2>1. type.compare = "number"
      BY <1>1, <1>7 DEF ByteStorages
    <2>2. page = page1
      BY <1>3, <1>7 DEF TypedPage
    <2>3. page1 = booleanPage(vals)
      BY <1>7, Zenon
    <2> QED BY <1>7, <2>1, <2>2, <2>3, BooleanBounds
  <1> QED BY <1>1, <1>2, <1>4, <1>5, <1>6, <1>7 DEF Storages

\* The bounds of the values that a page of indexes leads to.
LEMMA DictionaryBounded ==
  ASSUME NEW type, SoundType(type), NEW vals \in Seq(ColumnSet(type.storage)), vals # <<>>
  PROVE  LET bounds == DictionaryBounds(type, vals)
         IN  Covers(type, vals, bounds) /\ (vals[1] = NotANumber \/ NumbersAreBounded(type, vals, bounds))
  <1> DEFINE order == type.compare
             S == IF order = "number" THEN Elements(vals) \ {NotANumber} ELSE Elements(vals)
  <1>1. DictionaryBounds(type, vals) = dictionaryBounds(order, vals)
    BY DEF SoundType, DictionaryBounds, decimalDictionary
  <1>2. vals[1] \in Elements(vals) /\ Elements(vals) # {}
    BY ElementsAre
  <1>3. CASE vals[1] = NotANumber /\ order = "number"
    BY <1>1, <1>3, NaNCovers DEF dictionaryBounds
  <1>4. CASE ~(vals[1] = NotANumber /\ order = "number")
    <2>1. dictionaryBounds(order, vals) = MinMax(order, S)
      BY <1>4, Zenon DEF dictionaryBounds
    <2>2. /\ S \in SUBSET Elements(vals) /\ S # {} /\ Elements(vals) \subseteq S \cup {NotANumber}
          /\ IF type.compare = "number" THEN NotANumber \notin S ELSE S = Elements(vals)
      BY <1>2, <1>4
    <2> HIDE DEF S
    <2>3. Covers(type, vals, MinMax(order, S)) /\ NumbersAreBounded(type, vals, MinMax(order, S))
      BY <2>2, MinMaxCovers
    <2> QED BY <1>1, <2>1, <2>3
  <1> QED BY <1>3, <1>4

\* The bounds of the plain page and those of the indexes.
LEMMA BoundsHold ==
  ASSUME TypedInv
  PROVE  BoundsCoverPages
  <1> DEFINE type == Types[typeName]
             V == ColumnSet(Storage)
  <1>1. SoundType(type) /\ Storage = type.storage
    BY TypedAssumption, TypesAreSound DEF TypedInv, TypedType, Storage
  <1>2. typedPlain \in Seq(V) /\ typedDict \in Seq(V) /\ typedIndex \in Seq(Nat)
    BY DEF TypedInv, TypedType
  <1>3. IndexedValues \in Seq(V)
    <2> DEFINE front == [j \in 1 .. Len(typedIndex) |-> typedDict[typedIndex[j]]]
    <2> HIDE DEF V
    <2>1. \A j \in 1 .. Len(typedIndex) : typedDict[typedIndex[j]] \in V
      BY <1>2 DEF TypedInv, IndexesLead
    <2>2. IndexedValues = front /\ Len(typedIndex) \in Nat
      BY <1>2 DEF IndexedValues
    <2>3. front \in Seq(V)
      BY <2>1, <2>2
    <2> QED BY <2>2, <2>3
  <1> HIDE DEF type
  <1>4. typedPlain # <<>> => /\ Covers(type, typedPlain, TypedPage(type, typedPlain).bounds)
                             /\ NumbersAreBounded(type, typedPlain, TypedPage(type, typedPlain).bounds)
    BY <1>1, <1>2, PageBounded DEF Bounded
  <1>5. IndexedValues # <<>> =>
           /\ Covers(type, IndexedValues, DictionaryBounds(type, IndexedValues))
           /\ \/ IndexedValues[1] = NotANumber
              \/ NumbersAreBounded(type, IndexedValues, DictionaryBounds(type, IndexedValues))
    BY <1>1, <1>3, DictionaryBounded
  <1> QED BY <1>4, <1>5, Zenon DEF BoundsCoverPages, type

(* Equal Go values are equal values of the column before and after the       *)
(* fallback to plain pages, in columns of every type and length:             *)
(* dictionary_<type>.go insertXxx against column_buffer_<type>.go writeXxx.  *)
THEOREM FallbackKeepsValuesCorrect == TypedSpec => []FallbackKeepsValues
  <1>1. TypedInv => FallbackKeepsValues
    BY FallbackHolds
  <1> QED BY <1>1, TypedInvCorrect, PTL

(* The bounds of pages of every type cover their values in the order that    *)
(* readers compare them in, and hide no number: page_<type>.go Bounds.       *)
THEOREM BoundsCoverPagesCorrect == TypedSpec => []BoundsCoverPages
  <1>1. TypedInv => BoundsCoverPages
    BY BoundsHold
  <1> QED BY <1>1, TypedInvCorrect, PTL

-----------------------------------------------------------------------------
(* Values converted from type to type.                                      *)

\* The powers of two of the scaled widths.
LEMMA BitPowers == 2^Bits32 = 4 /\ 2^Bits64 = 32 /\ 2^Bits96 = 64
                   /\ 2^(Bits32 - 1) = 2 /\ 2^(Bits64 - 1) = 16 /\ 2^(Bits96 - 1) = 32
  BY DEF Bits32, Bits64, Bits96

LEMMA WrapIs ==
  ASSUME NEW n \in Int
  PROVE  /\ Wrap(Bits32, n) = ((n + 2) % 4) - 2
         /\ Wrap(Bits64, n) = ((n + 16) % 32) - 16
         /\ Wrap(Bits96, n) = ((n + 32) % 64) - 32
  BY BitPowers DEF Wrap

LEMMA KindsAre ==
  /\ KindOf("int32") = "int32" /\ KindOf("uint32") = "int32"
  /\ KindOf("int64") = "int64" /\ KindOf("uint64") = "int64"
  /\ KindOf("int96") = "int96" /\ KindOf("float") = "float" /\ KindOf("double") = "double"
  /\ KindOf("byteArray") = "byteArray" /\ KindOf("fixed") = "fixed" /\ KindOf("string") = "byteArray"
  /\ KindOf("date") = "int32" /\ KindOf("timestampMillis") = "int64" /\ KindOf("timestampNanos") = "int64"
  BY DEF KindOf, TypeTable

\* How a value of each type has the number n.  Bytes have it in any of their forms.
ByteForms == {"le", "ieee32", "ieee64", "text", "hex"}
NumericTypes == {"int32", "uint32", "int64", "uint64", "int96", "float", "double"}

BitsOf(type, n) ==
    IF type = "uint32" THEN Wrap(Bits32, n)
    ELSE IF type = "uint64" THEN Wrap(Bits64, n) ELSE n

Has(type, n, v) ==
    /\ v = <<v[1], v[2], v[3]>>
    /\ type \in NumericTypes => v = <<KindOf(type), "num", BitsOf(type, n)>>
    /\ type \in {"fixed", "byteArray", "string"} =>
          /\ v[2] \in ByteForms /\ v[3] = n
          /\ v[1] = KindOf(type) \/ (type = "byteArray" /\ v[1] = "fixed")

NumericConverts(target, source, v) ==
    IF source = "string" THEN convertStringTo(target, v) ELSE ByKind(target, source, v)

\* The conversions among the plain types.
LEMMA PlainConverts ==
  ASSUME NEW source \in PlainTypes, NEW v
  PROVE  /\ \A type \in NumericTypes : ConvertValue(type, source, v) = NumericConverts(KindOf(type), source, v)
         /\ ConvertValue("fixed", source, v) = NumericConverts("fixed", source, v)
         /\ ConvertValue("byteArray", source, v) = byteArrayConvertValue(source, v)
         /\ ConvertValue("string", source, v) = convertToString(v)
  <1>1. ConvertValue("int32", source, v) = int32ConvertValue(source, v) /\ ConvertValue("uint32", source, v) = int32ConvertValue(source, v)
    BY Zenon DEF ConvertValue, IsTime, IsTimestamp
  <1>2. ConvertValue("int64", source, v) = int64ConvertValue(source, v) /\ ConvertValue("uint64", source, v) = int64ConvertValue(source, v)
    BY Zenon DEF ConvertValue, IsTime, IsTimestamp
  <1>3. ConvertValue("int96", source, v) = int96ConvertValue(source, v)
    BY Zenon DEF ConvertValue, IsTime, IsTimestamp
  <1>4. ConvertValue("float", source, v) = floatConvertValue(source, v)
    BY Zenon DEF ConvertValue, IsTime, IsTimestamp
  <1>5. ConvertValue("double", source, v) = doubleConvertValue(source, v)
    BY Zenon DEF ConvertValue, IsTime, IsTimestamp
  <1>6. ConvertValue("fixed", source, v) = fixedLenByteArrayConvertValue(source, v)
    BY Zenon DEF ConvertValue, IsTime, IsTimestamp
  <1>7. ConvertValue("byteArray", source, v) = byteArrayConvertValue(source, v)
    BY Zenon DEF ConvertValue, IsTime, IsTimestamp
  <1>8. ConvertValue("string", source, v) = stringConvertValue(source, v)
    BY Zenon DEF ConvertValue, IsTime, IsTimestamp
  <1>9. stringConvertValue(source, v) = convertToString(v)
    <2>1. source # "date" /\ source \notin {"timeMicros", "timeMillis", "timeNanos"}
      BY DEF PlainTypes
    <2> QED BY <2>1, Zenon DEF stringConvertValue
  <1> QED
    BY <1>1, <1>2, <1>3, <1>4, <1>5, <1>6, <1>7, <1>8, <1>9, KindsAre
    DEF NumericTypes, NumericConverts, int32ConvertValue, int64ConvertValue, int96ConvertValue,
        floatConvertValue, doubleConvertValue, fixedLenByteArrayConvertValue

\* The numbers the model's values have.
InModel(n) == n \in Int /\ -32 <= n /\ n < 64

\* A number a type can hold is stored in its kind with the bits the type has for it.
LEMMA StoredBits ==
  ASSUME NEW type \in NumericTypes, NEW n, InModel(n), CanHold(type, n)
  PROVE  Stored(KindOf(type), n) = <<KindOf(type), "num", BitsOf(type, n)>>
  <1>0. n \in Int
    BY DEF InModel
  <1>1. CASE type = "int32"
    BY <1>1, KindsAre DEF CanHold, Stored, WidthOf, BitsOf
  <1>2. CASE type = "uint32"
    BY <1>2, KindsAre DEF Stored, WidthOf, BitsOf
  <1>3. CASE type = "int64"
    BY <1>3, KindsAre DEF CanHold, Stored, WidthOf, BitsOf
  <1>4. CASE type = "uint64"
    BY <1>4, KindsAre DEF Stored, WidthOf, BitsOf
  <1>5. CASE type = "int96"
    BY <1>5, KindsAre DEF CanHold, Stored, WidthOf, BitsOf
  <1>6. CASE type \in {"float", "double"}
    BY <1>6, KindsAre DEF Stored, BitsOf
  <1> QED BY <1>1, <1>2, <1>3, <1>4, <1>5, <1>6 DEF NumericTypes

\* Two types that hold a number have the same bits for it, unless it needs the
\* highest bit of an unsigned type.
LEMMA SameBits ==
  ASSUME NEW source \in NumericTypes, NEW type, NEW n, InModel(n),
         ~ ChangesNumbers(source, type, n)
  PROVE  BitsOf(source, n) = n
  BY DEF ChangesNumbers, BitsOf

LEMMA SignedBits ==
  ASSUME NEW source \in NumericTypes, NEW type \in NumericTypes, NEW n, InModel(n),
         CanHold(source, n), CanHold(type, n), KindOf(source) = KindOf(type),
         BitsOf(source, n) = n
  PROVE  BitsOf(type, n) = n
  BY KindsAre DEF NumericTypes, CanHold, BitsOf

\* The unsigned number of the bytes of a number that is not negative.
LEMMA BytesOfNumber ==
  ASSUME NEW source \in NumericTypes, NEW n, InModel(n), CanHold(source, n), n >= 0,
         BitsOf(source, n) = n
  PROVE  /\ KindOf(source) = "int32" => n % 2^Bits32 = n
         /\ KindOf(source) = "int64" => n % 2^Bits64 = n
         /\ KindOf(source) = "int96" => n % 2^Bits96 = n
  <1>0. n \in Int
    BY DEF InModel
  <1>1. CASE KindOf(source) = "int32"
    BY <1>0, <1>1, KindsAre, WrapIs, BitPowers DEF NumericTypes, CanHold, BitsOf
  <1>2. CASE KindOf(source) = "int64"
    BY <1>0, <1>2, KindsAre, WrapIs, BitPowers DEF NumericTypes, CanHold, BitsOf
  <1>3. CASE KindOf(source) = "int96"
    BY <1>3, BitPowers DEF InModel
  <1> QED BY <1>1, <1>2, <1>3

LEMMA ReversedDigit ==
  ASSUME NEW n \in Int, 0 <= n, n <= 3
  PROVE  Wrap(Bits96, MostSignificantFirst(IF n < 0 THEN - n ELSE n)) = n
  <1>1. MostSignificantFirst(IF n < 0 THEN - n ELSE n) = n
    BY DEF MostSignificantFirst
  <1>2. Wrap(Bits96, n) = ((n + 32) % 64) - 32
    BY WrapIs
  <1>3. (n + 32) % 64 = n + 32
    OBVIOUS
  <1> QED BY <1>1, <1>2, <1>3

\* From a numeric type.
LEMMA FromNumber ==
  ASSUME NEW source \in NumericTypes, NEW type \in PlainTypes, NEW n, NEW v,
         InModel(n), CanHold(source, n), CanHold(type, n), ~ ChangesNumbers(source, type, n),
         Has(source, n, v),
         ConvertValue(type, source, v) # Error, ConvertValue(type, source, v)[2] # "other"
  PROVE  Has(type, n, ConvertValue(type, source, v))
  <1> DEFINE w == ConvertValue(type, source, v)
  <1>0. source \in PlainTypes /\ source # "string"
    BY DEF NumericTypes, PlainTypes
  <1>1. BitsOf(source, n) = n
    BY SameBits
  <1>2. v = <<KindOf(source), "num", n>> /\ v[1] = KindOf(source) /\ v[3] = n
    BY <1>1 DEF Has
  <1>3. KindOf(source) \in {"int32", "int64", "int96", "float", "double"}
    BY KindsAre DEF NumericTypes
  <1>4. CASE type \in NumericTypes
    <2>1. w = ByKind(KindOf(type), source, v)
      BY <1>0, <1>4, PlainConverts DEF NumericConverts
    <2>2. KindOf(type) \in {"int32", "int64", "int96", "float", "double"}
      BY <1>4, KindsAre DEF NumericTypes
    <2>3. w = <<KindOf(type), "num", BitsOf(type, n)>>
      BY <1>1, <1>2, <1>3, <1>4, <2>1, <2>2, SignedBits, StoredBits DEF ByKind, convertInt32To,
        convertInt64To, convertInt96To, convertFloatTo, convertDoubleTo, IsBytes
    <2> QED BY <1>4, <2>3, KindsAre DEF Has, NumericTypes
  <1>5. CASE type \in {"byteArray", "fixed"}
    <2>0. n >= 0
      BY <1>5 DEF CanHold
    <2>1. w = ByKind(type, source, v)
      BY <1>0, <1>3, <1>5, PlainConverts DEF NumericConverts, byteArrayConvertValue
    <2>2. w \in {<<type, f, n>> : f \in ByteForms}
      BY <1>1, <1>2, <1>3, <1>5, <2>0, <2>1, BytesOfNumber
      DEF ByKind, convertInt32To, convertInt64To, convertInt96To, convertFloatTo, convertDoubleTo, IsBytes, ByteForms
    <2> QED BY <1>5, <2>2, KindsAre DEF Has, NumericTypes
  <1>6. CASE type = "string"
    <2>1. w = convertToString(v)
      BY <1>0, <1>6, PlainConverts
    <2>2. KindOf(source) = "int96" => n % 2^Bits96 = n
      BY <1>1, <1>6, KindsAre, BytesOfNumber DEF ChangesNumbers, InModel, NumericTypes
    <2>3. w = <<"byteArray", "text", n>>
      BY <1>2, <1>3, <2>1, <2>2 DEF convertToString
    <2> QED BY <1>6, <2>3, KindsAre DEF Has, NumericTypes, ByteForms
  <1> QED BY <1>4, <1>5, <1>6 DEF PlainTypes, NumericTypes

\* From bytes and texts to numbers.
LEMMA NumberFromBytes ==
  ASSUME NEW source \in {"byteArray", "fixed"}, NEW type \in NumericTypes, NEW n, NEW v,
         InModel(n), CanHold(type, n), Has(source, n, v),
         ConvertValue(type, source, v)[2] # "other"
  PROVE  Has(type, n, ConvertValue(type, source, v))
  <1> DEFINE w == ConvertValue(type, source, v)
  <1>1. w = convertByteArrayTo(KindOf(type), v)
    BY PlainConverts, KindsAre DEF NumericConverts, ByKind, NumericTypes, PlainTypes
  <1>2. v[2] \in ByteForms /\ v[3] = n
    BY DEF Has
  <1>3. KindOf(type) \in {"int32", "int64", "int96", "float", "double"}
    BY KindsAre DEF NumericTypes
  <1>4. w = Stored(KindOf(type), n)
    BY <1>1, <1>2, <1>3 DEF convertByteArrayTo, IsBytes, Other, Stored
  <1> QED BY <1>4, StoredBits, KindsAre DEF Has, NumericTypes

LEMMA NumberFromText ==
  ASSUME NEW type \in NumericTypes, NEW n, NEW v,
         InModel(n), CanHold(type, n), ~ ChangesNumbers("string", type, n), Has("string", n, v),
         ConvertValue(type, "string", v) # Error
  PROVE  Has(type, n, ConvertValue(type, "string", v))
  <1> DEFINE w == ConvertValue(type, "string", v)
  <1>1. w = convertStringTo(KindOf(type), v)
    BY PlainConverts DEF NumericConverts, PlainTypes
  <1>2. v[3] = n
    BY DEF Has
  <1>3. KindOf(type) \in {"int32", "int64", "int96", "float", "double"}
    BY KindsAre DEF NumericTypes
  <1>4. w = <<KindOf(type), "num", BitsOf(type, n)>>
    <2>1. CASE KindOf(type) \in {"int32", "int64"}
      BY <1>1, <1>2, <2>1, KindsAre DEF convertStringTo, BitsOf, WidthOf
    <2>2. CASE KindOf(type) \in {"float", "double"}
      BY <1>1, <1>2, <2>2, KindsAre DEF convertStringTo, BitsOf
    <2>3. CASE KindOf(type) = "int96"
      <3>1. type = "int96"
        BY <2>3, KindsAre DEF NumericTypes
      <3>2. 0 <= n /\ n <= 3
        BY <3>1 DEF ChangesNumbers, InModel
      <3>3. w = <<"int96", "num", Wrap(Bits96, MostSignificantFirst(IF n < 0 THEN - n ELSE n))>>
        BY <1>1, <1>2, <2>3 DEF convertStringTo
      <3>4. n \in Int
        BY DEF InModel
      <3> QED BY <2>3, <3>1, <3>2, <3>3, <3>4, ReversedDigit DEF BitsOf
    <2> QED BY <1>3, <2>1, <2>2, <2>3
  <1> QED BY <1>4, KindsAre DEF Has, NumericTypes

\* Among bytes and texts.
LEMMA BytesFromBytes ==
  ASSUME NEW source \in {"byteArray", "fixed", "string"}, NEW type \in {"byteArray", "fixed", "string"},
         NEW n, NEW v, InModel(n), CanHold(source, n), CanHold(type, n), Has(source, n, v),
         ConvertValue(type, source, v) # Error, ConvertValue(type, source, v)[2] # "other"
  PROVE  Has(type, n, ConvertValue(type, source, v))
  <1> DEFINE w == ConvertValue(type, source, v)
  <1>0. /\ v = <<v[1], v[2], v[3]>> /\ v[2] \in ByteForms /\ v[3] = n
        /\ v[1] = KindOf(source) \/ (source = "byteArray" /\ v[1] = "fixed")
    BY DEF Has
  <1>1. CASE type = "string"
    <2>1. w = convertToString(v)
      BY <1>1, PlainConverts DEF PlainTypes
    <2>2. v[1] \in {"byteArray", "fixed"}
      BY <1>0, KindsAre
    <2>3. CASE v[1] = "byteArray"
      BY <1>0, <1>1, <2>1, <2>3, KindsAre DEF convertToString, Has, NumericTypes
    <2>4. CASE v[1] = "fixed"
      BY <1>0, <1>1, <2>1, <2>4, KindsAre DEF convertToString, Other, Has, NumericTypes, ByteForms
    <2> QED BY <2>2, <2>3, <2>4
  <1>2. CASE type = "byteArray"
    BY <1>0, <1>2, PlainConverts, KindsAre DEF PlainTypes, byteArrayConvertValue, ByKind, Has,
      NumericTypes
  <1>3. CASE type = "fixed" /\ source = "fixed"
    BY <1>3, PlainConverts, KindsAre DEF PlainTypes, NumericConverts, ByKind
  <1>4. CASE type = "fixed" /\ source = "byteArray"
    <2>1. w = convertByteArrayTo("fixed", v)
      BY <1>4, PlainConverts, KindsAre DEF PlainTypes, NumericConverts, ByKind
    <2>2. n % 2^Bits96 = n
      BY <1>4, BitPowers DEF CanHold, InModel
    <2>3. w = <<"fixed", v[2], n>>
      BY <1>0, <2>1, <2>2 DEF convertByteArrayTo, IsBytes
    <2> QED BY <1>0, <1>4, <2>3, KindsAre DEF Has, NumericTypes
  <1>5. CASE type = "fixed" /\ source = "string"
    BY <1>0, <1>5, PlainConverts, KindsAre DEF PlainTypes, NumericConverts, convertStringTo, Has,
      NumericTypes, ByteForms
  <1> QED BY <1>1, <1>2, <1>3, <1>4, <1>5

LEMMA PlainStep ==
  ASSUME NEW source \in PlainTypes, NEW type \in PlainTypes, NEW n, NEW v,
         InModel(n), CanHold(source, n), CanHold(type, n), ~ ChangesNumbers(source, type, n),
         Has(source, n, v),
         ConvertValue(type, source, v) # Error, ConvertValue(type, source, v)[2] # "other"
  PROVE  Has(type, n, ConvertValue(type, source, v))
  BY FromNumber, NumberFromBytes, NumberFromText, BytesFromBytes DEF PlainTypes, NumericTypes

\* The number a value is written with, and how its type has it.
LEMMA WrittenNumbers ==
  ASSUME NEW type \in PlainTypes, NEW w \in WrittenValues(type)
  PROVE  /\ InModel(NumberIn(type, w))
         /\ Has(type, NumberIn(type, w), w)
  <1>1. CASE type \in {"int32", "uint32"}
    <2>1. NumbersOf(type) = {-2, -1, 0, 1}
      BY <1>1, KindsAre DEF NumbersOf, IsTimestamp
    <2>2. PICK x \in {-2, -1, 0, 1} : w = <<"int32", "num", x>>
      BY <1>1, <2>1, KindsAre DEF WrittenValues, IsNumeric
    <2>3. x % 4 \in 0..3 /\ Wrap(Bits32, x % 4) = x
      <3>1. Wrap(Bits32, x % 4) = (((x % 4) + 2) % 4) - 2
        BY WrapIs
      <3> QED BY <3>1
    <2> QED BY <1>1, <2>2, <2>3, KindsAre, BitPowers
        DEF Has, NumberIn, Unsignedness, WidthOf, BitsOf, InModel, NumericTypes
  <1>2. CASE type \in {"int64", "uint64"}
    <2>1. NumbersOf(type) = {-16, -2, 0, 1, 6, 15}
      BY <1>2, KindsAre DEF NumbersOf, IsTimestamp
    <2>2. PICK x \in {-16, -2, 0, 1, 6, 15} : w = <<"int64", "num", x>>
      BY <1>2, <2>1, KindsAre DEF WrittenValues, IsNumeric
    <2>3. x % 32 \in 0..31 /\ Wrap(Bits64, x % 32) = x
      <3>1. Wrap(Bits64, x % 32) = (((x % 32) + 16) % 32) - 16
        BY WrapIs
      <3> QED BY <3>1
    <2> QED BY <1>2, <2>2, <2>3, KindsAre, BitPowers
        DEF Has, NumberIn, Unsignedness, WidthOf, BitsOf, InModel, NumericTypes
  <1>3. CASE type \in {"int96", "float", "double"}
    <2>1. NumbersOf(type) = {-16, -2, 0, 1, 6, 15}
      BY <1>3, KindsAre DEF NumbersOf, IsTimestamp
    <2>2. PICK x \in {-16, -2, 0, 1, 6, 15} : w = <<KindOf(type), "num", x>>
      BY <1>3, <2>1, KindsAre DEF WrittenValues, IsNumeric
    <2> QED BY <1>3, <2>2, KindsAre DEF Has, NumberIn, Unsignedness, BitsOf, InModel, NumericTypes
  <1>4. CASE type \in {"byteArray", "fixed"}
    <2>1. PICK x \in {0, 1, 6, 31} : w = <<KindOf(type), "le", x>>
      BY <1>4, KindsAre DEF WrittenValues, IsNumeric
    <2> QED BY <1>4, <2>1, KindsAre DEF Has, NumberIn, Unsignedness, InModel, NumericTypes, ByteForms
  <1>5. CASE type = "string"
    <2>1. PICK x \in {-5, -1, 0, 1, 6, 23} : w = <<"byteArray", "text", x>>
      BY <1>5, KindsAre DEF WrittenValues, IsNumeric
    <2> QED BY <1>5, <2>1, KindsAre DEF Has, NumberIn, Unsignedness, InModel, NumericTypes, ByteForms
  <1> QED BY <1>1, <1>2, <1>3, <1>4, <1>5 DEF PlainTypes

\* A value that has a number shows that number.
LEMMA NumberSeen ==
  ASSUME NEW type \in PlainTypes, NEW n, NEW v, InModel(n), CanHold(type, n), Has(type, n, v)
  PROVE  NumberIn(type, v) = n
  <1>0. n \in Int
    BY DEF InModel
  <1>1. CASE type = "uint32"
    <2>1. v[2] = "num" /\ v[3] = Wrap(Bits32, n)
      BY <1>1 DEF Has, NumericTypes, BitsOf
    <2>2. n = n % 4
      BY <1>1, BitPowers DEF CanHold
    <2>3. (((n + 2) % 4) - 2) % 4 = n
      BY <1>0, <2>2
    <2> QED BY <1>0, <1>1, <2>1, <2>3, WrapIs, KindsAre, BitPowers DEF NumberIn, Unsignedness, WidthOf
  <1>2. CASE type = "uint64"
    <2>1. v[2] = "num" /\ v[3] = Wrap(Bits64, n)
      BY <1>2 DEF Has, NumericTypes, BitsOf
    <2>2. n = n % 32
      BY <1>2, BitPowers DEF CanHold
    <2>3. (((n + 16) % 32) - 16) % 32 = n
      BY <1>0, <2>2
    <2> QED BY <1>0, <1>2, <2>1, <2>3, WrapIs, KindsAre, BitPowers DEF NumberIn, Unsignedness, WidthOf
  <1>3. CASE type \notin {"uint32", "uint64"}
    BY <1>3 DEF NumberIn, Unsignedness, Has, NumericTypes, PlainTypes, BitsOf
  <1> QED BY <1>1, <1>2, <1>3

-----------------------------------------------------------------------------
(* Dates and timestamps.                                                    *)

DayTypes == {"date", "timestampMillis", "timestampNanos"}

LEMMA UnitsAre ==
  /\ timeUnitDuration(UnitOf("timestampMillis")) = 4
  /\ timeUnitDuration(UnitOf("timestampNanos")) = 1
  BY DEF timeUnitDuration, UnitOf

LEMMA DayConverts ==
  ASSUME NEW source \in DayTypes, NEW type \in DayTypes, NEW x \in Int,
         Instant(source, <<KindOf(source), "num", x>>) \in 0..15
  PROVE  \E y \in Int :
            /\ ConvertValue(type, source, <<KindOf(source), "num", x>>) = <<KindOf(type), "num", y>>
            /\ Instant(type, <<KindOf(type), "num", y>>) \in 0..15
            /\ Instant(type, <<KindOf(type), "num", y>>) \div DayLength
               = Instant(source, <<KindOf(source), "num", x>>) \div DayLength
  <1> DEFINE v == <<KindOf(source), "num", x>>
             t == Instant(source, v)
  <1>0. v[3] = x /\ v[1] = KindOf(source)
    OBVIOUS
  <1>1. CASE source = "date" /\ type = "date"
    <2>1. ConvertValue(type, source, v) = dateConvertValue(source, v)
      BY <1>1, Zenon DEF ConvertValue, IsTime, IsTimestamp
    <2>2. dateConvertValue(source, v) = int32ConvertValue(source, v)
      BY <1>1, Zenon DEF dateConvertValue, IsTimestamp
    <2>3. int32ConvertValue(source, v) = v
      BY <1>1, KindsAre DEF int32ConvertValue, ByKind
    <2> QED BY <1>1, <2>1, <2>2, <2>3
  <1>2. CASE source = "date" /\ type # "date"
    <2>1. ConvertValue(type, source, v) = timestampConvertValue(UnitOf(type), source, v)
      BY <1>2, Zenon DEF ConvertValue, IsTime, IsTimestamp, DayTypes
    <2>2. timestampConvertValue(UnitOf(type), source, v) = convertDateToTimestamp(v, UnitOf(type))
      BY <1>2, Zenon DEF timestampConvertValue, IsTimestamp
    <2>3. x \in {0, 1} /\ t = 8 * x
      BY <1>0, <1>2 DEF Instant, DayLength
    <2>4. CASE type = "timestampMillis"
      <3>1. Quotient(x * DayLength, 4) = 2 * x
        BY <2>3 DEF Quotient, DayLength
      <3>2. Wrap(Bits64, 2 * x) = 2 * x
        <4>1. Wrap(Bits64, 2 * x) = ((2 * x + 16) % 32) - 16
          BY WrapIs
        <4> QED BY <2>3, <4>1
      <3>3. ConvertValue(type, source, v) = <<KindOf(type), "num", 2 * x>>
        BY <1>0, <2>1, <2>2, <2>4, <3>1, <3>2, UnitsAre, KindsAre DEF convertDateToTimestamp
      <3>4. Instant(type, <<KindOf(type), "num", 2 * x>>) = 8 * x
        BY <2>3, <2>4, UnitsAre DEF Instant
      <3> QED BY <2>3, <3>3, <3>4
    <2>5. CASE type = "timestampNanos"
      <3>1. Quotient(x * DayLength, 1) = 8 * x
        BY <2>3 DEF Quotient, DayLength
      <3>2. Wrap(Bits64, 8 * x) = 8 * x
        <4>1. Wrap(Bits64, 8 * x) = ((8 * x + 16) % 32) - 16
          BY WrapIs
        <4> QED BY <2>3, <4>1
      <3>3. ConvertValue(type, source, v) = <<KindOf(type), "num", 8 * x>>
        BY <1>0, <2>1, <2>2, <2>5, <3>1, <3>2, UnitsAre, KindsAre DEF convertDateToTimestamp
      <3>4. Instant(type, <<KindOf(type), "num", 8 * x>>) = 8 * x
        BY <2>3, <2>5, UnitsAre DEF Instant
      <3> QED BY <2>3, <3>3, <3>4
    <2> QED BY <1>2, <2>4, <2>5 DEF DayTypes
  <1>3. CASE source # "date" /\ type = "date"
    <2>1. ConvertValue(type, source, v) = dateConvertValue(source, v)
      BY <1>3, Zenon DEF ConvertValue, IsTime, IsTimestamp
    <2>2. dateConvertValue(source, v) = convertTimestampToDate(v, UnitOf(source))
      BY <1>3, Zenon DEF dateConvertValue, IsTimestamp, DayTypes
    <2>3. t = x * timeUnitDuration(UnitOf(source)) /\ t \in 0..15
      BY <1>0, <1>3 DEF Instant
    <2>4. Quotient(t, 8) = t \div 8 /\ t \div 8 \in {0, 1}
      BY <2>3 DEF Quotient
    <2>5. Wrap(Bits32, t \div 8) = t \div 8
      BY <2>4, WrapIs
    <2>6. ConvertValue(type, source, v) = <<KindOf(type), "num", t \div 8>>
      BY <1>0, <1>3, <2>1, <2>2, <2>3, <2>4, <2>5, KindsAre
      DEF convertTimestampToDate, daysSinceUnixEpoch, DayLength
    <2>7. Instant(type, <<KindOf(type), "num", t \div 8>>) = 8 * (t \div 8)
      BY <1>3, <2>4 DEF Instant, DayLength
    <2> QED BY <2>4, <2>6, <2>7 DEF DayLength
  <1>4. CASE source # "date" /\ type # "date"
    <2>1. ConvertValue(type, source, v) = timestampConvertValue(UnitOf(type), source, v)
      BY <1>4, Zenon DEF ConvertValue, IsTime, IsTimestamp, DayTypes
    <2>2. timestampConvertValue(UnitOf(type), source, v)
          = convertTimestampToTimestamp(v, UnitOf(source), UnitOf(type))
      BY <1>4, Zenon DEF timestampConvertValue, IsTimestamp, DayTypes
    <2>3. t = x * timeUnitDuration(UnitOf(source)) /\ t \in 0..15
      BY <1>0, <1>4 DEF Instant
    <2>4. Wrap(Bits64, t) = t
      BY <2>3, WrapIs
    <2>5. ConvertValue(type, source, v)
          = <<KindOf(type), "num", Quotient(t, timeUnitDuration(UnitOf(type)))>>
      BY <1>0, <1>4, <2>1, <2>2, <2>3, <2>4, KindsAre DEF convertTimestampToTimestamp, DayTypes
    <2>6. CASE type = "timestampMillis"
      <3>1. Quotient(t, 4) = t \div 4 /\ t \div 4 \in 0..3
        BY <2>3 DEF Quotient
      <3>2. Instant(type, <<KindOf(type), "num", t \div 4>>) = 4 * (t \div 4)
        BY <2>6, <3>1, UnitsAre DEF Instant
      <3>3. (4 * (t \div 4)) \div 8 = t \div 8 /\ 4 * (t \div 4) \in 0..15
        BY <2>3
      <3> QED BY <2>5, <2>6, <3>1, <3>2, <3>3, UnitsAre DEF DayLength
    <2>7. CASE type = "timestampNanos"
      BY <2>3, <2>5, <2>7, UnitsAre DEF Quotient, Instant, DayLength
    <2> QED BY <1>4, <2>6, <2>7 DEF DayTypes
  <1> QED BY <1>1, <1>2, <1>3, <1>4

-----------------------------------------------------------------------------
(* Along the path of conversions.                                           *)

Sound == value # Error /\ value[2] # "other"
Number == NumberIn(path[1], written)

\* Every type on the way can hold the number, and no conversion is one that changes it.
NumberPath ==
    /\ \A i \in DOMAIN path : path[i] \in PlainTypes /\ CanHold(path[i], Number)
    /\ \A i \in 1..(Len(path) - 1) : ~ ChangesNumbers(path[i], path[i + 1], Number)

\* Every type on the way is a date or a timestamp, and the first instant fits.
DayPath ==
    /\ \A i \in DOMAIN path : path[i] \in DayTypes
    /\ Instant(path[1], written) \in 0..15

\* What each conversion relies on: the value has its number in the type it has
\* now, in the bits and the form that type gives it, and an instant is still
\* within the days that fit.
ConvInv ==
    /\ path \in Seq(TypeSet) /\ path # << >>
    /\ written \in WrittenValues(path[1])
    /\ NumberPath /\ Sound => Has(Current, Number, value)
    /\ DayPath => \E x \in Int :
          /\ value = <<KindOf(Current), "num", x>>
          /\ Instant(Current, value) \in 0..15
          /\ Instant(Current, value) \div DayLength = Instant(path[1], written) \div DayLength

LEMMA DayWritten ==
  ASSUME NEW type \in DayTypes, NEW w \in WrittenValues(type)
  PROVE  \E x \in Int : w = <<KindOf(type), "num", x>>
  BY KindsAre DEF NumbersOf, IsTimestamp, DayTypes, IsNumeric, WrittenValues

LEMMA ConvInvInit == ConvertInit => ConvInv
  <1> SUFFICES ASSUME ConvertInit PROVE ConvInv
    OBVIOUS
  <1>1. PICK type \in TypeSet : path = <<type>> /\ written \in WrittenValues(type) /\ value = written
    BY DEF ConvertInit
  <1>2. path \in Seq(TypeSet) /\ path # << >> /\ path[1] = type /\ DOMAIN path = {1} /\ Current = type
    BY <1>1 DEF Current
  <1>3. NumberPath => Has(Current, Number, value)
    BY <1>1, <1>2, WrittenNumbers DEF NumberPath, Number
  <1>4. ASSUME DayPath
        PROVE  \E x \in Int :
                  /\ value = <<KindOf(Current), "num", x>>
                  /\ Instant(Current, value) \in 0..15
                  /\ Instant(Current, value) \div DayLength = Instant(path[1], written) \div DayLength
    BY <1>1, <1>2, <1>4, DayWritten DEF DayPath
  <1> QED BY <1>1, <1>2, <1>3, <1>4 DEF ConvInv

LEMMA ConvInvStep ==
  ASSUME ConvInv, [ConvertNext]_convertVars
  PROVE  ConvInv'
  <1>1. CASE UNCHANGED convertVars
    BY <1>1 DEF convertVars, ConvInv, NumberPath, DayPath, Sound, Number, Current
  <1>2. CASE ConvertNext
    <2>1. PICK type \in TypeSet : ConvertTo(type)
      BY <1>2 DEF ConvertNext
    <2>2. /\ path \in Seq(TypeSet) /\ path # << >>
          /\ path' = Append(path, type) /\ written' = written
          /\ value' = ConvertValue(type, Current, value)
          /\ Sound
      BY <2>1 DEF ConvertTo, ConvInv, Sound, Current
    <2>3. /\ path' \in Seq(TypeSet) /\ path' # << >> /\ Len(path') = Len(path) + 1
          /\ \A i \in 1..Len(path) : path'[i] = path[i]
          /\ path'[Len(path) + 1] = type
          /\ DOMAIN path = 1..Len(path) /\ DOMAIN path' = 1..(Len(path) + 1)
          /\ Len(path) \in Nat /\ Len(path) >= 1
      BY <2>2
    <2>4. path'[1] = path[1] /\ Current' = type /\ Number' = Number
      BY <2>2, <2>3 DEF Current, Number
    <2>5. ASSUME NumberPath', Sound'
          PROVE  Has(type, Number, value')
      <3>1. NumberPath /\ Current \in PlainTypes /\ type \in PlainTypes
            /\ CanHold(Current, Number) /\ CanHold(type, Number)
            /\ ~ ChangesNumbers(Current, type, Number)
        <4>1. \A i \in 1..(Len(path) + 1) : path'[i] \in PlainTypes /\ CanHold(path'[i], Number)
          BY <2>3, <2>4, <2>5 DEF NumberPath
        <4>2. \A i \in 1..Len(path) : ~ ChangesNumbers(path'[i], path'[i + 1], Number)
          BY <2>3, <2>4, <2>5 DEF NumberPath
        <4>3. \A i \in 1..Len(path) : path[i] \in PlainTypes /\ CanHold(path[i], Number)
          BY <2>3, <4>1
        <4>4. \A i \in 1..(Len(path) - 1) : ~ ChangesNumbers(path[i], path[i + 1], Number)
          BY <2>3, <4>2
        <4>5. ~ ChangesNumbers(path[Len(path)], type, Number)
          BY <2>3, <4>2
        <4> QED BY <2>3, <4>1, <4>3, <4>4, <4>5 DEF NumberPath, Current
      <3>2. Has(Current, Number, value)
        BY <2>2, <3>1 DEF ConvInv
      <3>3. InModel(Number)
        BY <2>3, <3>1, WrittenNumbers DEF NumberPath, ConvInv, Number
      <3>4. value' # Error /\ value'[2] # "other"
        BY <2>5 DEF Sound
      <3> QED BY <2>2, <3>1, <3>2, <3>3, <3>4, PlainStep
    <2>6. ASSUME DayPath'
          PROVE  \E y \in Int :
                    /\ value' = <<KindOf(type), "num", y>>
                    /\ Instant(type, value') \in 0..15
                    /\ Instant(type, value') \div DayLength = Instant(path[1], written) \div DayLength
      <3>1. \A i \in 1..(Len(path) + 1) : path'[i] \in DayTypes
        BY <2>3, <2>6 DEF DayPath
      <3>2. DayPath /\ Current \in DayTypes /\ type \in DayTypes
        BY <2>2, <2>3, <2>4, <2>6, <3>1 DEF DayPath, Current
      <3>3. PICK x \in Int :
               /\ value = <<KindOf(Current), "num", x>>
               /\ Instant(Current, value) \in 0..15
               /\ Instant(Current, value) \div DayLength = Instant(path[1], written) \div DayLength
        BY <3>2 DEF ConvInv
      <3>4. Instant(Current, <<KindOf(Current), "num", x>>) \in 0..15
        BY <3>3
      <3>5. PICK y \in Int :
               /\ ConvertValue(type, Current, <<KindOf(Current), "num", x>>) = <<KindOf(type), "num", y>>
               /\ Instant(type, <<KindOf(type), "num", y>>) \in 0..15
               /\ Instant(type, <<KindOf(type), "num", y>>) \div DayLength
                  = Instant(Current, <<KindOf(Current), "num", x>>) \div DayLength
        BY <3>2, <3>4, DayConverts
      <3>6. value' = <<KindOf(type), "num", y>>
        BY <2>2, <3>3, <3>5
      <3> QED BY <3>3, <3>5, <3>6
    <2>7. written' \in WrittenValues(path'[1])
      BY <2>2, <2>4 DEF ConvInv
    <2> QED BY <2>2, <2>3, <2>4, <2>5, <2>6, <2>7 DEF ConvInv
  <1> QED BY <1>1, <1>2

LEMMA ConvInvKeeps == ConvInv => ConversionsKeepValues
  <1> SUFFICES ASSUME ConvInv PROVE ConversionsKeepValues
    OBVIOUS
  <1>0. DOMAIN path = 1..Len(path) /\ Len(path) \in Nat /\ Len(path) >= 1
        /\ path[1] \in TypeSet /\ Current \in TypeSet
    BY DEF ConvInv, Current
  <1>1. NumberSurvives
    <2> SUFFICES ASSUME NumberPath, Sound PROVE NumberIn(Current, value) = Number
      BY Zenon DEF NumberSurvives, NumberPath, Sound, Number
    <2>1. path[1] \in PlainTypes /\ Current \in PlainTypes /\ CanHold(Current, Number)
      BY <1>0 DEF NumberPath, Current
    <2>2. InModel(Number)
      BY <2>1, WrittenNumbers DEF ConvInv, Number
    <2>3. Has(Current, Number, value)
      BY DEF ConvInv
    <2> QED BY <2>1, <2>2, <2>3, NumberSeen
  <1>2. DaySurvives
    <2> SUFFICES ASSUME \A i \in DOMAIN path : path[i] = "date" \/ IsTimestamp(path[i]),
                        Instant(path[1], written) >= 0, Instant(path[1], written) < 2^(Bits64 - 1)
                 PROVE  Instant(Current, value) \div DayLength = Instant(path[1], written) \div DayLength
      BY Zenon DEF DaySurvives
    <2>1. path[1] \in DayTypes
      BY <1>0 DEF DayTypes, IsTimestamp
    <2>2. Instant(path[1], written) \in Int
      <3>1. PICK x \in Int : written = <<KindOf(path[1]), "num", x>>
        BY <2>1, DayWritten DEF ConvInv
      <3> QED BY <2>1, <3>1, UnitsAre DEF Instant, DayTypes, DayLength
    <2>3. DayPath
      BY <2>2, BitPowers DEF DayPath, DayTypes, IsTimestamp
    <2> QED BY <2>3 DEF ConvInv
  <1> QED BY <1>1, <1>2 DEF ConversionsKeepValues

(* A number converted through types that can all hold it is refused or still *)
(* has that number, and an instant stays in its day, after any number of     *)
(* conversions in any order (convert.go): ConversionsKeepValues, for every   *)
(* value of MaxConversions.                                                  *)
THEOREM ConversionsKeepValuesCorrect == ConvertSpec => []ConversionsKeepValues
  <1>1. ConvInv /\ [ConvertNext]_convertVars => ConvInv'
    BY ConvInvStep
  <1> QED BY ConvInvInit, <1>1, ConvInvKeeps, PTL DEF ConvertSpec
=============================================================================
