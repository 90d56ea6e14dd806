--------------------------- MODULE VectorKernels ---------------------------
(* The kernels that find the least and greatest values of a page             *)
(* (page_minmax_simd_amd64.go, page_bounds_*.go, page_min_*.go,              *)
(* page_max_*.go) and tell whether a list of bounds is sorted                *)
(* (order_simd_amd64.go, order.go; order_purego.go, which has another rule   *)
(* for NaN, is not modelled).  The vector kernels                            *)
(* read whole vectors only: what is left after the last full chunk is        *)
(* covered by vectors that overlap elements already read.                    *)
(*                                                                           *)
(* A vector has Lanes512 lanes on a machine with AVX-512 and Lanes256 with   *)
(* AVX2, scaled down from 16 and 8 (32-bit values) or 8 and 4 (64-bit).      *)
(* Values are numbers; NaN is a float that compares neither less nor         *)
(* greater than anything.                                                    *)
EXTENDS Integers, Sequences, FiniteSets, SequencesExt

CONSTANTS Lanes512, Lanes256,   \* lanes of the vectors of the two instruction sets
          MaxData,              \* bound: elements of an input
          MaxSmallPage          \* inputs the wider unroll of boundsFloat is kept for

ASSUME KernelAssumption ==
    /\ Lanes512 \in Nat \ {0} /\ Lanes256 \in Nat \ {0}
    /\ MaxData \in Nat /\ MaxSmallPage \in Nat

Machines == {"avx512", "avx2", "other"}
LanesOf(machine) == IF machine = "avx512" THEN Lanes512 ELSE Lanes256

NaN == 100
Lower(a, b) == a # NaN /\ b # NaN /\ a < b
Greater(a, b) == a # NaN /\ b # NaN /\ a > b

(* Unsigned values compared as signed ones after their sign bit is flipped   *)
(* (values of two bits).                                                     *)
FlipSign(n) == LET x == (n + 2) % 4 IN IF x >= 2 THEN x - 4 ELSE x
BiasedLower(a, b) == FlipSign(b) > FlipSign(a)
BiasedGreater(a, b) == FlipSign(a) > FlipSign(b)

-----------------------------------------------------------------------------
(* The comparison an instruction makes of a candidate with the value it has. *)
(* The native minimum of a machine may return either operand when one is     *)
(* NaN: TRUE here, so that a NaN that is missed by the sum shows.            *)
NativeLower(a, b) == a = NaN \/ b = NaN \/ a < b
NativeGreater(a, b) == a = NaN \/ b = NaN \/ a > b

\* Big-endian values of 128 bits, <<hi, lo, index>>; of equals, the one before.
BELower(a, b) == a[1] < b[1] \/ (a[1] = b[1] /\ a[2] < b[2])
BELowerFirst(a, b) == BELower(a, b) \/ (a[1] = b[1] /\ a[2] = b[2] /\ a[3] < b[3])
BEGreaterFirst(a, b) == BELower(b, a) \/ (a[1] = b[1] /\ a[2] = b[2] /\ a[3] < b[3])

Better(order, a, b) ==
    \/ order = "lower" /\ Lower(a, b)
    \/ order = "greater" /\ Greater(a, b)
    \/ order = "biasedLower" /\ BiasedLower(a, b)
    \/ order = "biasedGreater" /\ BiasedGreater(a, b)
    \/ order = "nativeLower" /\ NativeLower(a, b)
    \/ order = "nativeGreater" /\ NativeGreater(a, b)
    \/ order = "beLower" /\ BELower(a, b)
    \/ order = "beGreater" /\ BELower(b, a)
    \/ order = "beLowerFirst" /\ BELowerFirst(a, b)
    \/ order = "beGreaterFirst" /\ BEGreaterFirst(a, b)

\* The best of a value and of those it is compared with, one after the other.
BestOf(order, first, candidates) ==
    FoldLeft(LAMBDA best, x : IF Better(order, x, best) THEN x ELSE best, first, candidates)

(* An accumulator keeps, in every lane, the better of what it has and what   *)
(* it is given.  The k accumulators of a kernel read a chunk of k vectors at *)
(* a time; then accumulator a reads the a-th vector from the end if the      *)
(* remainder is longer than a vectors.                                       *)

\* Where accumulator a (from 0) of k loads vectors of L lanes in n elements.
Loads(n, L, k, a) ==
    LET chunks == n \div (k * L)
        rem == n - chunks * k * L
    IN  [c \in 1..chunks |-> (c - 1) * k * L + a * L]
            \o (IF rem > a * L THEN <<n - (a + 1) * L>> ELSE <<>>)

Lane(order, data, loads, lane) ==
    BestOf(order, data[1], [c \in DOMAIN loads |-> data[loads[c] + lane]])

\* The accumulators are merged, then the lanes are.
Merged(order, data, L, k, lane) ==
    BestOf(order, Lane(order, data, Loads(Len(data), L, k, 0), lane),
           [a \in 1..(k - 1) |-> Lane(order, data, Loads(Len(data), L, k, a), lane)])
Reduce(order, data, L, k) ==
    BestOf(order, Merged(order, data, L, k, 1), [i \in 1..(L - 1) |-> Merged(order, data, L, k, i + 1)])

\* The loop over the elements one by one.
Scan(order, data) == BestOf(order, data[1], data)

\* The three ways of a kernel with two accumulators.
Kernel(wide, narrow, order, machine, data) ==
    IF data = <<>> THEN 0
    ELSE IF machine = "avx512" /\ Len(data) >= 2 * Lanes512 THEN Reduce(wide, data, Lanes512, 2)
    ELSE IF machine = "avx2" /\ Len(data) >= 2 * Lanes256 THEN Reduce(narrow, data, Lanes256, 2)
    ELSE Scan(order, data)

minInt32(machine, data) == Kernel("lower", "lower", "lower", machine, data)
maxInt32(machine, data) == Kernel("greater", "greater", "greater", machine, data)
minInt64(machine, data) == Kernel("lower", "lower", "lower", machine, data)
maxInt64(machine, data) == Kernel("greater", "greater", "greater", machine, data)
minUint32(machine, data) == Kernel("lower", "lower", "lower", machine, data)
maxUint32(machine, data) == Kernel("greater", "greater", "greater", machine, data)
minUint64(machine, data) == Kernel("lower", "biasedLower", "lower", machine, data)
maxUint64(machine, data) == Kernel("greater", "biasedGreater", "greater", machine, data)
minFloat32(machine, data) == Kernel("lower", "lower", "lower", machine, data)
maxFloat32(machine, data) == Kernel("greater", "greater", "greater", machine, data)
minFloat64(machine, data) == Kernel("lower", "lower", "lower", machine, data)
maxFloat64(machine, data) == Kernel("greater", "greater", "greater", machine, data)

boundsInt32(machine, data) ==
    <<Kernel("lower", "lower", "lower", machine, data), Kernel("greater", "greater", "greater", machine, data)>>
boundsInt64(machine, data) ==
    <<Kernel("lower", "lower", "lower", machine, data), Kernel("greater", "greater", "greater", machine, data)>>
boundsUint32(machine, data) ==
    <<Kernel("lower", "lower", "lower", machine, data), Kernel("greater", "greater", "greater", machine, data)>>
boundsUint64(machine, data) ==
    <<Kernel("lower", "biasedLower", "lower", machine, data),
      Kernel("greater", "biasedGreater", "greater", machine, data)>>
boundsFloat32Merge(machine, data) ==
    <<Kernel("lower", "lower", "lower", machine, data), Kernel("greater", "greater", "greater", machine, data)>>
boundsFloat64Merge(machine, data) ==
    <<Kernel("lower", "lower", "lower", machine, data), Kernel("greater", "greater", "greater", machine, data)>>

\* The sum of every vector loaded by k accumulators is NaN in some lane.
SumIsNaN(data, L, k) ==
    \E a \in 0..(k - 1) : \E i \in DOMAIN Loads(Len(data), L, k, a) :
        \E lane \in 1..L : data[Loads(Len(data), L, k, a)[i] + lane] = NaN

FastBounds(Merge(_, _), machine, data, k) ==
    IF SumIsNaN(data, LanesOf(machine), k) THEN Merge(machine, data)
    ELSE <<Reduce("nativeLower", data, LanesOf(machine), k), Reduce("nativeGreater", data, LanesOf(machine), k)>>

boundsFloat32(machine, data) ==
    IF data = <<>> THEN <<0, 0>>
    ELSE IF machine = "avx512" /\ Len(data) \in (4 * Lanes512)..MaxSmallPage
    THEN FastBounds(boundsFloat32Merge, machine, data, 4)
    ELSE IF machine # "other" /\ Len(data) >= 2 * LanesOf(machine)
    THEN FastBounds(boundsFloat32Merge, machine, data, 2)
    ELSE boundsFloat32Merge(machine, data)

boundsFloat64(machine, data) ==
    IF data = <<>> THEN <<0, 0>>
    ELSE IF machine = "avx512" /\ Len(data) \in (4 * Lanes512)..MaxSmallPage
    THEN FastBounds(boundsFloat64Merge, machine, data, 4)
    ELSE IF machine # "other" /\ Len(data) >= 2 * LanesOf(machine)
    THEN FastBounds(boundsFloat64Merge, machine, data, 2)
    ELSE boundsFloat64Merge(machine, data)

-----------------------------------------------------------------------------
(* Big-endian values of 128 bits are pairs <<hi, lo>>; the kernels keep the  *)
(* value and its (zero based) index, and return the index.                   *)
At(data, i) == <<data[i + 1][1], data[i + 1][2], i>>

minMaxBE128Scalar(data, isMax) ==
    BestOf(IF isMax THEN "beGreater" ELSE "beLower", At(data, 0), [i \in 1..(Len(data) - 1) |-> At(data, i)])[3]

(* One candidate per lane, seeded by the first chunk; ties between lanes go  *)
(* to the earliest index; the remainder is scanned.                          *)
LaneBE128(data, isMax, lane) ==
    BestOf(IF isMax THEN "beGreater" ELSE "beLower", At(data, lane),
           [j \in 1..(Len(data) \div Lanes512 - 1) |-> At(data, j * Lanes512 + lane)])
MergedBE128(data, isMax) ==
    BestOf(IF isMax THEN "beGreaterFirst" ELSE "beLowerFirst", LaneBE128(data, isMax, 0),
           [k \in 1..(Lanes512 - 1) |-> LaneBE128(data, isMax, k)])
minMaxBE128SIMD(data, isMax) ==
    LET scanned512 == (Len(data) \div Lanes512) * Lanes512
    IN  BestOf(IF isMax THEN "beGreater" ELSE "beLower", MergedBE128(data, isMax),
               [i \in 1..(Len(data) - scanned512) |-> At(data, scanned512 + i - 1)])[3]

minMaxBE128(machine, data, isMax) ==
    IF machine = "avx512" /\ Len(data) >= Lanes512 THEN minMaxBE128SIMD(data, isMax)
                                                   ELSE minMaxBE128Scalar(data, isMax)

-----------------------------------------------------------------------------
\* Mutant: the pairs between two vectors are not compared.
PairsWithinVectors(machine, n) ==
    {i \in 0..(n - 2) : machine = "other" \/ (i + 1) % LanesOf(machine) # 0}

(* Order kernels: the (zero based) first elements of the pairs a machine     *)
(* compares.  AVX-512 shifts a chunk into the next one, then checks one or   *)
(* two vectors that overlap them.                                            *)
PairsChecked(machine, n) ==
    LET L == LanesOf(machine)
        chunks == n \div L
        last == n - (L + 1)
        tail == (chunks - 1) * L
        steps == IF n > L THEN ((n - 1) \div L) ELSE 0
    IN  CASE machine = "avx512" /\ n >= L + 1 ->
                 (0..(tail - 1)) \cup (last..(last + L - 1))
                     \cup (IF tail < last THEN tail..(tail + L - 1) ELSE {})
          [] machine = "avx2" /\ n >= L + 1 ->
                 (0..(steps * L - 1))
                     \cup (IF steps * L + 1 < n THEN last..(last + L - 1) ELSE {})
          [] OTHER -> 0..(n - 2)

Ordered(Accept(_, _), machine, data) ==
    \A i \in PairsChecked(machine, Len(data)) : Accept(data[i + 1], data[i + 2])

\* "All lanes less or equal" fails on NaN, "no lane greater" is for integers.
LessEqual(a, b) == a # NaN /\ b # NaN /\ a <= b
GreaterEqual(a, b) == a # NaN /\ b # NaN /\ a >= b
NotGreater(a, b) == ~ (a > b)
NotLess(a, b) == ~ (a < b)
NotBiasedGreater(a, b) == ~ BiasedGreater(a, b)
NotBiasedLess(a, b) == ~ BiasedLower(a, b)

orderAscendingInt32(machine, data) == Ordered(NotGreater, machine, data)
orderDescendingInt32(machine, data) == Ordered(NotLess, machine, data)
orderAscendingInt64(machine, data) == Ordered(NotGreater, machine, data)
orderDescendingInt64(machine, data) == Ordered(NotLess, machine, data)
orderAscendingUint32(machine, data) ==
    IF machine = "avx2" THEN Ordered(NotBiasedGreater, machine, data) ELSE Ordered(NotGreater, machine, data)
orderDescendingUint32(machine, data) ==
    IF machine = "avx2" THEN Ordered(NotBiasedLess, machine, data) ELSE Ordered(NotLess, machine, data)
orderAscendingUint64(machine, data) ==
    IF machine = "avx2" THEN Ordered(NotBiasedGreater, machine, data) ELSE Ordered(NotGreater, machine, data)
orderDescendingUint64(machine, data) ==
    IF machine = "avx2" THEN Ordered(NotBiasedLess, machine, data) ELSE Ordered(NotLess, machine, data)
orderAscendingFloat32(machine, data) == Ordered(LessEqual, machine, data)
orderDescendingFloat32(machine, data) == Ordered(GreaterEqual, machine, data)
orderAscendingFloat64(machine, data) == Ordered(LessEqual, machine, data)
orderDescendingFloat64(machine, data) == Ordered(GreaterEqual, machine, data)

\* orderOfXxx: one scan each way.
OrderOf(data, ascending, descending) ==
    IF Len(data) < 2 THEN 0 ELSE IF ascending THEN 1 ELSE IF descending THEN -1 ELSE 0

(* orderOfBytes skips the equal values at the front and lets the first pair  *)
(* that differs choose the direction.                                        *)
skipBytesStreak(data) ==
    LET differs == {i \in 2..Len(data) : data[i] # data[1]}
    IN  IF differs = {} THEN <<data[Len(data)]>>
        ELSE SubSeq(data, (CHOOSE i \in differs : \A j \in differs : i <= j) - 1, Len(data))
orderOfBytes(data) ==
    LET rest == skipBytesStreak(data)
    IN  IF Len(data) < 2 THEN 0
        ELSE IF Len(rest) < 2 THEN 1
        ELSE IF rest[1] < rest[2]
        THEN IF \A i \in 2..(Len(rest) - 1) : rest[i] <= rest[i + 1] THEN 1 ELSE 0
        ELSE IF \A i \in 2..(Len(rest) - 1) : rest[i] >= rest[i + 1] THEN -1 ELSE 0

(* orderOfBool counts the streak of the first value, then of the other. *)
Streak(data, b) ==
    LET ends == {i \in DOMAIN data : data[i] # b}
    IN  IF ends = {} THEN Len(data) ELSE (CHOOSE i \in ends : \A j \in ends : i <= j) - 1
orderOfBool(data) ==
    LET first == Streak(data, data[1])
        second == Streak(SubSeq(data, first + 1, Len(data)), ~ data[1])
    IN  IF Len(data) < 2 THEN 0
        ELSE IF first = Len(data) THEN 1
        ELSE IF first + second # Len(data) THEN 0
        ELSE IF data[1] THEN -1 ELSE 1

-----------------------------------------------------------------------------
(* A page is scanned on some machine.  Pages are lists of codes 0..3, equal  *)
(* but in at most two places, which every type of column reads in its own    *)
(* way.                                                                      *)
Codes == 0..3
SignedPage(codes) == [i \in DOMAIN codes |-> codes[i] - 2]
FloatPage(codes) == [i \in DOMAIN codes |-> IF codes[i] = 3 THEN NaN ELSE codes[i] - 1]
BE128Page(codes) == [i \in DOMAIN codes |-> <<codes[i] \div 2, codes[i] % 2>>]

ScannedPages ==
    {<<>>} \cup UNION {{[[i \in 1..n |-> c] EXCEPT ![p] = x, ![q] = y] :
                           c \in {1, 3}, p \in 1..n, q \in 1..n, x \in Codes, y \in {0, 3}} : n \in 1..MaxData}

VARIABLES scanned,    \* the codes of the page
          machine,    \* what the processor supports
          found       \* the results of the kernels, in a sequence once they ran

kernelVars == <<scanned, machine, found>>

KernelInit == scanned \in ScannedPages /\ machine \in Machines /\ found = <<>>

SignedBounds(m, data) ==
    << <<minInt32(m, data), maxInt32(m, data)>>, <<minInt64(m, data), maxInt64(m, data)>>,
       boundsInt32(m, data), boundsInt64(m, data) >>
UnsignedBounds(m, data) ==
    << <<minUint32(m, data), maxUint32(m, data)>>, <<minUint64(m, data), maxUint64(m, data)>>,
       boundsUint32(m, data), boundsUint64(m, data) >>
FloatBounds(m, data) ==
    << <<minFloat32(m, data), maxFloat32(m, data)>>, <<minFloat64(m, data), maxFloat64(m, data)>>,
       boundsFloat32(m, data), boundsFloat64(m, data) >>
SignedOrders(m, data) ==
    << <<orderAscendingInt32(m, data), orderDescendingInt32(m, data)>>,
       <<orderAscendingInt64(m, data), orderDescendingInt64(m, data)>> >>
UnsignedOrders(m, data) ==
    << <<orderAscendingUint32(m, data), orderDescendingUint32(m, data)>>,
       <<orderAscendingUint64(m, data), orderDescendingUint64(m, data)>> >>
FloatOrders(m, data) ==
    << <<orderAscendingFloat32(m, data), orderDescendingFloat32(m, data)>>,
       <<orderAscendingFloat64(m, data), orderDescendingFloat64(m, data)>> >>

Results(m, codes) ==
    [signed |-> SignedBounds(m, SignedPage(codes)),
     unsigned |-> UnsignedBounds(m, codes),
     float |-> FloatBounds(m, FloatPage(codes)),
     be128 |-> IF codes = <<>> THEN <<0, 0>>
               ELSE <<minMaxBE128(m, BE128Page(codes), FALSE), minMaxBE128(m, BE128Page(codes), TRUE)>>,
     signedOrders |-> SignedOrders(m, SignedPage(codes)),
     unsignedOrders |-> UnsignedOrders(m, codes),
     floatOrders |-> FloatOrders(m, FloatPage(codes)),
     bytes |-> orderOfBytes(codes),
     bool |-> orderOfBool([i \in DOMAIN codes |-> codes[i] >= 2])]

Scanned ==
    /\ found = <<>>
    /\ found' = <<Results(machine, scanned)>>
    /\ UNCHANGED <<scanned, machine>>

KernelNext == Scanned
KernelSpec == KernelInit /\ [][KernelNext]_kernelVars

-----------------------------------------------------------------------------
Least(S) == CHOOSE v \in S : \A u \in S : v <= u
Greatest(S) == CHOOSE v \in S : \A u \in S : v >= u
Members(data) == {data[i] : i \in DOMAIN data}

(* The bounds a page should report: floats other than a first NaN are        *)
(* compared as if NaN were not there.                                        *)
TrueBounds(data) ==
    IF data = <<>> THEN <<0, 0>>
    ELSE IF data[1] = NaN THEN <<NaN, NaN>>
    ELSE <<Least(Members(data) \ {NaN}), Greatest(Members(data) \ {NaN})>>

\* The (zero based) index of the first element with a value.
FirstAt(data, v) == (CHOOSE i \in DOMAIN data : data[i] = v /\ \A j \in 1..(i - 1) : data[j] # v) - 1

BoundsAreTrue ==
    found # <<>> =>
        /\ \A i \in 1..4 : found[1].signed[i] = TrueBounds(SignedPage(scanned))
        /\ \A i \in 1..4 : found[1].unsigned[i] = TrueBounds(scanned)
        /\ \A i \in 1..4 : found[1].float[i] = TrueBounds(FloatPage(scanned))
        /\ scanned # <<>> =>
              found[1].be128 = <<FirstAt(scanned, Least(Members(scanned))),
                                 FirstAt(scanned, Greatest(Members(scanned)))>>

Pairs(data, Accept(_, _)) ==
    \A i \in DOMAIN data : \A j \in DOMAIN data : i < j => Accept(data[i], data[j])

OrdersAreTrue ==
    found # <<>> /\ Len(scanned) >= 2 =>
        /\ \A i \in 1..2 : found[1].signedOrders[i] = <<Pairs(SignedPage(scanned), NotGreater),
                                                        Pairs(SignedPage(scanned), NotLess)>>
        /\ \A i \in 1..2 : found[1].unsignedOrders[i] = <<Pairs(scanned, NotGreater), Pairs(scanned, NotLess)>>
        /\ \A i \in 1..2 : found[1].floatOrders[i] = <<Pairs(FloatPage(scanned), LessEqual),
                                                       Pairs(FloatPage(scanned), GreaterEqual)>>
        /\ found[1].bytes = IF Pairs(scanned, NotGreater) THEN 1
                            ELSE IF Pairs(scanned, NotLess) THEN -1 ELSE 0
        /\ found[1].bool # 0 =>
              IF found[1].bool = 1 THEN Pairs(scanned, LAMBDA a, b : ~ (a >= 2 /\ b < 2))
                                   ELSE Pairs(scanned, LAMBDA a, b : ~ (a < 2 /\ b >= 2))

(* Every min, max and bounds kernel of page_minmax_simd_amd64.go reports the *)
(* least and the greatest value of the page, for every type, on every        *)
(* machine, whatever the length is modulo the vectors: no element is skipped *)
(* between the last full chunk and the overlapping vectors, NaN does not     *)
(* spread, and among equal 128-bit values the first one is returned.  A      *)
(* column index is called ascending or descending only if every pair of its  *)
(* bounds, and not only the neighbours a vector compares, is in that order:  *)
(* binary search relies on it (order_simd_amd64.go, order.go).               *)
KernelsScanEverything == BoundsAreTrue /\ OrdersAreTrue
=============================================================================
