--------------------------- MODULE PackingKernels ---------------------------
(* The vector kernels of the encodings: bit packing of mini-blocks, groups   *)
(* and bytes (encoding/delta/binary_packed_simd_amd64.go,                    *)
(* encoding/rle/rle_simd_amd64.go), prefix sums and reductions of blocks     *)
(* (encoding/delta), and the byte transposition of                           *)
(* encoding/bytestreamsplit/bytestreamsplit_simd_amd64.go.                   *)
(*                                                                           *)
(* None of them looks at a value: they move, merge and add.  A vector, a     *)
(* word or a memory is therefore a set of pairs <<position, name>>, where    *)
(* the name stands for a bit, a byte or a value of the input and a position  *)
(* nothing names holds zero.  One run on names covers every input of that    *)
(* size, with the tables, widths and lane counts the code has.               *)
EXTENDS Integers, Sequences, FiniteSets, SequencesExt

CONSTANT PackingCases   \* the kernels to run: [kernel, tier, width, size]

Tiers == {"avx512vbmi", "avx512", "avx2", "other"}
IsAVX512(tier) == tier \in {"avx512vbmi", "avx512"}

-----------------------------------------------------------------------------
(* Lanes have W positions.                                                   *)

\* Shift every lane, by its own amount; what leaves the lane is lost.
ShiftLeft(x, W, amount(_)) ==
    {<<e[1] + amount(e[1] \div W), e[2]>> : e \in {e \in x : (e[1] % W) + amount(e[1] \div W) < W}}
ShiftRight(x, W, amount(_)) ==
    {<<e[1] - amount(e[1] \div W), e[2]>> : e \in {e \in x : e[1] % W >= amount(e[1] \div W)}}
Low(x, W, w) == {e \in x : e[1] % W < w}

\* Lane i of the result is lane idx[i] of x.
Permute(x, W, idx) ==
    {<<t[1] * W + (t[2][1] % W), t[2][2]>> :
        t \in {t \in (DOMAIN idx) \X x : t[2][1] \div W = idx[t[1]]}}
\* Lanes of x, then lanes of y: x has n of them.
ConcatPermute(x, y, n, W, idx) == Permute(x \cup {<<e[1] + n * W, e[2]>> : e \in y}, W, idx)

Load(memory, at, n) == {<<e[1] - at, e[2]>> : e \in {e \in memory : e[1] \in at..(at + n - 1)}}
Store(memory, at, n, x) ==
    {e \in memory : e[1] \notin at..(at + n - 1)} \cup {<<at + e[1], e[2]>> : e \in {e \in x : e[1] < n}}

\* A lookup table, numbered from 0 as in the code.
Table(s) == [i \in 0..(Len(s) - 1) |-> s[i + 1]]
Upto(n) == [i \in 1..n |-> i - 1]

\* A sum has every term once: a term added twice is marked.
Marked == -2
Add(x, y) == (x \cup y) \cup {<<e[1], Marked>> : e \in x \cap y}

-----------------------------------------------------------------------------
(* Bit packing.  Bit b of value i is named <<i, b>>; a value has w bits.     *)

Bit(i, b) == <<i, b>>
\* The values i..i+n-1 in words of W bits.
Words(i, n, W, w) == {<<t[1] * W + t[2], Bit(i + t[1], t[2])>> : t \in (0..(n - 1)) \X (0..(w - 1))}
\* What packing n values of w bits must leave in memory.
Packed(n, w) == {<<t[1] * w + t[2], Bit(t[1], t[2])>> : t \in (0..(n - 1)) \X (0..(w - 1))}

(* One value at a time, into zeroed words of W bits: the low part in the     *)
(* word of its offset, the rest in the next one.                             *)
encodeMiniBlock(n, w, W) ==
    UNION {LET j == (i * w) % W
               lo == (i * w) - j
           IN  {<<lo + j + b, Bit(i, b)>> : b \in {b \in 0..(w - 1) : j + b < W}}
                 \cup {<<lo + W + b - (W - j), Bit(i, b)>> : b \in {b \in 0..(w - 1) : b >= W - j}}
           : i \in 0..(n - 1)}

foldOdd == Table(<<1, 1, 3, 3, 5, 5, 7, 7>>)
foldPair == Table(<<2, 2, 2, 2, 6, 6, 6, 6>>)

(* Eight values in lanes of 64 bits, folded onto lanes 0 and 4, which are    *)
(* stitched into 16 bytes.                                                   *)
FoldGroup(lanes, w) ==
    LET t1 == ShiftLeft(lanes, 64, LAMBDA k : IF k % 2 = 1 THEN w ELSE 0)
        t2 == t1 \cup Permute(t1, 64, foldOdd)
        t3 == ShiftLeft(t2, 64, LAMBDA k : IF k \in {2, 6} THEN 2 * w ELSE 0)
        t4 == t3 \cup Permute(t3, 64, foldPair)
        q0 == Load(t4, 0, 64)
        q1 == Load(t4, 4 * 64, 64)
    IN  q0 \cup ShiftLeft(q1, 64, LAMBDA k : 4 * w)
           \cup {<<64 + e[1], e[2]>> : e \in ShiftRight(q1, 64, LAMBDA k : 64 - 4 * w)}

(* A group stores 16 bytes; the next one overwrites its zeroed tail.         *)
encodeMiniBlockPacked(groups, w) ==
    FoldLeft(LAMBDA memory, g : Store(memory, 8 * g * w, 128, FoldGroup(Words(8 * g, 8, 64, w), w)),
             {}, Upto(groups))

\* A mask of a comparison with 1 is the packed output: n lanes a mask.
encodeMiniBlockx1bit(n) ==
    UNION {{<<m * n + e[1], e[2]>> : e \in Words(m * n, n, 1, 1)} : m \in 0..(32 \div n - 1)}

packLowBytes32 == [i \in 0..63 |-> IF i < 32 THEN 4 * i ELSE 0]
packLowBytes64 == [i \in 0..63 |-> IF i < 16 THEN 8 * i ELSE 0]
packHalves == [i \in 0..63 |-> IF i < 16 THEN i ELSE IF i < 32 THEN 48 + i ELSE 0]
packDwordLow == [i \in 0..63 |-> IF i < 8 THEN 4 * i ELSE 0]

\* Pairs of lanes of W bits become lanes of twice as many: even + 2^s * odd.
AddPairs(x, W, s) ==
    {<<2 * W * (e[1] \div (2 * W)) + (e[1] % W) + (IF (e[1] \div W) % 2 = 1 THEN s ELSE 0), e[2]>> : e \in x}

Pack2bits(lowBytes) == Load(Permute(AddPairs(AddPairs(lowBytes, 8, 2), 16, 4), 8, packDwordLow), 0, 64)

encodeMiniBlockInt32x2bits ==
    Pack2bits(ConcatPermute(Words(0, 16, 32, 2), Words(16, 16, 32, 2), 64, 8, packLowBytes32))
encodeMiniBlockInt64x2bits ==
    LET low(i) == ConcatPermute(Words(i, 8, 64, 2), Words(i + 8, 8, 64, 2), 64, 8, packLowBytes64)
    IN  Pack2bits(ConcatPermute(low(0), low(16), 64, 8, packHalves))

encodeMiniBlockInt32SIMD(tier, w) ==
    CASE w = 1 /\ IsAVX512(tier)                  -> encodeMiniBlockx1bit(16)
      [] w = 2 /\ tier = "avx512vbmi"             -> encodeMiniBlockInt32x2bits
      [] w \in 3..16 /\ IsAVX512(tier)            -> encodeMiniBlockPacked(4, w)
      [] w = 2 /\ tier = "avx512"                 -> encodeMiniBlockPacked(4, w)
      [] w = 32                                   -> Words(0, 32, 32, 32)
      [] OTHER                                    -> encodeMiniBlock(32, w, 32)

encodeMiniBlockInt64SIMD(tier, w) ==
    CASE w = 1 /\ IsAVX512(tier)                  -> encodeMiniBlockx1bit(8)
      [] w = 2 /\ tier = "avx512vbmi"             -> encodeMiniBlockInt64x2bits
      [] w \in 3..16 /\ IsAVX512(tier)            -> encodeMiniBlockPacked(4, w)
      [] w = 2 /\ tier = "avx512"                 -> encodeMiniBlockPacked(4, w)
      [] w = 64                                   -> Words(0, 32, 64, 64)
      [] OTHER                                    -> encodeMiniBlock(32, w, 64)

\* Two groups a step, then one.
encodeInt32Bitpack1to16bitsSIMD(groups, w) == encodeMiniBlockPacked(groups, w)

-----------------------------------------------------------------------------
(* Bytes: values of up to 8 bits, eight to a word.                           *)

\* In lanes of W bits, the upper half moves down to bit s.
Narrow(x, W, s) ==
    Low(x, W, W \div 2)
      \cup ShiftLeft(ShiftRight(x, W, LAMBDA k : W \div 2), W, LAMBDA k : s)

\* What the tables do not set stays zero: those lanes repeat byte 0.
bitpackCompact(w) == [m \in 0..63 |-> IF m < 8 * w THEN (m \div w) * 8 + (m % w) ELSE 0]
bitpackIndex(w, first) ==
    [m \in 0..63 |-> LET v == first + m \div 2
                     IN  (v \div 8) * w + (((v % 8) * w) \div 8) + (m % 2)]
\* Mutant: the shift counts from a pair of bytes, not from the byte.
bitpackShiftOfPair(w, first, k) == (((first + k) % 8) * w) % 16

bitpackShift(w, first, k) == (((first + k) % 8) * w) % 8
bitpackInterleave == [m \in 0..63 |-> IF m < 32 THEN 2 * m ELSE 64 + 2 * (m - 32)]

\* One word of eight bytes, packed by shifts; it stores 8 bytes.
PackWord(memory, at, i, w) == Store(memory, 8 * at, 64, {<<e[1], e[2]>> : e \in
                                 UNION {{<<k * w + b, Bit(8 * i + k, b)>> : b \in 0..(w - 1)} : k \in 0..7}})

encodeBytesBitpackDefault(words, w) ==
    FoldLeft(LAMBDA memory, i : PackWord(memory, i * w, i, w), {}, Upto(words))

(* 64 bytes a step while there is room to store 64; the last words one by    *)
(* one.                                                                      *)
encodeBytesBitpackSIMD(words, room, w) ==
    LET steps == Cardinality({k \in 0..(words \div 8 - 1) : k * 8 * w + 64 <= room})
        step(k) == LET c == Words(64 * k, 64, 8, w)
                   IN  Permute(Narrow(Narrow(Narrow(c, 16, w), 32, 2 * w), 64, 4 * w), 8, bitpackCompact(w))
        vectors == FoldLeft(LAMBDA memory, k : Store(memory, 8 * (8 * k * w), 512, step(k)), {}, Upto(steps))
    IN  IF w = 8 THEN Words(0, 8 * words, 8, 8)
        ELSE FoldLeft(LAMBDA memory, i : PackWord(memory, i * w, i, w), vectors,
                      [j \in 1..(words - 8 * steps) |-> 8 * steps + j - 1])

\* The fields of one word, a byte each.
UnpackWord(src, len, at, w) ==
    LET word == Load(src, 8 * at, 8 * IF at + w <= len THEN w ELSE len - at)
    IN  {<<8 * (e[1] \div w) + (e[1] % w), e[2]>> : e \in word}

decodeBytesBitpackDefault(src, len, count, w) ==
    UNION {{<<64 * i + e[1], e[2]>> : e \in UnpackWord(src, len, i * w, w)} : i \in 0..(count \div 8 - 1)}

UnpackVector(c, w) ==
    LET half(first) == Low(ShiftRight(Permute(c, 8, bitpackIndex(w, first)), 16,
                                      LAMBDA k : bitpackShift(w, first, k)), 16, w)
    IN  ConcatPermute(half(0), half(32), 64, 8, bitpackInterleave)

(* 64 values a step, while 64 bytes can be read; what is left of the input   *)
(* is copied to a padded buffer if it holds 64 values or more.               *)
RECURSIVE decodeBytesBitpackSIMD(_, _, _, _)
decodeBytesBitpackSIMD(src, len, count, w) ==
    LET steps == Cardinality({k \in 0..(count \div 64 - 1) : k * 8 * w + 64 <= len})
        i == steps * 8 * w
        rest == count - 64 * steps
        vectors == UNION {{<<512 * k + e[1], e[2]>> : e \in UnpackVector(Load(src, 8 * (k * 8 * w), 512), w)}
                          : k \in 0..(steps - 1)}
        tail == IF rest >= 64 THEN decodeBytesBitpackSIMD(Load(src, 8 * i, 8 * (len - i)), 128, rest, w)
                ELSE UNION {{<<64 * k + e[1], e[2]>> : e \in UnpackWord(src, len, i + k * w, w)}
                            : k \in 0..(rest \div 8 - 1)}
    IN  IF w = 8 THEN Load(src, 0, 8 * count)
        ELSE vectors \cup {<<512 * steps + e[1], e[2]>> : e \in tail}

-----------------------------------------------------------------------------
(* The old bit-packed levels (encoding/bitpacked), from the high bits of a   *)
(* byte to the low ones; bit b of byte i is position 8 * i + b.              *)

encodeLevels(n, w) ==
    UNION {LET i == (k * w) \div 8
               available == 8 - ((k * w) % 8)
           IN  IF w <= available THEN {<<8 * i + available - w + b, Bit(k, b)>> : b \in 0..(w - 1)}
               ELSE {<<8 * i + b - (w - available), Bit(k, b)>> : b \in (w - available)..(w - 1)}
                      \cup {<<8 * (i + 1) + 8 - (w - available) + b, Bit(k, b)>> : b \in 0..(w - available - 1)}
           : k \in 0..(n - 1)}

\* One value more than fits when the width does not divide the bits: zeros.
decodeLevels(src, len, w) ==
    UNION {LET i == (k * w) \div 8
               available == 8 - ((k * w) % 8)
               remaining == w - available
               byte(j) == IF j < len THEN Load(src, 8 * j, 8) ELSE {}
               v == IF w <= available THEN Low(ShiftRight(byte(i), 8, LAMBDA x : available - w), 8, w)
                    ELSE ShiftLeft(Low(byte(i), 8, available), 8, LAMBDA x : remaining)
                           \cup ShiftRight(byte(i + 1), 8, LAMBDA x : 8 - remaining)
           IN  {<<8 * k + e[1], e[2]>> : e \in v}
           : k \in 0..((8 * len + w - 1) \div w - 1)}

-----------------------------------------------------------------------------
(* Blocks of 128 values and lists of lengths: a position is a lane, a name   *)
(* is the value (or the terms) it holds.                                     *)

Lanes(i, n) == {<<k, i + k>> : k \in 0..(n - 1)}
Broadcast(n, name) == {<<k, name>> : k \in 0..(n - 1)}
BlockLength == 128
MiniBlockLength == 32

\* A lane less the lane of the shifted vector.
Sub(x, y) == {<<p[1][1], <<p[1][2], p[2][2]>>>> : p \in {p \in x \X y : p[1][1] = p[2][1]}}

\* AVX-512: the carry, then the chunk, moved by a lane.
DeltaConcat(n) ==
    LET step(carry, i) == Sub(Lanes(i, n), ConcatPermute(carry, Lanes(i, n), n, 1, [k \in 0..(n - 1) |-> n - 1 + k]))
        carryAt(i) == IF i = 0 THEN Broadcast(n, -1) ELSE Permute(Lanes(i - n, n), 1, [k \in 0..(n - 1) |-> n - 1])
    IN  UNION {{<<n * j + e[1], e[2]>> : e \in step(carryAt(n * j), n * j)} : j \in 0..(BlockLength \div n - 1)}

\* AVX2: the chunk rotated by a lane (u units), its first lane from the carry.
DeltaRotate(n, u) ==
    LET units(i) == {<<t[1] * u + t[2], <<i + t[1], t[2]>>>> : t \in (0..(n - 1)) \X (0..(u - 1))}
        rotated(i) == Permute(units(i), 1, [k \in 0..(n * u - 1) |-> (k + n * u - u) % (n * u)])
        carryAt(i) == IF i = 0 THEN {<<t[1] * u + t[2], <<-1, t[2]>>>> : t \in (0..(n - 1)) \X (0..(u - 1))}
                      ELSE Permute(units(i - n), 1, [k \in 0..(n * u - 1) |-> n * u - u + (k % u)])
        shifted(i) == {e \in rotated(i) : e[1] > u - 1} \cup {e \in carryAt(i) : e[1] <= u - 1}
        diff(i) == {e \in Sub(units(i), shifted(i)) : e[1] % u = 0}
        whole(i) == \A e \in Sub(units(i), shifted(i)) : e[2][1][2] = e[2][2][2]
    IN  UNION {{<<n * j + (e[1] \div u), IF whole(n * j) THEN <<e[2][1][1], e[2][2][1]>> ELSE <<Marked, Marked>>>> : e \in diff(n * j)}
               : j \in 0..(BlockLength \div n - 1)}

blockDeltaInt32SIMD(tier) == IF IsAVX512(tier) THEN DeltaConcat(16) ELSE DeltaRotate(8, 1)
blockDeltaInt64SIMD(tier) == IF IsAVX512(tier) THEN DeltaConcat(8) ELSE DeltaRotate(4, 2)

\* The halves of a vector of n lanes, merged; lanes merged down to one.
Halve(x, n) == Load(x, 0, n \div 2) \cup Load(x, n \div 2, n \div 2)
Reduce4(x) ==
    LET p == x \cup Permute(x, 1, Table(<<2, 3, 0, 1>>))
    IN  Load(p \cup Permute(p, 1, Table(<<1, 0, 3, 2>>)), 0, 1)
\* The accumulators over the values from..from+n-1, merged, in lanes of a vector.
Accumulate(from, n, lanes) == UNION {Lanes(from + lanes * j, lanes) : j \in 0..(n \div lanes - 1)}

\* The values a minimum or maximum of n of them has looked at.
Extreme32(tier, from, n) ==
    IF IsAVX512(tier) THEN Reduce4(Halve(Halve(Accumulate(from, n, 16), 16), 8))
    ELSE Reduce4(Halve(Accumulate(from, n, 8), 8))
Extreme64(tier, from, n) ==
    IF IsAVX512(tier) THEN Halve(Halve(Halve(Accumulate(from, n, 8), 8), 4), 2)
    ELSE Halve(Halve(Accumulate(from, n, 4), 4), 2)

blockMinInt32SIMD(tier) == Extreme32(tier, 0, BlockLength)
blockMinInt64SIMD(tier) == Extreme64(tier, 0, BlockLength)
blockBitWidthsInt32SIMD(tier) ==
    UNION {{<<i, e[2]>> : e \in Extreme32(tier, i * MiniBlockLength, MiniBlockLength)} : i \in 0..3}
blockBitWidthsInt64SIMD(tier) ==
    UNION {{<<i, e[2]>> : e \in Extreme64(tier, i * MiniBlockLength, MiniBlockLength)} : i \in 0..3}

\* Lanes moved up by s, zeros shifted in; inclusive sums by doubling.
ShiftIn(x, n, s) == {e \in Permute(x, 1, [k \in 0..(n - 1) |-> IF k >= s THEN k - s ELSE 0]) : e[1] >= s}
Ladder(x, n) ==
    FoldLeft(LAMBDA acc, s : Add(acc, ShiftIn(acc, n, s)), x, IF n = 16 THEN <<1, 2, 4, 8>> ELSE <<1, 2, 4>>)
LastLane(x, n) == Permute(x, 1, [k \in 0..(n - 1) |-> n - 1])

(* Values from deltas, in place: lane i must hold the last value (-1) and    *)
(* the deltas 0..i.                                                          *)
decodeBlockInt32(tier, len) ==
    LET chunks == IF tier # "other" /\ len >= 8 THEN len \div 8 ELSE 0
        step(acc, j) == LET out == Add(Ladder(Lanes(8 * j, 8), 8), acc.carry)
                        IN  [memory |-> Store(acc.memory, 8 * j, 8, out), carry |-> LastLane(out, 8)]
        vectors == FoldLeft(step, [memory |-> {}, carry |-> Broadcast(8, -1)], Upto(chunks))
        one(acc, i) == LET out == Add({<<0, i>>}, acc.carry)
                       IN  [memory |-> Store(acc.memory, i, 1, out), carry |-> out]
    IN  FoldLeft(one, [vectors EXCEPT !.carry = Load(@, 0, 1)],
                 [k \in 1..(len - 8 * chunks) |-> 8 * chunks + k - 1]).memory

(* Offsets from lengths: offset i must hold the lengths 0..i-1.              *)
decodeByteArrayLengths(tier, len) ==
    LET n == IF IsAVX512(tier) /\ len >= 16 THEN 16 ELSE 8
        chunks == IF tier # "other" /\ len >= n THEN len \div n ELSE 0
        step(acc, j) == LET s == Ladder(Lanes(n * j, n), n)
                        IN  [memory |-> Store(acc.memory, n * j, n, Add(ShiftIn(s, n, 1), acc.carry)),
                             carry |-> Add(acc.carry, LastLane(s, n))]
        vectors == FoldLeft(step, [memory |-> {}, carry |-> {}], Upto(chunks))
        one(acc, i) == [memory |-> Store(acc.memory, i, 1, acc.carry), carry |-> Add(acc.carry, {<<0, i>>})]
        rest == FoldLeft(one, [vectors EXCEPT !.carry = Load(@, 0, 1)],
                         [k \in 1..(len - n * chunks) |-> n * chunks + k - 1])
    IN  Store(rest.memory, len, 1, rest.carry)

\* Lengths from offsets: two loads, a lane apart.
encodeByteArrayLengths(tier, len) ==
    LET n == IF IsAVX512(tier) /\ len >= 16 THEN 16 ELSE 8
        chunks == IF tier # "other" /\ len >= n THEN len \div n ELSE 0
        offsets == Lanes(0, len + 1)
    IN  UNION {{<<n * j + e[1], e[2]>> : e \in Sub(Load(offsets, 1 + n * j, n), Load(offsets, n * j, n))} : j \in 0..(chunks - 1)}
          \cup {<<i, <<i + 1, i>>>> : i \in (n * chunks)..(len - 1)}

\* The total of eight lanes.
reduceAddInt32x8 ==
    LET q == Add(Load(Lanes(0, 8), 0, 4), Load(Lanes(0, 8), 4, 4))
        p == Add(q, Permute(q, 1, Table(<<2, 3, 0, 1>>)))
    IN  Load(Add(p, Permute(p, 1, Table(<<1, 0, 3, 2>>))), 0, 1)

-----------------------------------------------------------------------------
(* Byte stream split: byte p of element i is named <<i, p>>.                 *)

Interleaved(n, planes) == {<<planes * t[1] + t[2], t>> : t \in (0..(n - 1)) \X (0..(planes - 1))}
Split(n, planes) == {<<t[2] * n + t[1], t>> : t \in (0..(n - 1)) \X (0..(planes - 1))}

bssEncGroup(planes) == [m \in 0..63 |-> planes * (m % (64 \div planes)) + (m \div (64 \div planes))]
bssDecGroup(planes) == [m \in 0..63 |-> (64 \div planes) * (m % planes) + (m \div planes)]
bssBlkLo4 == Table(<<0, 1, 2, 3, 16, 17, 18, 19, 4, 5, 6, 7, 20, 21, 22, 23>>)
bssBlkHi4 == Table(<<8, 9, 10, 11, 24, 25, 26, 27, 12, 13, 14, 15, 28, 29, 30, 31>>)
bssHalfLo4 == Table(<<0, 1, 2, 3, 4, 5, 6, 7, 16, 17, 18, 19, 20, 21, 22, 23>>)
bssHalfHi4 == Table(<<8, 9, 10, 11, 12, 13, 14, 15, 24, 25, 26, 27, 28, 29, 30, 31>>)
bssQLo1 == Table(<<0, 8, 1, 9, 2, 10, 3, 11>>)
bssQHi1 == Table(<<4, 12, 5, 13, 6, 14, 7, 15>>)
bssQLo2 == Table(<<0, 1, 8, 9, 2, 3, 10, 11>>)
bssQHi2 == Table(<<4, 5, 12, 13, 6, 7, 14, 15>>)
bssQLo3 == Table(<<0, 1, 2, 3, 8, 9, 10, 11>>)
bssQHi3 == Table(<<4, 5, 6, 7, 12, 13, 14, 15>>)

\* Four vectors of dwords to four, eight vectors of qwords to eight (from 0).
Transpose4(y) ==
    LET t == <<ConcatPermute(y[0], y[1], 16, 4, bssBlkLo4), ConcatPermute(y[0], y[1], 16, 4, bssBlkHi4),
               ConcatPermute(y[2], y[3], 16, 4, bssBlkLo4), ConcatPermute(y[2], y[3], 16, 4, bssBlkHi4)>>
    IN  [p \in 0..3 |-> ConcatPermute(t[1 + p \div 2], t[3 + p \div 2], 16, 4,
                                      IF p % 2 = 0 THEN bssHalfLo4 ELSE bssHalfHi4)]

transpose8x8Q(y) ==
    LET cat(x, z, idx) == ConcatPermute(x, z, 8, 8, idx)
        a == [k \in 0..7 |-> cat(y[2 * (k \div 2)], y[2 * (k \div 2) + 1], IF k % 2 = 0 THEN bssQLo1 ELSE bssQHi1)]
        b == [k \in 0..7 |-> LET at == 4 * (k \div 4) + (k % 4) \div 2
                             IN  cat(a[at], a[at + 2], IF k % 2 = 0 THEN bssQLo2 ELSE bssQHi2)]
    IN  [k \in 0..7 |-> cat(b[k \div 2], b[4 + (k \div 2)], IF k % 2 = 0 THEN bssQLo3 ELSE bssQHi3)]

Transpose(planes, y) == IF planes = 4 THEN Transpose4(y) ELSE transpose8x8Q(y)

\* Steps of 64 elements, then one element at a time.
SplitSteps(tier, n) == IF tier = "avx512vbmi" /\ n >= 64 THEN n \div 64 ELSE 0

EncodeSplit(tier, n, planes) ==
    LET steps == SplitSteps(tier, n)
        step(memory, s) ==
            LET i == 64 * s
                o == Transpose(planes, [k \in 0..(planes - 1) |->
                        Permute(Load(Interleaved(n, planes), planes * i + 64 * k, 64), 1, bssEncGroup(planes))])
            IN  FoldLeft(LAMBDA m, p : Store(m, p * n + i, 64, o[p]), memory, Upto(planes))
    IN  FoldLeft(step, {}, Upto(steps))
          \cup {<<t[2] * n + t[1], t>> : t \in ((64 * steps)..(n - 1)) \X (0..(planes - 1))}

DecodeSplit(tier, n, planes) ==
    LET steps == SplitSteps(tier, n)
        step(memory, s) ==
            LET i == 64 * s
                o == Transpose(planes, [p \in 0..(planes - 1) |-> Load(Split(n, planes), p * n + i, 64)])
            IN  FoldLeft(LAMBDA m, k : Store(m, planes * i + 64 * k, 64, Permute(o[k], 1, bssDecGroup(planes))),
                         memory, Upto(planes))
    IN  FoldLeft(step, {}, Upto(steps))
          \cup {<<planes * t[1] + t[2], t>> : t \in ((64 * steps)..(n - 1)) \X (0..(planes - 1))}

encodeFloat(tier, n) == EncodeSplit(tier, n, 4)
decodeFloat(tier, n) == DecodeSplit(tier, n, 4)
encodeDouble(tier, n) == EncodeSplit(tier, n, 8)
decodeDouble(tier, n) == DecodeSplit(tier, n, 8)

-----------------------------------------------------------------------------
(* What a kernel writes, and what it must write.                             *)

KernelOutput(c) ==
    CASE c.kernel = "miniblock32" -> Load(encodeMiniBlockInt32SIMD(c.tier, c.width), 0, 32 * c.width)
      [] c.kernel = "miniblock64" -> Load(encodeMiniBlockInt64SIMD(c.tier, c.width), 0, 32 * c.width)
      [] c.kernel = "groups"      -> Load(encodeInt32Bitpack1to16bitsSIMD(c.size, c.width), 0, 8 * c.size * c.width)
      [] c.kernel = "pack"        -> Load(IF c.tier = "avx512vbmi"
                                          THEN encodeBytesBitpackSIMD(c.size, c.size * c.width + 16, c.width)
                                          ELSE encodeBytesBitpackDefault(c.size, c.width), 0, 8 * c.size * c.width)
      [] c.kernel = "unpack"      -> LET src == Packed(8 * c.size, c.width)
                                         len == c.size * c.width
                                     IN  IF c.tier = "avx512vbmi"
                                         THEN decodeBytesBitpackSIMD(src, len, 8 * c.size, c.width)
                                         ELSE decodeBytesBitpackDefault(src, len, 8 * c.size, c.width)
      [] c.kernel = "levels"      -> Load(decodeLevels(encodeLevels(c.size, c.width),
                                                       (c.size * c.width + 7) \div 8, c.width), 0, 8 * c.size)
      [] c.kernel = "delta32"     -> blockDeltaInt32SIMD(c.tier)
      [] c.kernel = "delta64"     -> blockDeltaInt64SIMD(c.tier)
      [] c.kernel = "min32"       -> blockMinInt32SIMD(c.tier)
      [] c.kernel = "min64"       -> blockMinInt64SIMD(c.tier)
      [] c.kernel = "widths32"    -> blockBitWidthsInt32SIMD(c.tier)
      [] c.kernel = "widths64"    -> blockBitWidthsInt64SIMD(c.tier)
      [] c.kernel = "values"      -> decodeBlockInt32(c.tier, c.size)
      [] c.kernel = "offsets"     -> decodeByteArrayLengths(c.tier, c.size)
      [] c.kernel = "lengths"     -> encodeByteArrayLengths(c.tier, c.size)
      [] c.kernel = "total"       -> reduceAddInt32x8
      [] c.kernel = "split4"      -> encodeFloat(c.tier, c.size)
      [] c.kernel = "join4"       -> decodeFloat(c.tier, c.size)
      [] c.kernel = "split8"      -> encodeDouble(c.tier, c.size)
      [] c.kernel = "join8"       -> decodeDouble(c.tier, c.size)

KernelReference(c) ==
    CASE c.kernel \in {"miniblock32", "miniblock64"} -> Packed(32, c.width)
      [] c.kernel \in {"groups", "pack"}    -> Packed(8 * c.size, c.width)
      [] c.kernel = "unpack"                -> Words(0, 8 * c.size, 8, c.width)
      [] c.kernel = "levels"                -> Words(0, c.size, 8, c.width)
      [] c.kernel \in {"delta32", "delta64"} -> {<<i, <<i, i - 1>>>> : i \in 0..(BlockLength - 1)}
      [] c.kernel \in {"min32", "min64"}    -> {<<0, i>> : i \in 0..(BlockLength - 1)}
      [] c.kernel \in {"widths32", "widths64"} -> {<<i \div MiniBlockLength, i>> : i \in 0..(BlockLength - 1)}
      [] c.kernel = "values"                -> UNION {{<<i, t>> : t \in -1..i} : i \in 0..(c.size - 1)}
      [] c.kernel = "offsets"               -> UNION {{<<i, t>> : t \in 0..(i - 1)} : i \in 0..c.size}
      [] c.kernel = "lengths"               -> {<<i, <<i + 1, i>>>> : i \in 0..(c.size - 1)}
      [] c.kernel = "total"                 -> {<<0, i>> : i \in 0..7}
      [] c.kernel = "split4"                -> Split(c.size, 4)
      [] c.kernel = "join4"                 -> Interleaved(c.size, 4)
      [] c.kernel = "split8"                -> Split(c.size, 8)
      [] c.kernel = "join8"                 -> Interleaved(c.size, 8)

VARIABLES packing,   \* the case at hand
          packed     \* whether its kernel has run, and wrote what it must

packingVars == <<packing, packed>>

PackingInit == packing \in PackingCases /\ packed = [ran |-> FALSE, exact |-> TRUE]

RunKernel ==
    /\ ~packed.ran
    /\ packed' = [ran |-> TRUE, exact |-> KernelOutput(packing) = KernelReference(packing)]
    /\ UNCHANGED packing

PackingNext == RunKernel
PackingSpec == PackingInit /\ [][PackingNext]_packingVars

(* Every vector kernel leaves in memory exactly what the loop over single    *)
(* values would: each bit, byte or term of the input once, at its place, and *)
(* nothing in between, at every width, size and instruction set.             *)
KernelsExact == packed.exact
=============================================================================
