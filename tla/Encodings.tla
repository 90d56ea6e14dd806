------------------------------ MODULE Encodings ------------------------------
(* The encodings of pages: the hybrid of runs and bit packing                *)
(* (encoding/rle), its dictionary form, deltas of integers                   *)
(* (encoding/delta/binary_packed.go), byte arrays by lengths and by          *)
(* prefixes (encoding/delta), plain byte arrays (encoding/plain) and the     *)
(* old bit-packed levels (encoding/bitpacked).                               *)
(*                                                                           *)
(* A page is a sequence of units, where the code has bytes: a header, the    *)
(* values packed in one group or mini-block, a value, a string of bytes.     *)
(* Packing keeps the low bits of a value.  Groups of 8 values, blocks of 128 *)
(* and chunks of 32 bytes are scaled down by the constants.                  *)
EXTENDS Integers, Sequences, FiniteSets, SequencesExt, FiniteSetsExt

CONSTANTS GroupSize,          \* values of a bit-packed group (8)
          Block,          \* deltas of a block (128)
          MiniBlocks,     \* mini-blocks of a block (4)
          IntBits,        \* bits of an integer (32 or 64)
          Chunk,          \* bytes of a vector copy (32); two of them are the padding
          EncodingCases   \* families of codecs and inputs: [codec, input, width, tier, done]

ASSUME EncodingAssumption ==
    /\ {GroupSize, Block, MiniBlocks, IntBits, Chunk} \subseteq Nat \ {0}
    /\ Block % MiniBlocks = 0

MiniBlock == Block \div MiniBlocks

\* The first index from i on that passes, or the one after the last.
Seek(s, i, Test(_)) == Min({j \in i..Len(s) : Test(j)} \cup {Len(s) + 1})
Repeat(x, n) == [k \in 1..n |-> x]
Suffix(s, i) == SubSeq(s, i, Len(s))
LowBits(n, w) == n % 2^w

-----------------------------------------------------------------------------
(* Units of a page of the hybrid encoding.                                   *)

Header(count, isPacked) == [kind |-> "header", count |-> count, bitpacked |-> isPacked]
Data(values) == [kind |-> "data", values |-> values]

\* A run is a count and one value; a packed block is its groups.
appendRunLength(count, value) == <<Header(count, FALSE), Data(<<value>>)>>
appendBitPacked(groups, w) ==
    <<Header(Len(groups), TRUE)>>
        \o [k \in 1..Len(groups) |-> Data([i \in 1..Len(groups[k]) |-> LowBits(groups[k][i], w)])]

(* Booleans: src is bytes of eight bits, all zeroes or all ones among them.  *)
Zeroes == 0
Ones == 255

RECURSIVE encodeBitsFrom(_, _)
encodeBitsFrom(src, i) ==
    LET run == Seek(src, i + 1, LAMBDA j : src[j] # src[i])
        stop == Seek(src, i + 1, LAMBDA j : src[j - 1] = src[j] /\ ~(src[j] # Zeroes /\ src[j] = Ones))
        end == IF stop - i > 1 /\ stop <= Len(src) THEN stop - 1 ELSE stop
    IN  CASE i > Len(src) -> <<>>
          [] i <= Len(src) /\ src[i] \in {Zeroes, Ones} /\ run - i > 1 ->
                appendRunLength(8 * (run - i), src[i]) \o encodeBitsFrom(src, run)
          [] OTHER ->
                <<Header(end - i, TRUE)>> \o [k \in 1..(end - i) |-> Data(<<src[i + k - 1]>>)]
                    \o encodeBitsFrom(src, end)

encodeBits(src) ==
    CASE src = <<>>                                                        -> <<Header(0, FALSE)>>
      [] src # <<>> /\ \E b \in {Zeroes, Ones} : ToSet(src) = {b}          -> appendRunLength(8 * Len(src), src[1])
      [] OTHER                                                             -> encodeBitsFrom(src, 1)

\* The groups of src, and what is left after the last one, in runs.
Groups(src) == [k \in 1..(Len(src) \div GroupSize) |-> SubSeq(src, GroupSize * (k - 1) + 1, GroupSize * k)]
IsUniform(word, value) == word = Repeat(value, GroupSize)

RECURSIVE encodeTail(_, _)
encodeTail(src, i) ==
    IF i > Len(src) THEN <<>>
    ELSE LET j == Seek(src, i + 1, LAMBDA k : src[k] # src[i])
         IN  appendRunLength(j - i, src[i]) \o encodeTail(src, j)

(* Levels: a packed block stops before a word that repeats the first byte of *)
(* the word before it.                                                       *)
RECURSIVE encodeByteWords(_, _, _)
encodeByteWords(words, i, w) ==
    IF i > Len(words) THEN <<>>
    ELSE LET pattern == words[i][1]
             run == Seek(words, i, LAMBDA j : ~IsUniform(words[j], pattern))
             stop == Seek(words, i + 1, LAMBDA j : IsUniform(words[j], words[j - 1][1]))
         IN  IF i < run THEN appendRunLength(GroupSize * (run - i), pattern) \o encodeByteWords(words, run, w)
             ELSE appendBitPacked(SubSeq(words, i, stop - 1), w) \o encodeByteWords(words, stop, w)

(* Integers: a packed block stops before the first word of equal values.     *)
encodeInt32IndexEqual8Contiguous(words) == Seek(words, 1, LAMBDA j : IsUniform(words[j], words[j][1])) - 1

\* Four words at a time, each compared with itself rotated by a lane.
encodeInt32IndexEqual8ContiguousSIMD(words) ==
    LET equal(j) == words[j] = Suffix(words[j], 2) \o <<words[j][1]>>
        chunks == {c \in 0..(Len(words) \div 4 - 1) : \E k \in 1..4 : equal(4 * c + k)}
    IN  IF chunks # {} THEN 4 * Min(chunks) + Min({k \in 1..4 : equal(4 * Min(chunks) + k)}) - 1
        ELSE Seek(words, 4 * (Len(words) \div 4) + 1, equal) - 1

RECURSIVE encodeIntWords(_, _, _, _)
encodeIntWords(words, i, w, tier) ==
    IF i > Len(words) THEN <<>>
    ELSE LET pattern == words[i][1]
             run == Seek(words, i, LAMBDA j : ~IsUniform(words[j], pattern))
             rest == Suffix(words, i + 1)
             stop == i + 1 + (IF tier = "avx2" THEN encodeInt32IndexEqual8ContiguousSIMD(rest)
                              ELSE encodeInt32IndexEqual8Contiguous(rest))
         IN  IF i < run THEN appendRunLength(GroupSize * (run - i), pattern) \o encodeIntWords(words, run, w, tier)
             ELSE appendBitPacked(SubSeq(words, i, stop - 1), w) \o encodeIntWords(words, stop, w, tier)

TailOf(src) == encodeTail(src, (Len(src) \div GroupSize) * GroupSize + 1)

encodeBytes(src, w) ==
    IF w = 0 THEN <<Header(Len(src), FALSE)>>
    ELSE encodeByteWords(Groups(src), 1, w) \o TailOf(src)

encodeInt32(src, w, tier) ==
    IF w = 0 THEN <<Header(Len(src), FALSE)>>
    ELSE encodeIntWords(Groups(src), 1, w, tier) \o TailOf(src)

(* Decoding: a header, then its groups or its value.  A width of zero stores *)
(* no value; a run of bits takes the next byte if there is one.              *)
RECURSIVE decodeHybrid(_, _)
decodeHybrid(src, w) ==
    IF src = <<>> THEN <<>>
    ELSE LET h == src[1]
             n == h.count
         IN  CASE n = 0 -> decodeHybrid(Tail(src), w)
               [] n # 0 /\ h.bitpacked ->
                    FoldLeft(LAMBDA acc, unit : acc \o unit.values, <<>>, SubSeq(src, 2, n + 1))
                        \o decodeHybrid(Suffix(src, n + 2), w)
               [] n # 0 /\ ~h.bitpacked /\ w = 0 -> Repeat(0, n) \o decodeHybrid(Tail(src), w)
               [] OTHER -> Repeat(src[2].values[1], n) \o decodeHybrid(Suffix(src, 3), w)

decodeBytes(src, w) == decodeHybrid(src, w)
decodeInt32(src, w) == decodeHybrid(src, w)

RECURSIVE decodeBits(_)
decodeBits(src) ==
    IF src = <<>> THEN <<>>
    ELSE LET n == src[1].count
         IN  CASE n = 0 -> decodeBits(Tail(src))
               [] n # 0 /\ src[1].bitpacked ->
                    [k \in 1..n |-> src[k + 1].values[1]] \o decodeBits(Suffix(src, n + 2))
               [] OTHER ->
                    Repeat(IF Len(src) > 1 THEN src[2].values[1] ELSE 0, (n + 7) \div 8)
                        \o decodeBits(Suffix(src, 3))

\* Booleans are preceded by their length, dictionary indexes by their width.
BitLen(n) == CHOOSE w \in 0..IntBits : n < 2^w /\ (w = 0 \/ n >= 2^(w - 1))
maxLenInt32(src) == Max({BitLen(v) : v \in ToSet(src)} \cup {0})
EncodeBoolean(src) == <<Header(Len(encodeBits(src)), FALSE)>> \o encodeBits(src)
DecodeBoolean(src) == IF Len(src) = 1 THEN <<>> ELSE decodeBits(SubSeq(src, 2, src[1].count + 1))
EncodeDictionary(src, tier) ==
    <<Header(maxLenInt32(src), FALSE)>> \o encodeInt32(src, maxLenInt32(src), tier)
DecodeDictionary(src) == IF src = <<>> THEN <<>> ELSE decodeInt32(Tail(src), src[1].count)

-----------------------------------------------------------------------------
(* Deltas of integers, in two's complement.                                  *)

WrapInt(n) == ((n + 2^(IntBits - 1)) % 2^IntBits) - 2^(IntBits - 1)
UnsignedInt(n) == n % 2^IntBits

blockDelta(block, lastValue) ==
    [j \in 1..Block |-> WrapInt(block[j] - (IF j = 1 THEN lastValue ELSE block[j - 1]))]
blockMin(block) == Min(ToSet(block))
blockSub(block, value) == [j \in 1..Block |-> WrapInt(block[j] - value)]
\* Mutant: the last delta of a short block is cleared too.
blockClearLast(block, length) == [j \in 1..Block |-> IF j < length THEN block[j] ELSE 0]

blockClear(block, length) == [j \in 1..Block |-> IF j <= length THEN block[j] ELSE 0]
MiniBlockOf(block, m) == SubSeq(block, MiniBlock * (m - 1) + 1, MiniBlock * m)
blockBitWidths(block) ==
    [m \in 1..MiniBlocks |-> Max({BitLen(UnsignedInt(v)) : v \in ToSet(MiniBlockOf(block, m))})]

\* The block that starts at index i, after src[i - 1]: its header, its mini-blocks.
encodeBlock(src, i) ==
    LET length == Min({Block, Len(src) - i + 1})
        values == [j \in 1..Block |-> IF j <= length THEN src[i + j - 1] ELSE 0]
        delta == blockDelta(values, src[i - 1])
        minDelta == blockMin(delta)
        block == blockClear(blockSub(delta, minDelta), length)
        widths == blockBitWidths(block)
        written == SelectSeq([m \in 1..MiniBlocks |-> m], LAMBDA m : widths[m] # 0)
    IN  <<[kind |-> "block", minDelta |-> minDelta, widths |-> widths]>>
          \o [k \in 1..Len(written) |->
                Data([j \in 1..MiniBlock |-> LowBits(UnsignedInt(MiniBlockOf(block, written[k])[j]), widths[written[k]])])]

DeltaHeader(src) == [kind |-> "deltas", total |-> Len(src), first |-> IF src = <<>> THEN 0 ELSE src[1]]

encodeDelta(src) ==
    FoldLeft(LAMBDA page, k : page \o encodeBlock(src, Block * k + 2), <<DeltaHeader(src)>>,
             [k \in 1..((Len(src) + Block - 2) \div Block) |-> k - 1])

encodeDeltaInt32(src) == encodeDelta(src)
encodeDeltaInt64(src) == encodeDelta(src)

\* A buffer taken for n values: what it held before is cleared.
resize(n) == Repeat(0, n)

(* The mini-blocks of one block: acc is [out, src, total].  A width of zero  *)
(* leaves the values as the buffer had them; mini-blocks after the last      *)
(* value are not read.                                                       *)
decodeMiniBlock(acc, w) ==
    LET n == Min({MiniBlock, acc.total})
    IN  IF acc.total = 0 THEN acc
        ELSE [out |-> acc.out \o (IF w # 0 THEN SubSeq(acc.src[1].values, 1, n) ELSE resize(n)),
              src |-> IF w # 0 THEN Tail(acc.src) ELSE acc.src,
              total |-> acc.total - n]

decodeBlock(deltas, minDelta, lastValue) ==
    FoldLeft(LAMBDA acc, d : Append(acc, WrapInt(WrapInt(d + minDelta) + Last(acc))), <<lastValue>>, deltas)

RECURSIVE decodeBlocks(_, _, _)
decodeBlocks(out, src, total) ==
    IF total = 0 \/ src = <<>> THEN [values |-> out, rest |-> src, missing |-> total]
    ELSE LET read == FoldLeft(decodeMiniBlock, [out |-> <<>>, src |-> Tail(src), total |-> total], src[1].widths)
             values == Tail(decodeBlock(read.out, src[1].minDelta, Last(out)))
         IN  decodeBlocks(out \o values, read.src, read.total)

\* The values, and what follows them in the page.
decodeDelta(src) ==
    IF src[1].total = 0 THEN [values |-> <<>>, rest |-> Tail(src), missing |-> 0]
    ELSE decodeBlocks(<<src[1].first>>, Tail(src), src[1].total - 1)

decodeDeltaInt32(src) == decodeDelta(src)
decodeDeltaInt64(src) == decodeDelta(src)

-----------------------------------------------------------------------------
(* Byte arrays: a value is a sequence of bytes, a page ends with the bytes   *)
(* of all the values, one unit each.                                         *)

linearSearchPrefixLength(base, data) ==
    LET n == Min({Len(base), Len(data)})
    IN  Min({k \in 0..(n - 1) : base[k + 1] # data[k + 1]} \cup {n})

\* Words of GroupSize bytes: the first that differs, the first byte that does in it.
wordSearchPrefixLength(base, data) ==
    LET n == Min({Len(base), Len(data)})
        word(s, i) == SubSeq(s, GroupSize * i + 1, GroupSize * (i + 1))
        differ == {i \in 0..(n \div GroupSize - 1) : word(base, i) # word(data, i)}
    IN  IF differ # {} THEN GroupSize * Min(differ) + linearSearchPrefixLength(word(base, Min(differ)), word(data, Min(differ)))
        ELSE Min({k \in (GroupSize * (n \div GroupSize))..(n - 1) : base[k + 1] # data[k + 1]} \cup {n})

searchPrefixLengthSIMD(base, data) ==
    LET n == Min({Len(base), Len(data)})
        chunk(s, i) == SubSeq(s, Chunk * i + 1, Chunk * (i + 1))
        differ == {i \in 0..(n \div Chunk - 1) : chunk(base, i) # chunk(data, i)}
        at == Chunk * (n \div Chunk)
    IN  IF differ # {} THEN Chunk * Min(differ) + linearSearchPrefixLength(chunk(base, Min(differ)), chunk(data, Min(differ)))
        ELSE at + wordSearchPrefixLength(Suffix(base, at + 1), Suffix(data, at + 1))

\* sort.Search over the lengths whose prefixes differ.
binarySearchPrefixLength(base, data) ==
    LET n == Min({Len(base), Len(data)})
    IN  Min({k \in 0..(n - 1) : SubSeq(base, 1, k + 1) # SubSeq(data, 1, k + 1)} \cup {n})

searchPrefixLength(tier, base, data) ==
    IF tier = "avx2" /\ Min({Len(base), Len(data)}) >= Chunk THEN searchPrefixLengthSIMD(base, data)
    ELSE wordSearchPrefixLength(base, data)

Bytes(s) == [k \in 1..Len(s) |-> Data(<<s[k]>>)]

EncodeByteArrayDelta(values, tier) ==
    LET prefix == [k \in 1..Len(values) |-> searchPrefixLength(tier, IF k = 1 THEN <<>> ELSE values[k - 1], values[k])]
        suffix == [k \in 1..Len(values) |-> Len(values[k]) - prefix[k]]
    IN  encodeDelta(prefix) \o encodeDelta(suffix)
          \o Bytes(FlattenSeq([k \in 1..Len(values) |-> Suffix(values[k], prefix[k] + 1)]))

EncodeByteArrayLength(values) ==
    encodeDelta([k \in 1..Len(values) |-> Len(values[k])]) \o Bytes(FlattenSeq(values))

\* The bytes before value k of the given lengths.
OffsetOf(lengths, k) == FoldLeft(LAMBDA a, n : a + n, 0, SubSeq(lengths, 1, k - 1))
Slices(bytes, lengths) ==
    [k \in 1..Len(lengths) |-> SubSeq(bytes, OffsetOf(lengths, k) + 1, OffsetOf(lengths, k + 1))]
BytesOf(units) == [k \in 1..Len(units) |-> units[k].values[1]]

DecodeByteArrayLength(page) ==
    LET lengths == decodeDelta(page) IN Slices(BytesOf(lengths.rest), lengths.values)

(* One value after the other: its prefix is of the value before it.          *)
decodeByteArrayScalar(src, prefix, suffix) ==
    FoldLeft(LAMBDA acc, k :
                LET last == IF k = 1 THEN <<>> ELSE acc.values[k - 1]
                IN  [values |-> Append(acc.values, SubSeq(last, 1, prefix[k]) \o SubSeq(acc.src, 1, suffix[k])),
                     src |-> Suffix(acc.src, suffix[k] + 1)],
             [values |-> <<>>, src |-> src], [k \in 1..Len(suffix) |-> k]).values

\* Lengths are checked before they are used; the totals size the output.
LengthsValid(prefix, suffix, maxLength) ==
    /\ \A k \in 1..Len(prefix) :
        /\ prefix[k] >= 0
        /\ suffix[k] >= 0
        /\ prefix[k] <= IF k = 1 THEN 0 ELSE prefix[k - 1] + suffix[k - 1]
    /\ OffsetOf(suffix, Len(suffix) + 1) <= maxLength

(* GroupSize lengths at a time: the lengths before them are the sums of the      *)
(* chunk, rotated, the first lane from the chunk before; the signs of all    *)
(* lengths are tested at the end.                                            *)
LengthsValidSIMD(prefix, suffix, maxLength) ==
    LET n == Len(prefix)
        m == GroupSize * (n \div GroupSize)
        sum(k) == prefix[k] + suffix[k]
        lastOf(k) == CASE k = 1                     -> 0
                       [] k > 1 /\ (k - 1) % GroupSize = 0 -> sum(k - 1)   \* the carry
                       [] OTHER                     -> LET rot == GroupSize * ((k - 1) \div GroupSize) + ((k - 2) % GroupSize) + 1
                                                       IN  sum(rot)
    IN  /\ \A k \in 1..m : prefix[k] <= lastOf(k)
        /\ \A k \in 1..m : prefix[k] >= 0 /\ suffix[k] >= 0
        /\ \A k \in (m + 1)..n : prefix[k] >= 0 /\ suffix[k] >= 0 /\ prefix[k] <= IF k = 1 THEN 0 ELSE sum(k - 1)
        /\ OffsetOf(suffix, n + 1) <= maxLength

(* Copies of whole vectors of c bytes, at least one: what they write past    *)
(* the value is overwritten by the copies that follow, or is padding.        *)
Stale == -1
Padding == 2 * Chunk
CopyVectors(memory, to, from(_, _), n, c) ==
    FoldLeft(LAMBDA mem, j : [a \in DOMAIN mem |-> IF a \in (to + c * j)..(to + c * j + c - 1)
                                                   THEN from(mem, a - to) ELSE mem[a]],
             memory, [j \in 1..Max({1, (n + c - 1) \div c}) |-> j - 1])

\* The values 1..k of src, copied in vectors of c bytes: the memory and its end.
decodeByteArraySIMD(src, prefix, suffix, k, size, c) ==
    LET step(acc, v) ==
            LET p == prefix[v]
                n == suffix[v]
                m1 == CopyVectors(acc.memory, acc.pd, LAMBDA mem, a : mem[acc.pl + a], p, c)
                m2 == CopyVectors(m1, acc.pd + p,
                                  LAMBDA mem, a : IF acc.ps + a < Len(src) THEN src[acc.ps + a + 1] ELSE Stale, n, c)
            IN  [memory |-> m2, pd |-> acc.pd + p + n, ps |-> acc.ps + n, pl |-> acc.pd]
    IN  FoldLeft(step, [memory |-> [a \in 0..(size - 1) |-> Stale], pd |-> 0, ps |-> 0, pl |-> 0],
                 [v \in 1..k |-> v])

\* The least number of trailing values that hold a padding of suffix bytes.
VectorValues(suffix) ==
    LET tail(k) == OffsetOf(suffix, Len(suffix) + 1) - OffsetOf(suffix, k + 1)
    IN  Max({k \in 0..Len(suffix) : tail(k) >= Padding} \cup {0})

(* The first values by vectors while a padding of input remains after them,  *)
(* the others byte by byte.                                                  *)
decodeByteArrayVector(src, prefix, suffix, c) ==
    LET lengths == [v \in 1..Len(prefix) |-> prefix[v] + suffix[v]]
        total == OffsetOf(lengths, Len(lengths) + 1)
        k == VectorValues(suffix)
        head == decodeByteArraySIMD(src, prefix, suffix, k, total + Padding, c)
        values == Slices([a \in 1..head.pd |-> head.memory[a - 1]], SubSeq(lengths, 1, k))
        rest == OffsetOf(suffix, Len(suffix) + 1) - OffsetOf(suffix, k + 1)
        one(acc, v) == Append(acc, SubSeq(IF v = 1 THEN <<>> ELSE acc[v - 1], 1, prefix[v])
                                     \o SubSeq(src, Len(src) - rest + OffsetOf(suffix, v) - OffsetOf(suffix, k + 1) + 1,
                                               Len(src) - rest + OffsetOf(suffix, v + 1) - OffsetOf(suffix, k + 1)))
    IN  IF Len(src) > Padding /\ k > 0
        THEN FoldLeft(one, values, [j \in 1..(Len(prefix) - k) |-> k + j])
        ELSE decodeByteArrayScalar(src, prefix, suffix)

decodeByteArray(tier, src, prefix, suffix) ==
    IF tier = "avx2" THEN decodeByteArrayVector(src, prefix, suffix, Chunk)
    ELSE decodeByteArrayScalar(src, prefix, suffix)

\* Values of half a chunk (16 bytes) are copied in half chunks.
decodeFixedLenByteArray(tier, src, size, prefix, suffix) ==
    CASE tier = "avx2" /\ size = Chunk \div 2 -> decodeByteArrayVector(src, prefix, suffix, Chunk \div 2)
      [] tier = "avx2" /\ size # Chunk \div 2 -> decodeByteArrayVector(src, prefix, suffix, Chunk)
      [] OTHER                                -> decodeByteArrayScalar(src, prefix, suffix)

DecodeByteArrayDelta(page, tier) ==
    LET prefix == decodeDelta(page)
        suffix == decodeDelta(prefix.rest)
    IN  decodeByteArray(tier, BytesOf(suffix.rest), prefix.values, suffix.values)

DecodeFixedLenByteArrayDelta(page, size, tier) ==
    LET prefix == decodeDelta(page)
        suffix == decodeDelta(prefix.rest)
    IN  decodeFixedLenByteArray(tier, BytesOf(suffix.rest), size, prefix.values, suffix.values)

(* Plain byte arrays: each preceded by its length.                           *)
AppendByteArray(page, v) == page \o <<Data(<<Len(v)>>)>> \o Bytes(v)
EncodeByteArrayPlain(values) == FoldLeft(AppendByteArray, <<>>, values)
RECURSIVE DecodeByteArrayPlain(_)
DecodeByteArrayPlain(page) ==
    IF page = <<>> THEN <<>>
    ELSE LET n == page[1].values[1]
         IN  <<BytesOf(SubSeq(page, 2, n + 1))>> \o DecodeByteArrayPlain(Suffix(page, n + 2))

-----------------------------------------------------------------------------
(* A codec on an input: what comes back; for a helper with several           *)
(* implementations, its input when they agree.                               *)

SearchesAgree(base, data) ==
    Cardinality({linearSearchPrefixLength(base, data), wordSearchPrefixLength(base, data),
                 searchPrefixLengthSIMD(base, data), binarySearchPrefixLength(base, data)}) = 1
ChecksAgree(prefix, suffix, maxLength) ==
    LengthsValid(prefix, suffix, maxLength) <=> LengthsValidSIMD(prefix, suffix, maxLength)

RoundTrip(c) ==
    CASE c.codec = "booleans"   -> DecodeBoolean(EncodeBoolean(c.input))
      [] c.codec = "levels"     -> decodeBytes(encodeBytes(c.input, c.width), c.width)
      [] c.codec = "integers"   -> decodeInt32(encodeInt32(c.input, c.width, c.tier), c.width)
      [] c.codec = "dictionary" -> DecodeDictionary(EncodeDictionary(c.input, c.tier))
      [] c.codec = "deltas32"   -> decodeDeltaInt32(encodeDeltaInt32(c.input)).values
      [] c.codec = "deltas64"   -> decodeDeltaInt64(encodeDeltaInt64(c.input)).values
      [] c.codec = "lengths"    -> DecodeByteArrayLength(EncodeByteArrayLength(c.input))
      [] c.codec = "prefixes"   -> DecodeByteArrayDelta(EncodeByteArrayDelta(c.input, c.tier), c.tier)
      [] c.codec = "fixed"      -> DecodeFixedLenByteArrayDelta(EncodeByteArrayDelta(c.input, c.tier), c.width, c.tier)
      [] c.codec = "plain"      -> DecodeByteArrayPlain(EncodeByteArrayPlain(c.input))
      [] c.codec = "search"     -> IF SearchesAgree(c.input[1], c.input[2]) THEN c.input ELSE <<>>
      [] c.codec = "validate"   -> IF ChecksAgree(c.input[1], c.input[2], c.width) THEN c.input ELSE <<>>

VARIABLES coding,    \* the case at hand
          decoded    \* what came back

encodingVars == <<coding, decoded>>
EncodingInit == (\E family \in EncodingCases : coding \in family) /\ decoded = coding.input

EncodeAndDecode ==
    /\ decoded' = RoundTrip(coding)
    /\ coding' = [coding EXCEPT !.done = TRUE]
    /\ ~coding.done

EncodingNext == EncodeAndDecode
EncodingSpec == EncodingInit /\ [][EncodingNext]_encodingVars

(* A page decodes to the values it was encoded from, whatever the encoding,  *)
(* the lengths of its runs, blocks and values, and the kernels of the        *)
(* machine.                                                                  *)
ValuesSurvive == decoded = coding.input
=============================================================================
