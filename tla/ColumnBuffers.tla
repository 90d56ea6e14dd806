--------------------------- MODULE ColumnBuffers ---------------------------
(***************************************************************************)
(* The in-memory columns that rows are written to, sorted in and read      *)
(* back from as pages: the buffers of the physical types, the buffer of    *)
(* dictionary indexes, and the optional and repeated buffers wrapped       *)
(* around them.  A column is a record; each method of the code is an       *)
(* operator from records to records.                                       *)
(*                                                                         *)
(* The variable rows is a history variable: the rows the column must hold  *)
(* after the calls made so far.  A row is a sequence of [r, d, v]: the     *)
(* repetition and definition level of a value and the value itself, or     *)
(* Null below the maximum definition level.                                *)
(***************************************************************************)
EXTENDS Integers, Sequences, SequencesExt

CONSTANTS
    Columns,          \* the columns the model starts from, each [nesting, base]
    ByteArrays,       \* the byte arrays written: sequences of bytes
    BitsPerByte,      \* the booleans packed in one byte
    MaxColumnRows,    \* a bound on the rows of a column
    MaxColumnCalls,   \* a bound on the calls made
    WriteAfterPage    \* may a column be written or sorted after Page?

VARIABLES
    col,      \* the column buffer
    rows,     \* the rows it must hold
    taken,    \* Page was called since the last Reset
    colCalls  \* calls made so far

columnVars == <<col, rows, taken, colCalls>>

ASSUME ColumnAssumption ==
    /\ BitsPerByte \in Nat \ {0} /\ MaxColumnRows \in Nat /\ MaxColumnCalls \in Nat
    /\ WriteAfterPage \in BOOLEAN
    /\ Columns \subseteq [nesting : {"required", "optional", "repeated"},
                          base : {"fixed", "bits", "bytes", "indexed"}]

\* A null, of the same shape as the values of its column, and a value whose
\* length a column of fixed length refuses.
NullOf(kind) == IF kind = "bytes" THEN <<0>> ELSE -1
Bad        == -2

(***************************************************************************)
(* The levels: a required column has maximum definition level 0, an        *)
(* optional one 1, and a repeated one definition level 2 (level 1 is a     *)
(* null element, level 0 an empty list) and repetition level 1.            *)
(***************************************************************************)
MaxDefinition(c) == CASE c.nesting = "required" -> 0
                      [] c.nesting = "optional" -> 1
                      [] OTHER -> 2

BaseValues(base) == CASE base = "bits"  -> {0, 1}
                      [] base = "bytes" -> ByteArrays
                      [] OTHER -> {1, 2}

----------------------------------------------------------------------------
(***************************************************************************)
(* Columns of one machine word per value: int32ColumnBuffer and, but for   *)
(* their element type, those of the other numbers and byte arrays of a     *)
(* fixed length.                                                           *)
(***************************************************************************)
newFixed == [kind |-> "fixed", values |-> <<>>]

(***************************************************************************)
(* Booleans are bits of bytes.  Writing extends the bytes to hold the new  *)
(* bits and clears what follows the last one (clearTrailingBits).          *)
(***************************************************************************)
newBits == [kind |-> "bits", bits |-> <<>>, numValues |-> 0, offset |-> 0]

ByteCount(n) == ((n + BitsPerByte - 1) \div BitsPerByte) * BitsPerByte

BitsWrite(b, v) ==
    LET n == b.numValues + 1
    IN  [b EXCEPT !.numValues = n,
                  !.bits = [k \in 1..ByteCount(n) |->
                              IF k < n THEN b.bits[k] ELSE IF k = n THEN v ELSE 0]]

BitAt(b, i) == b.bits[b.offset + i]

BitsSlice(p, i, j) ==
    LET low == i + p.offset
        off == (low \div BitsPerByte) * BitsPerByte
    IN  [p EXCEPT !.bits = SubSeq(p.bits, off + 1, ByteCount(j + p.offset)),
                  !.offset = low - off,
                  !.numValues = j - i]

(***************************************************************************)
(* Byte arrays are one run of bytes, the offset where each value starts    *)
(* and its length.  Sorting exchanges offsets and lengths; page puts the   *)
(* bytes in the order of the values when the offsets are no longer         *)
(* ascending, then appends the end offset the page needs.                  *)
(***************************************************************************)
newBytes == [kind |-> "bytes", values |-> <<>>, offsets |-> <<>>, lengths |-> <<>>]

BytesWrite(b, v) == [b EXCEPT !.offsets = Append(@, Len(b.values)),
                              !.lengths = Append(@, Len(v)),
                              !.values  = @ \o v]

BytesIndex(b, i) == SubSeq(b.values, b.offsets[i] + 1, b.offsets[i] + b.lengths[i])

OffsetsAscending(s) == \A i \in 1..(Len(s) - 1) : s[i] <= s[i + 1]

BytesPage(b) ==
    LET n      == Len(b.lengths)
        inOrder == n = 0 \/ (Len(b.offsets) > 1 /\ OffsetsAscending(b.offsets))
        each   == [i \in 1..n |-> BytesIndex(b, i)]
        starts == [i \in 1..n |-> Len(FlattenSeq(SubSeq(each, 1, i - 1)))]
        sorted == IF inOrder THEN b
                  ELSE [b EXCEPT !.values = FlattenSeq(each),
                                 !.offsets = starts \o SubSeq(@, n + 1, Len(@))]
    IN  [sorted EXCEPT !.offsets = Append(SubSeq(@, 1, n), Len(sorted.values))]

PageBytesIndex(p, i) == SubSeq(p.values, p.offsets[i] + 1, p.offsets[i + 1])

(***************************************************************************)
(* A column of indexes into a dictionary: the values seen so far, and the  *)
(* hash table that gives the index of each one.  The table is filled from  *)
(* the values at the first insert.  A value whose index is the number of   *)
(* values is new and is appended.                                          *)
(***************************************************************************)
newIndexed == [kind |-> "indexed", values |-> <<>>,
               dict |-> [values |-> <<>>, table |-> <<>>, made |-> FALSE]]

Probe(table, v) == IF Contains(table, v) THEN table ELSE Append(table, v)

PositionOf(table, v) == CHOOSE i \in 1..Len(table) : table[i] = v

DictInit(d) == IF d.made THEN d
               ELSE [d EXCEPT !.made = TRUE, !.table = FoldLeft(Probe, @, d.values)]

DictInsert(d, v) ==
    LET probed == [DictInit(d) EXCEPT !.table = Probe(@, v)]
        index  == PositionOf(probed.table, v)
    IN  [dict  |-> IF index = Len(d.values) + 1
                   THEN [probed EXCEPT !.values = Append(@, v)] ELSE probed,
         index |-> index]

DictReset(d) == [d EXCEPT !.values = <<>>, !.table = <<>>]

IndexedWrite(b, v) ==
    LET inserted == DictInsert(b.dict, v)
    IN  [b EXCEPT !.values = Append(@, inserted.index), !.dict = inserted.dict]

----------------------------------------------------------------------------
(* What the four storages have in common. *)

newBase(base) == CASE base = "fixed" -> newFixed
                   [] base = "bits"  -> newBits
                   [] base = "bytes" -> newBytes
                   [] OTHER          -> newIndexed

BaseLen(b) == CASE b.kind = "bits"  -> b.numValues
                [] b.kind = "bytes" -> Len(b.lengths)
                [] OTHER            -> Len(b.values)

BaseAt(b, i) == CASE b.kind = "bits"    -> BitAt(b, i)
                  [] b.kind = "bytes"   -> BytesIndex(b, i)
                  [] b.kind = "indexed" -> b.dict.values[b.values[i]]
                  [] OTHER              -> b.values[i]

BaseWrite(b, v) == CASE b.kind = "bits"    -> BitsWrite(b, v)
                     [] b.kind = "bytes"   -> BytesWrite(b, v)
                     [] b.kind = "indexed" -> IndexedWrite(b, v)
                     [] OTHER -> [b EXCEPT !.values = Append(@, v)]

\* WriteValues: a column of fixed length stops at the first value it refuses.
BaseWriteValues(b, vs) ==
    LET good == SelectInSeq(vs, LAMBDA v : b.kind = "fixed" /\ v = Bad)
        n    == IF good = 0 THEN Len(vs) ELSE good - 1
    IN  [base |-> FoldLeft(BaseWrite, b, SubSeq(vs, 1, n)), n |-> n]

Exchanged(s, i, j) == [s EXCEPT ![i] = s[j], ![j] = s[i]]

BaseSwap(b, i, j) ==
    CASE b.kind = "bits"  -> [b EXCEPT !.bits = Exchanged(@, i, j)]
      [] b.kind = "bytes" -> [b EXCEPT !.offsets = Exchanged(@, i, j),
                                       !.lengths = Exchanged(@, i, j)]
      [] OTHER            -> [b EXCEPT !.values = Exchanged(@, i, j)]

BaseReset(b) == IF b.kind = "indexed" THEN [b EXCEPT !.values = <<>>] ELSE newBase(b.kind)

BasePage(b) == IF b.kind = "bytes" THEN BytesPage(b) ELSE b

PageLen(p) == IF p.kind = "bytes" THEN Len(p.offsets) - 1 ELSE BaseLen(p)

PageAt(p, i) == IF p.kind = "bytes" THEN PageBytesIndex(p, i) ELSE BaseAt(p, i)

PageSlice(p, i, j) ==
    CASE p.kind = "bits"  -> BitsSlice(p, i, j)
      [] p.kind = "bytes" -> [p EXCEPT !.offsets = SubSeq(@, i + 1, j + 1)]
      [] OTHER            -> [p EXCEPT !.values = SubSeq(@, i + 1, j)]

\* The order of the values: numbers and booleans by size, byte arrays by bytes.
ValueLess(kind, v, w) ==
    IF kind # "bytes" THEN v < w
    ELSE \/ IsStrictPrefix(v, w)
         \/ \E i \in 1..Len(v) : /\ i <= Len(w) /\ v[i] < w[i]
                                 /\ \A k \in 1..(i - 1) : v[k] = w[k]

BaseLess(b, i, j) == ValueLess(b.kind, BaseAt(b, i), BaseAt(b, j))

----------------------------------------------------------------------------
(***************************************************************************)
(* optionalColumnBuffer: the base holds the values that are not null; rows *)
(* gives the index of the value of each row, -1 for a null.                *)
(***************************************************************************)
OptionalWrite(c, x) ==
    IF x.d # 1
    THEN [c EXCEPT !.defs = Append(@, x.d), !.index = Append(@, -1)]
    ELSE LET base == BaseWrite(c.base, x.v)
         IN  [c EXCEPT !.base = base, !.defs = Append(@, 1),
                       !.index = Append(@, BaseLen(base) - 1)]

OptionalSwap(c, i, j) == [c EXCEPT !.reordered = TRUE,
                                   !.index = Exchanged(@, i, j),
                                   !.defs  = Exchanged(@, i, j)]

\* The permutation of the base that puts its values in the order of the rows,
\* applied by following its cycles.
NonNull(c) == SelectSeq(c.index, LAMBDA j : j >= 0)

RECURSIVE SwapCycles(_, _, _)
SwapCycles(base, sortIndex, i) ==
    IF i > Len(sortIndex) THEN base
    ELSE IF sortIndex[i] = i THEN SwapCycles(base, sortIndex, i + 1)
    ELSE LET j == sortIndex[i]
         IN  SwapCycles(BaseSwap(base, i, j), Exchanged(sortIndex, i, j), i)

OptionalReorder(c) ==
    LET order     == NonNull(c)
        n         == Len(order)
        sortIndex == [k \in 1..n |-> SelectInSeq(order, LAMBDA j : j = k - 1)]
    IN  IF ~c.reordered THEN c
        ELSE [c EXCEPT !.reordered = FALSE,
                       !.base  = SwapCycles(@, sortIndex, 1),
                       !.index = [k \in DOMAIN @ |-> IF k <= n THEN k - 1 ELSE @[k]]]

(***************************************************************************)
(* repeatedColumnBuffer: the levels of all values, and for each row where  *)
(* its levels and its values that are not null start.                      *)
(***************************************************************************)
Present(row) == SelectSeq(row, LAMBDA x : x.d = 2)

RepeatedWriteRow(c, row) ==
    LET wrote == BaseWriteValues(c.base, [i \in DOMAIN Present(row) |-> Present(row)[i].v])
    IN  IF wrote.n < Len(Present(row)) THEN [c EXCEPT !.base = wrote.base]
        ELSE [c EXCEPT !.base  = wrote.base,
                       !.index = IF row[1].r # 0 THEN @
                                 ELSE Append(@, [offset |-> Len(c.reps),
                                                 baseOffset |-> BaseLen(c.base)]),
                       !.reps  = @ \o [i \in DOMAIN row |-> row[i].r],
                       !.defs  = @ \o [i \in DOMAIN row |-> row[i].d]]

\* writeLevel and the write of one value: what writing a Go value does.
RepeatedWriteValue(c, x) ==
    [c EXCEPT !.base  = IF x.d = 2 THEN BaseWrite(@, x.v) ELSE @,
              !.index = IF x.r # 0 THEN @
                        ELSE Append(@, [offset |-> Len(c.reps),
                                        baseOffset |-> BaseLen(c.base)]),
              !.reps  = Append(@, x.r),
              !.defs  = Append(@, x.d)]

RowLength(c, i) ==
    LET from == c.index[i].offset
        next == SelectInSubSeq(c.reps, from + 2, Len(c.reps), LAMBDA r : r = 0)
    IN  IF next = 0 THEN Len(c.reps) - from ELSE next - 1 - from

RepeatedRow(c, i) ==
    LET m == c.index[i]
        levels == [k \in 1..RowLength(c, i) |-> c.defs[m.offset + k]]
        before(k) == Len(SelectSeq(SubSeq(levels, 1, k - 1), LAMBDA d : d = 2))
    IN  [k \in DOMAIN levels |->
            [r |-> c.reps[m.offset + k], d |-> levels[k],
             v |-> IF levels[k] = 2 THEN BaseAt(c.base, m.baseOffset + before(k) + 1)
                   ELSE NullOf(c.base.kind)]]

\* Page copies the rows, in their new order, to the reordering buffer and
\* exchanges it with the column.
RepeatedReorder(c) ==
    IF ~c.reordered THEN c
    ELSE FoldLeft(RepeatedWriteRow,
                  [c EXCEPT !.base = BaseReset(@), !.index = <<>>, !.reps = <<>>,
                            !.defs = <<>>, !.reordered = FALSE],
                  [i \in DOMAIN c.index |-> RepeatedRow(c, i)])

----------------------------------------------------------------------------
(* The column as a whole. *)

newColumn(c) == [nesting |-> c.nesting, base |-> newBase(c.base), reordered |-> FALSE,
                 index |-> <<>>, reps |-> <<>>, defs |-> <<>>]

WriteRow(c, row) ==
    CASE c.nesting = "required" -> [c EXCEPT !.base = BaseWrite(@, row[1].v)]
      [] c.nesting = "optional" -> OptionalWrite(c, row[1])
      [] OTHER                  -> RepeatedWriteRow(c, row)

\* Writing the values of a row one Go value at a time.
WriteGoValues(c, row) ==
    IF c.nesting = "repeated" THEN FoldLeft(RepeatedWriteValue, c, row) ELSE WriteRow(c, row)

SwapRows(c, i, j) ==
    CASE c.nesting = "required" -> [c EXCEPT !.base = BaseSwap(@, i, j)]
      [] c.nesting = "optional" -> OptionalSwap(c, i, j)
      [] OTHER -> [c EXCEPT !.reordered = TRUE, !.index = Exchanged(@, i, j)]

Reordered(c) == CASE c.nesting = "required" -> c
                  [] c.nesting = "optional" -> OptionalReorder(c)
                  [] OTHER                  -> RepeatedReorder(c)

\* Page: the column after the call, which holds the page returned.
TakePage(c) == LET o == Reordered(c) IN [o EXCEPT !.base = BasePage(@)]

Emptied(c) == [c EXCEPT !.base = BaseReset(@), !.index = <<>>, !.reps = <<>>, !.defs = <<>>]

\* The values a page reads back (Values().ReadValues), levels included: those of
\* the base stand where the definition level is the highest.
ValueAt(c, p, k) ==
    LET max == MaxDefinition(c)
    IN  IF c.defs[k] # max THEN NullOf(p.kind)
        ELSE PageAt(p, Len(SelectSeq(SubSeq(c.defs, 1, k), LAMBDA d : d = max)))

ReadRequired(p) == [k \in 1..PageLen(p) |-> [r |-> 0, d |-> 0, v |-> PageAt(p, k)]]

ReadOptional(c, p) ==
    [k \in DOMAIN c.defs |-> [r |-> 0, d |-> c.defs[k], v |-> ValueAt(c, p, k)]]

ReadRepeated(c, p) ==
    [k \in DOMAIN c.defs |-> [r |-> c.reps[k], d |-> c.defs[k], v |-> ValueAt(c, p, k)]]

ReadPage(c, p) == CASE c.nesting = "required" -> ReadRequired(p)
                    [] c.nesting = "optional" -> ReadOptional(c, p)
                    [] OTHER                  -> ReadRepeated(c, p)

\* Mutant: a slice counts values where it should count rows.
SliceLevelsByValue(c, i, j) ==
    <<IF i < Len(c.defs) THEN i ELSE Len(c.defs), IF j < Len(c.defs) THEN j ELSE Len(c.defs)>>

\* Slice(i, j) of the page of column c: rows i to j - 1, counted from 0.
SliceLevels(c, i, j) ==
    LET starts == IF c.nesting = "repeated" THEN SelectSeq([k \in DOMAIN c.reps |-> k],
                                                          LAMBDA k : c.reps[k] = 0)
                  ELSE [k \in DOMAIN c.defs |-> k]
        from   == IF i < Len(starts) THEN starts[i + 1] - 1 ELSE Len(c.defs)
        to     == IF j < Len(starts) THEN starts[j + 1] - 1 ELSE Len(c.defs)
    IN  <<from, to>>

SlicePage(c, i, j) ==
    LET max    == MaxDefinition(c)
        cut    == SliceLevels(c, i, j)
        nulls1 == Len(SelectSeq(SubSeq(c.defs, 1, cut[1]), LAMBDA d : d # max))
        nulls2 == Len(SelectSeq(SubSeq(c.defs, cut[1] + 1, cut[2]), LAMBDA d : d # max))
    IN  IF c.nesting = "required" THEN ReadPage(c, PageSlice(c.base, i, j))
        ELSE ReadPage([c EXCEPT !.defs = SubSeq(@, cut[1] + 1, cut[2]),
                                !.reps = IF @ = <<>> THEN @ ELSE SubSeq(@, cut[1] + 1, cut[2])],
                      PageSlice(c.base, cut[1] - nulls1, cut[2] - (nulls1 + nulls2)))

\* Less with nulls first, and with nulls last.
NullsGoFirst(c, x, y, d1, d2) ==
    LET max == MaxDefinition(c)
    IN  IF d1 # max THEN d2 = max ELSE d2 = max /\ BaseLess(c.base, x, y)

\* Mutant: nulls are still placed first.
NullsGoLastCopied(c, x, y, d1, d2) == NullsGoFirst(c, x, y, d1, d2)

NullsGoLast(c, x, y, d1, d2) ==
    LET max == MaxDefinition(c)
    IN  d1 = max /\ (d2 # max \/ BaseLess(c.base, x, y))

NullOrdering(c, x, y, d1, d2, nullsFirst) ==
    IF nullsFirst THEN NullsGoFirst(c, x, y, d1, d2) ELSE NullsGoLast(c, x, y, d1, d2)

OptionalLess(c, i, j, nullsFirst) ==
    NullOrdering(c, c.index[i] + 1, c.index[j] + 1, c.defs[i], c.defs[j], nullsFirst)

\* The first position at which the levels of two rows differ decides.
RepeatedLess(c, i, j, nullsFirst) ==
    LET x == c.index[i].baseOffset + 1
        y == c.index[j].baseOffset + 1
        d(k, row) == c.defs[c.index[row].offset + k]
        n == Min({RowLength(c, i), RowLength(c, j)})
        before(k) == NullOrdering(c, x, y, d(k, i), d(k, j), nullsFirst)
        after(k) == NullOrdering(c, y, x, d(k, j), d(k, i), nullsFirst)
        differs == {k \in 1..n : before(k) \/ after(k)}
    IN  IF differs = {} THEN RowLength(c, i) < RowLength(c, j) ELSE before(Min(differs))

RowLess(c, i, j, nullsFirst) ==
    CASE c.nesting = "required" -> BaseLess(c.base, i, j)
      [] c.nesting = "optional" -> OptionalLess(c, i, j, nullsFirst)
      [] OTHER                  -> RepeatedLess(c, i, j, nullsFirst)

----------------------------------------------------------------------------
(* The calls. *)

RowsFor(c) ==
    LET vs == BaseValues(c.base.kind)
        element(r) == {[r |-> r, d |-> 2, v |-> v] : v \in vs} \cup
                      {[r |-> r, d |-> 1, v |-> NullOf(c.base.kind)]}
    IN  CASE c.nesting = "required" -> {<<[r |-> 0, d |-> 0, v |-> v]>> : v \in vs}
          [] c.nesting = "optional" -> {<<[r |-> 0, d |-> 1, v |-> v]>> : v \in vs}
                                       \cup {<<[r |-> 0, d |-> 0, v |-> NullOf(c.base.kind)]>>}
          [] OTHER -> {<<[r |-> 0, d |-> 0, v |-> NullOf(c.base.kind)]>>}
                      \cup {<<e>> : e \in element(0)}
                      \cup {<<e, f>> : e \in element(0), f \in element(1)}

ColumnInitOn(columns) ==
    /\ col \in {newColumn(c) : c \in columns}
    /\ rows = <<>> /\ taken = FALSE /\ colCalls = 0

ColumnInit == ColumnInitOn(Columns)

Call == colCalls < MaxColumnCalls /\ colCalls' = colCalls + 1

MayWrite == WriteAfterPage \/ ~taken \/ col.base.kind # "bytes"

Write(row, values) ==
    /\ Call /\ MayWrite /\ Len(rows) < MaxColumnRows
    /\ col' = IF values THEN WriteRow(col, row) ELSE WriteGoValues(col, row)
    /\ rows' = Append(rows, row)
    /\ UNCHANGED taken

\* A batch whose last value the column refuses: the values before it are kept.
WriteMalformed ==
    /\ Call /\ MayWrite /\ Len(rows) < MaxColumnRows
    /\ col.base.kind = "fixed"
    /\ col.nesting = "required"
    /\ col'  = [col EXCEPT !.base = BaseWriteValues(@, <<1, Bad>>).base]
    /\ rows' = Append(rows, <<[r |-> 0, d |-> 0, v |-> 1]>>)
    /\ UNCHANGED taken

Swap(i, j) ==
    /\ Call /\ (WriteAfterPage \/ ~taken \/ col.nesting # "optional")
    /\ col'  = SwapRows(col, i, j)
    /\ rows' = Exchanged(rows, i, j)
    /\ UNCHANGED taken

ReturnPage ==
    /\ Call
    /\ col'   = TakePage(col)
    /\ taken' = TRUE
    /\ UNCHANGED rows

ResetColumn ==
    /\ Call
    /\ col'   = Emptied(col)
    /\ rows'  = <<>>
    /\ taken' = FALSE

\* Between row groups the writer resets the dictionary and the column together.
ResetDictionary ==
    /\ Call /\ col.base.kind = "indexed"
    /\ col'   = [Emptied(col) EXCEPT !.base.dict = DictReset(@)]
    /\ rows'  = <<>>
    /\ taken' = FALSE

ColumnNext ==
    \/ \E row \in RowsFor(col), values \in BOOLEAN : Write(row, values)
    \/ WriteMalformed
    \/ \E i, j \in DOMAIN rows : i < j /\ Swap(i, j)
    \/ ReturnPage
    \/ ResetColumn
    \/ ResetDictionary

ColumnSpec == ColumnInit /\ [][ColumnNext]_columnVars

----------------------------------------------------------------------------
(* Properties. *)

\* Whatever was written, sorted and reset before, the page a column returns
\* (Page, then Values) reads back exactly the rows written, in their order.
\* So does every slice of the page: the levels are cut at row boundaries and
\* the values at the number of values that are present.
PageShowsRows ==
    LET c == TakePage(col)
    IN  /\ ReadPage(c, c.base) = FlattenSeq(rows)
        /\ \A i, j \in 0..Len(rows) :
              i <= j => SlicePage(c, i, j) = FlattenSeq(SubSeq(rows, i + 1, j))

\* The order the sort works with is the order of the rows the column holds:
\* Less follows the rows through every exchange of positions, with nulls at
\* one end.  Rows of several values are left out: Less compares the first
\* value of a repeated row again for every value that follows.
LessFollowsRows ==
    LET max == MaxDefinition(col)
        first(k) == rows[k][1]
    IN  (col.nesting # "optional" \/ ~taken) =>
        \A i, j \in DOMAIN rows, nullsFirst \in BOOLEAN :
            Len(rows[i]) = 1 /\ Len(rows[j]) = 1 =>
                RowLess(col, i, j, nullsFirst) <=>
                    IF first(i).d = max /\ first(j).d = max
                    THEN ValueLess(col.base.kind, first(i).v, first(j).v)
                    ELSE /\ (first(i).d = max) # (first(j).d = max)
                         /\ (first(i).d = max) <=> ~nullsFirst
============================================================================
