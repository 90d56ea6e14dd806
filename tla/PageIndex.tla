------------------------------ MODULE PageIndex -----------------------------
(* The column and offset indexes of a column and the search of a value in    *)
(* them: the column indexer of the writer, reset and used again for each     *)
(* chunk (column_index.go), the index of a page in memory, the indexes of    *)
(* several chunks read as one (multi_row_group.go), and Search (search.go).  *)
(*                                                                           *)
(* A value is a sequence of bytes; the value of a number is one unit.  Values *)
(* compare unit by unit.  A page holds the values between its bounds, and    *)
(* null values; a page of null values only is the case the code calls a null *)
(* page.                                                                     *)
EXTENDS Integers, Sequences, FiniteSets, SequencesExt, FiniteSetsExt

CONSTANTS IndexKinds,       \* the kinds of columns
          MaxPages,         \* bound: pages of a column of each kind
          MaxChunks,        \* bound: chunks
          MaxByte,              \* the greatest byte (0xFF)
          MaxBytes,         \* bound: bytes of a value
          SizeLimit,        \* ColumnIndexSizeLimit: bytes of a bound
          NullPageKinds,    \* the kinds whose columns may have null pages
          BufferKinds,      \* the kinds that also have row groups in memory
          WritePageBounds   \* FALSE: the option SkipPageBounds

ASSUME IndexAssumption ==
    /\ IndexKinds \subseteq {"boolean", "int", "int96", "float", "unsigned", "byteArray", "fixedLen", "be128", "null"}
    /\ MaxPages \in [IndexKinds -> Nat] /\ {MaxChunks, MaxByte, MaxBytes, SizeLimit} \subseteq Nat
    /\ NullPageKinds \subseteq IndexKinds /\ BufferKinds \subseteq IndexKinds \ {"null"} /\ WritePageBounds \in BOOLEAN

ByteStrings(n) == UNION {[1..k -> 0..MaxByte] : k \in 0..n}
ValuesOf(kind) ==
    CASE kind = "boolean"   -> {<<0>>, <<1>>}
      [] kind = "unsigned"  -> {<<0>>, <<1>>, <<2>>}
      [] kind \in {"int", "int96", "float"} -> {<<-1>>, <<0>>, <<1>>}
      [] kind = "byteArray" -> ByteStrings(MaxBytes)
      [] kind \in {"fixedLen", "be128"} -> [1..MaxBytes -> 0..MaxByte]
      [] kind = "null"      -> {}

\* bytes.Compare and the Compare methods of the types.
Compare(a, b) ==
    LET n == Min({Len(a), Len(b)})
        differ == {i \in 1..n : a[i] # b[i]}
    IN  IF differ # {} THEN (IF a[Min(differ)] < b[Min(differ)] THEN -1 ELSE 1)
        ELSE IF Len(a) < Len(b) THEN -1 ELSE IF Len(a) > Len(b) THEN 1 ELSE 0

\* A Value of the package: null, or a value.
Null == [null |-> TRUE, value |-> <<>>]
Some(v) == [null |-> FALSE, value |-> v]

CompareNullsLast(a, b) ==
    IF a.null THEN (IF b.null THEN 0 ELSE 1)
    ELSE IF b.null THEN -1 ELSE Compare(a.value, b.value)

\* A page: its bounds (null for a null page) and its numbers of values.
Page(low, high, nulls) == [min |-> Some(low), max |-> Some(high), numNulls |-> nulls,
                           numValues |-> nulls + (IF low = high THEN 1 ELSE 2)]
NullPageOf(nulls) == [min |-> Null, max |-> Null, numNulls |-> nulls, numValues |-> nulls]
PagesOf(kind) ==
    {Page(p[1], p[2], 1) : p \in {q \in ValuesOf(kind) \X ValuesOf(kind) : Compare(q[1], q[2]) <= 0}}
    \cup {NullPageOf(n) : n \in IF kind \in NullPageKinds THEN {2} ELSE {}}
Holds(page, v) == ~page.min.null /\ Compare(page.min.value, v) <= 0 /\ Compare(v, page.max.value) <= 0

-----------------------------------------------------------------------------
(* The order of the bounds.                                                  *)

Ascending(s) == \A i \in 1..(Len(s) - 1) : Compare(s[i], s[i + 1]) <= 0
Descending(s) == \A i \in 1..(Len(s) - 1) : Compare(s[i], s[i + 1]) >= 0

\* orderOfXxx; for booleans, byte arrays and by vectors, see VectorKernels.
orderOf(s) == IF Len(s) < 2 THEN 0 ELSE IF Ascending(s) THEN 1 ELSE IF Descending(s) THEN -1 ELSE 0

boundaryOrderOf(minOrder, maxOrder) ==
    IF minOrder # maxOrder \/ minOrder = 0 THEN "Unordered"
    ELSE IF minOrder > 0 THEN "Ascending" ELSE "Descending"

(* Bounds longer than the limit are cut; a cut maximum is incremented, unless *)
(* it is all 0xFF.                                                           *)
truncateLargeMin(v) == SubSeq(v, 1, Min({SizeLimit, Len(v)}))

incrementByteArray(v) ==
    LET below == {i \in 1..Len(v) : v[i] # MaxByte}
    IN  IF below = {} THEN v
        ELSE [i \in 1..Len(v) |-> IF i < Max(below) THEN v[i] ELSE IF i = Max(below) THEN v[i] + 1 ELSE 0]

truncateLargeMax(v) ==
    IF SizeLimit > 0 /\ Len(v) > SizeLimit THEN incrementByteArray(truncateLargeMin(v)) ELSE v

-----------------------------------------------------------------------------
(* The column indexers.                                                      *)

NewIndexer == [nullPages |-> <<>>, nullCounts |-> <<>>, minValues |-> <<>>, maxValues |-> <<>>]

observe(i, numValues, numNulls) ==
    [nullPages |-> Append(i.nullPages, numValues = numNulls), nullCounts |-> Append(i.nullCounts, numNulls),
     minValues |-> i.minValues, maxValues |-> i.maxValues]

\* What a bound adds to the list: a null bound reads as the zero of the type,
\* an empty byte array, or no byte at all.
AppendInt(bounds, b) == Append(bounds, IF b.null THEN <<0>> ELSE b.value)
AppendFloat(bounds, b) == Append(bounds, IF b.null THEN <<0>> ELSE b.value)
AppendUnsigned(bounds, b) == Append(bounds, IF b.null THEN <<0>> ELSE b.value)
AppendBytes(bounds, b) == Append(bounds, b.value)
AppendFixedLen(bounds, b) == IF b.null THEN bounds ELSE Append(bounds, b.value)
AppendBE128(bounds, b) == IF b.null THEN bounds ELSE Append(bounds, b.value)
AppendNothing(bounds) == bounds

AppendBound(kind, bounds, b) ==
    CASE kind \in {"boolean", "int"}  -> AppendInt(bounds, b)
      [] kind \in {"int96", "float"} -> AppendFloat(bounds, b)
      [] kind = "unsigned"  -> AppendUnsigned(bounds, b)
      [] kind = "byteArray" -> AppendBytes(bounds, b)
      [] kind = "fixedLen"  -> AppendFixedLen(bounds, b)
      [] kind = "be128"     -> AppendBE128(bounds, b)
      [] kind = "null"      -> AppendNothing(bounds)

IndexPage(kind, i, page) ==
    LET bound(b) == IF WritePageBounds THEN b ELSE Null
    IN  [observe(i, page.numValues, page.numNulls) EXCEPT
            !.minValues = AppendBound(kind, @, bound(page.min)),
            !.maxValues = AppendBound(kind, @, bound(page.max))]

Truncates(k) == k \in {"byteArray", "fixedLen"} /\ SizeLimit > 0

\* What the file keeps of the indexer.
ColumnIndex(kind, i) ==
    LET mins == [j \in DOMAIN i.minValues |-> IF Truncates(kind) THEN truncateLargeMin(i.minValues[j]) ELSE i.minValues[j]]
        maxs == [j \in DOMAIN i.maxValues |-> IF Truncates(kind) THEN truncateLargeMax(i.maxValues[j]) ELSE i.maxValues[j]]
    IN  [NullPages |-> i.nullPages, NullCounts |-> i.nullCounts, MinValues |-> mins, MaxValues |-> maxs,
         BoundaryOrder |-> boundaryOrderOf(orderOf(mins), orderOf(maxs))]

-----------------------------------------------------------------------------
(* The index of a chunk, as its readers see it.                              *)

\* FileColumnIndex: a null page has null bounds.
FileColumnIndex(index) ==
    LET bound(values, j) == IF index.NullPages[j] THEN Null ELSE Some(values[j])
    IN  [null  |-> index.NullPages,
         nulls |-> index.NullCounts,
         min |-> [j \in DOMAIN index.NullPages |-> bound(index.MinValues, j)],
         max |-> [j \in DOMAIN index.NullPages |-> bound(index.MaxValues, j)],
         order |-> index.BoundaryOrder]

\* formatColumnIndex: the same, of as many pages as there are bounds.
formatColumnIndex(index) ==
    LET bound(values, j) == IF index.NullPages[j] THEN Null ELSE Some(values[j])
        numPages == 1..Len(index.MinValues)
    IN  [null  |-> [j \in numPages |-> index.NullPages[j]],
         nulls |-> [j \in numPages |-> index.NullCounts[j]],
         min |-> [j \in numPages |-> bound(index.MinValues, j)],
         max |-> [j \in numPages |-> bound(index.MaxValues, j)],
         order |-> index.BoundaryOrder]

\* A page in memory is an index of one page; its bounds are those of its base,
\* zero when there is no value, and only the count of nulls looks at the levels.
PageColumnIndex(kind, page) ==
    LET bound(b) == Some(IF b.null THEN (IF kind = "byteArray" THEN <<>> ELSE <<0>>) ELSE b.value)
    IN  [null |-> <<page.numNulls = page.numValues>>, nulls |-> <<page.numNulls>>,
         min |-> <<bound(page.min)>>, max |-> <<bound(page.max)>>, order |-> "Unordered"]

-----------------------------------------------------------------------------
(* The indexes of several chunks, read as one.  A chunk is [pages, index,    *)
(* format, firstRows, offsets]: what it holds, its column index as the two   *)
(* readers of it see it, and its offset index.                               *)

NumPages(index) == Len(index.null)
RowsOf(pages) == FoldLeft(LAMBDA n, p : n + p.numValues, 0, pages)

\* The pages, and the rows, of the first i chunks.
offsets(chunks, i) == FoldLeft(LAMBDA n, c : n + NumPages(c.index), 0, SubSeq(chunks, 1, i))
rowOffsets(chunks, i) == FoldLeft(LAMBDA n, c : n + RowsOf(c.pages), 0, SubSeq(chunks, 1, i))

\* The chunk and the page of it that page p of them all is.
mapPageIndex(chunks, p) ==
    LET i == CHOOSE i \in DOMAIN chunks : p > offsets(chunks, i - 1) /\ p <= offsets(chunks, i)
    IN  <<i, p - offsets(chunks, i - 1)>>

\* The last, or first, page of an index that has a bound; 0 when none has.
LastBounded(index) == Max({j \in 1..NumPages(index) : ~index.null[j]} \cup {0})
FirstBounded(index) == IF LastBounded(index) = 0 THEN 0 ELSE Min({j \in 1..NumPages(index) : ~index.null[j]})

multiIsAscending(chunks) ==
    /\ chunks # <<>>
    /\ \A i \in DOMAIN chunks : chunks[i].index.order = "Ascending"
    /\ \A i \in 1..(Len(chunks) - 1) :
          LET curr == chunks[i].index
              next == chunks[i + 1].index
          IN  LastBounded(curr) > 0 /\ FirstBounded(next) > 0 =>
                  Compare(curr.max[LastBounded(curr)].value, next.min[FirstBounded(next)].value) <= 0

multiIsDescending(chunks) ==
    /\ chunks # <<>>
    /\ \A i \in DOMAIN chunks : chunks[i].index.order = "Descending"
    /\ \A i \in 1..(Len(chunks) - 1) :
          LET curr == chunks[i].index
              next == chunks[i + 1].index
          IN  FirstBounded(curr) > 0 /\ LastBounded(next) > 0 =>
                  Compare(curr.min[FirstBounded(curr)].value, next.max[LastBounded(next)].value) >= 0

multiColumnIndex(chunks) ==
    LET at(p) == mapPageIndex(chunks, p)
        pages == 1..offsets(chunks, Len(chunks))
    IN  [null  |-> [p \in pages |-> chunks[at(p)[1]].index.null[at(p)[2]]],
         nulls |-> [p \in pages |-> chunks[at(p)[1]].index.nulls[at(p)[2]]],
         min   |-> [p \in pages |-> chunks[at(p)[1]].index.min[at(p)[2]]],
         max   |-> [p \in pages |-> chunks[at(p)[1]].index.max[at(p)[2]]],
         order |-> IF multiIsAscending(chunks) THEN "Ascending"
                   ELSE IF multiIsDescending(chunks) THEN "Descending" ELSE "Unordered"]

FirstRowIndex(chunks, p) ==
    LET at == mapPageIndex(chunks, p) IN rowOffsets(chunks, at[1] - 1) + chunks[at[1]].firstRows[at[2]]
Offset(chunks, p) ==
    LET at == mapPageIndex(chunks, p) IN chunks[at[1]].offsets[at[2]]

-----------------------------------------------------------------------------
(* Search.  Pages are numbered from 1, and NumPages + 1 says that no page    *)
(* has the value.                                                            *)

Below(index, v, p) == CompareNullsLast(Some(v), index.min[p]) < 0
Above(index, v, p) == CompareNullsLast(Some(v), index.max[p]) > 0

\* Mutant: the search stops at the first page that it finds the value in.
binarySearchStops(index, v) ==
    LET n == NumPages(index)
        search[range \in (1..(n + 1)) \X (1..(n + 1))] ==
            LET cur == range[1]
                top == range[2]
                p == (top - cur) \div 2 + cur
            IN  IF cur >= top THEN cur
                ELSE IF Below(index, v, p) THEN search[<<cur, p>>]
                ELSE IF Above(index, v, p) THEN search[<<p + 1, top>>] ELSE p
        found == search[<<1, n + 1>>]
    IN  IF found <= n /\ (Below(index, v, found) \/ Above(index, v, found)) THEN n + 1 ELSE found

binarySearch(index, v) ==
    LET n == NumPages(index)
        search[range \in (1..(n + 1)) \X (1..(n + 1))] ==
            LET cur == range[1]
                top == range[2]
                p == (top - cur) \div 2 + cur
            IN  IF cur >= top THEN cur
                ELSE IF ~Below(index, v, p) /\ Above(index, v, p) THEN search[<<p + 1, top>>] ELSE search[<<cur, p>>]
        found == search[<<1, n + 1>>]
    IN  IF found <= n /\ (Below(index, v, found) \/ Above(index, v, found)) THEN n + 1 ELSE found

linearSearch(index, v) ==
    Min({p \in 1..NumPages(index) : ~Below(index, v, p) /\ ~Above(index, v, p)} \cup {NumPages(index) + 1})

Search(index, v) == IF index.order = "Ascending" THEN binarySearch(index, v) ELSE linearSearch(index, v)

-----------------------------------------------------------------------------
(* A column is written a page at a time, in chunks; one indexer serves all.  *)

VARIABLES kind,      \* of the column
          indexer,   \* its column indexer
          pages,     \* the pages of the current chunk
          chunks     \* the chunks written

indexVars == <<kind, indexer, pages, chunks>>
PagesWritten == Len(pages) + offsets(chunks, Len(chunks))

IndexInit == kind \in IndexKinds /\ indexer = NewIndexer /\ pages = <<>> /\ chunks = <<>>

\* writer.go: recordPageStats.
WriteIndexedPage(page) ==
    /\ PagesWritten < MaxPages[kind] /\ Len(chunks) < MaxChunks
    /\ indexer' = IndexPage(kind, indexer, page)
    /\ pages' = Append(pages, page)
    /\ UNCHANGED <<kind, chunks>>

\* The chunk of the given pages, after the chunks written so far.
ChunkOf(ps, index, format) ==
    [pages |-> ps, index |-> index, format |-> format,
     firstRows |-> [j \in DOMAIN ps |-> RowsOf(SubSeq(ps, 1, j - 1))],
     offsets |-> [j \in DOMAIN ps |-> offsets(chunks, Len(chunks)) + j]]

\* Mutant: the maximums of the chunk stay behind.
ResetMinimums == indexer' = [NewIndexer EXCEPT !.maxValues = indexer.maxValues]

Reset == indexer' = NewIndexer

\* The row group is written, which it is only when it has rows: the index is
\* taken and the indexer reset.
EndChunk ==
    /\ pages # <<>> /\ Len(chunks) < MaxChunks
    /\ LET index == ColumnIndex(kind, indexer)
       IN  chunks' = Append(chunks, ChunkOf(pages, FileColumnIndex(index), formatColumnIndex(index)))
    /\ Reset
    /\ pages' = <<>>
    /\ UNCHANGED kind

\* A row group in memory, of one page, joins the chunks.
BufferChunk(page) ==
    /\ pages = <<>> /\ PagesWritten < MaxPages[kind] /\ Len(chunks) < MaxChunks
    /\ kind \in BufferKinds
    /\ chunks' = Append(chunks, ChunkOf(<<page>>, PageColumnIndex(kind, page), PageColumnIndex(kind, page)))
    /\ UNCHANGED <<kind, indexer, pages>>

IndexNext ==
    \/ \E page \in PagesOf(kind) : WriteIndexedPage(page)
    \/ EndChunk
    \/ \E page \in PagesOf(kind) : BufferChunk(page)

IndexSpec == IndexInit /\ [][IndexNext]_indexVars

-----------------------------------------------------------------------------

AllPages == FlattenSeq([i \in DOMAIN chunks |-> chunks[i].pages])
Multi == multiColumnIndex(chunks)

\* A maximum that is cut to all 0xFF is below the values it stands for.
CutToTop(page) ==
    /\ ~page.max.null /\ Truncates(kind) /\ Len(page.max.value) > SizeLimit
    /\ \A i \in 1..SizeLimit : page.max.value[i] = MaxByte

\* A chunk of null pages hides the chunk before it from the one after it.
EveryChunkBounded == \A i \in DOMAIN chunks : LastBounded(chunks[i].index) > 0

(* The indexes of the chunks, read as one index, tell the truth about the    *)
(* pages, however the pages were split into chunks by the one indexer: the   *)
(* recorded bounds cover the values, nulls are counted, an order that is     *)
(* claimed is the order of the bounds (a descending one of a single chunk:   *)
(* IsDescending of several chunks compares the wrong pages), and the rows    *)
(* and offsets are those of the pages.  Both readers of an index in a file   *)
(* see the same, but for a column of nulls, which has no bounds to count.    *)
IndexTruthful ==
    LET m == Multi
        all == AllPages
        bounded == {p \in DOMAIN all : ~all[p].min.null}
    IN  /\ NumPages(m) = Len(all)
        /\ kind # "null" => \A i \in DOMAIN chunks : chunks[i].format = chunks[i].index
        /\ \A p \in DOMAIN all :
              /\ m.null[p] = (all[p].numNulls = all[p].numValues)
              /\ m.nulls[p] = all[p].numNulls
              /\ FirstRowIndex(chunks, p) = RowsOf(SubSeq(all, 1, p - 1))
              /\ Offset(chunks, p) = p
        /\ \A p \in bounded :
              /\ Compare(m.min[p].value, all[p].min.value) <= 0
              /\ CutToTop(all[p]) \/ Compare(all[p].max.value, m.max[p].value) <= 0
        /\ \A p, q \in bounded : p < q =>
              /\ m.order = "Ascending" /\ EveryChunkBounded =>
                    Compare(m.min[p].value, m.min[q].value) <= 0 /\ Compare(m.max[p].value, m.max[q].value) <= 0
              /\ m.order = "Descending" /\ Len(chunks) = 1 =>
                    Compare(m.min[p].value, m.min[q].value) >= 0 /\ Compare(m.max[p].value, m.max[q].value) >= 0

(* Search returns the first page that might contain the value, and never     *)
(* leaves out a page that holds it (the promise of Find, search.go).         *)
ValuesAreFound ==
    LET m == Multi
        all == AllPages
    IN  \A v \in ValuesOf(kind) :
           LET found == Search(m, v)
           IN  /\ \A p \in 1..(found - 1) : ~Holds(all[p], v) \/ CutToTop(all[p])
               /\ found <= Len(all) => ~Below(m, v, found) /\ ~Above(m, v, found)

(* The same where no null page comes before a page with values.              *)
SearchFindsFirst ==
    (\A p, q \in DOMAIN AllPages : p < q /\ AllPages[p].min.null => AllPages[q].min.null) => ValuesAreFound
=============================================================================
