-------------------------- MODULE WriterProperties --------------------------
(***************************************************************************)
(* What the file produced by module Writer must satisfy, stated from the   *)
(* point of view of a reader that follows the offsets of the metadata.     *)
(***************************************************************************)
EXTENDS Writer, SequencesExt

\* The segment of the given kind that starts at `at`.
SegmentAt(at, kind) == CHOOSE s \in file : s.at = at /\ s.kind = kind

Chunk(i, k) == rowGroups[i].columns[k]

\* What a reader finds at the page locations of a column chunk.
PagesOf(i, k) ==
  [j \in 1 .. Len(Chunk(i, k).locations) |->
     SegmentAt(Chunk(i, k).locations[j].offset, "data")]
RowsOf(i, k) == FlattenSeq([j \in DOMAIN PagesOf(i, k) |-> PagesOf(i, k)[j].rows])

\* Every page location of every committed row group is exactly one data page of
\* the file, with its size, and the first row it records is the number of rows
\* of the pages before it (recordPageStats computes offsets from accumulated
\* sizes; writeRowGroup makes them absolute after the dictionary page).
LocationsExact ==
  \A i \in 1 .. Len(rowGroups), k \in Columns :
    LET locations == Chunk(i, k).locations
    IN \A j \in 1 .. Len(locations) :
         /\ \E s \in file : s.kind = "data" /\ s.at = locations[j].offset
                                            /\ s.size = locations[j].size
         /\ locations[j].firstRow =
              Len(FlattenSeq([m \in 1 .. j - 1 |-> PagesOf(i, k)[m].rows]))

\* All columns of a committed row group hold the same rows in the same order,
\* and their number is the NumRows of the row group, although every column is
\* flushed to pages on its own schedule and NumRows is taken from column 1.
ColumnsAligned ==
  \A i \in 1 .. Len(rowGroups) : \A k \in Columns :
    /\ RowsOf(i, k) = RowsOf(i, 1)
    /\ Len(RowsOf(i, k)) = rowGroups[i].numRows

\* Between two calls every column of a row group, the current one or one of
\* BeginRowGroup, accounts for the same number of rows, the one that the limit
\* MaxRowsPerRowGroup is enforced with, however those rows are spread over
\* encoded pages and buffers.  (Once the file has MaxRowGroups row groups, a
\* WriteRowGroup that is refused leaves its rows in the columns.)
RowsAccounted ==
  \A g \in Groups :
    (pc[g] = "idle" /\ job = << >> /\ status # "failed"
       /\ Len(rowGroups) < MaxRowGroups) =>
      \A k \in Columns : totalRowCount(cw[g][k]) = numRows[g]

\* A dictionary-encoded page uses only values of the dictionary page of its own
\* column chunk, even though the dictionary keeps growing after the page was
\* encoded and is abandoned by the fallback to PLAIN.
DictionaryCovers ==
  \A i \in 1 .. Len(rowGroups), k \in Columns :
    \A j \in DOMAIN PagesOf(i, k) :
      LET p == PagesOf(i, k)[j] IN
      p.encoding = "RLE_DICTIONARY" =>
        /\ \E s \in file : s.kind = "dictionary" /\ s.at = Chunk(i, k).dictionaryPageOffset
        /\ ValuesOf(k, p.rows)
             \subseteq SegmentAt(Chunk(i, k).dictionaryPageOffset, "dictionary").values

\* A bloom filter has no false negative: all values of the chunk are in it,
\* whether it was sized beforehand, rebuilt from the pages or built from the
\* dictionary; once the file is closed each configured filter is there.
BloomFilterComplete ==
  \A i \in 1 .. Len(rowGroups), k \in Columns :
    /\ Chunk(i, k).bloomFilterOffset # 0 =>
         /\ \E s \in file : s.kind = "bloom" /\ s.at = Chunk(i, k).bloomFilterOffset
         /\ ValuesOf(k, RowsOf(i, k))
              \subseteq SegmentAt(Chunk(i, k).bloomFilterOffset, "bloom").values
    /\ (status = "closed" /\ k \in FilterColumns) => Chunk(i, k).bloomFilterOffset # 0

\* No committed row group exceeds MaxRowsPerRowGroup, no file has more than
\* MaxRowGroups row groups, and a page exceeds the configured page size by less
\* than the rows of one write (the purpose of maxRowsPerWrite).
SizeLimits ==
  /\ Len(rowGroups) <= MaxRowGroups
  /\ \A i \in 1 .. Len(rowGroups) : rowGroups[i].numRows <= MaxRowsPerRowGroup
  /\ \A i \in 1 .. Len(rowGroups), k \in Columns : \A j \in DOMAIN PagesOf(i, k) :
       Len(PagesOf(i, k)[j].rows) < BufferSize[k] + maxRowsPerWrite

-----------------------------------------------------------------------------
(* The writer implements RowLog, once for each column. *)

\* Rows that column k of row group g holds and a reader of the file does not
\* see.  Between AppendRowGroup and the end of the reset they are in the file.
HeldRows(g, k) ==
  IF job # << >> /\ phase = "reset" /\ Group = g THEN << >>
  ELSE FlattenSeq([j \in 1 .. Len(cw[g][k].pages) |-> cw[g][k].pages[j].rows])
         \o Buffered(cw[g][k])

\* Rows of the call in progress that column k has not got: those of a chunk
\* it is not in yet, or of the row group given to WriteRowGroup.
PendingRows(g, k) ==
  IF g = 0 /\ source # << >>
    THEN IF ~(Running("copyable") \/ Running("columnar")) \/ pos < k THEN source
         ELSE IF pos = k THEN SubSeq(source, done + 1, Len(source)) ELSE << >>
    ELSE IF col[g] <= k /\ ~Generic(g) THEN chunk[g] \o todo[g] ELSE todo[g]

Pending(k) == [g \in Groups |-> PendingRows(g, k)]
Held(k) == [g \in Groups |-> HeldRows(g, k)]
FileRows(k) == FlattenSeq([i \in 1 .. Len(rowGroups) |-> RowsOf(i, k)])
Broken == {g \in Groups : IF g = 0 THEN status = "failed" \/ phase = "abort"
                                   ELSE pc[g] = "failed"}

Log1 == INSTANCE RowLog WITH pending <- Pending(1), held <- Held(1),
                             log <- FileRows(1), broken <- Broken
Log2 == INSTANCE RowLog WITH pending <- Pending(2), held <- Held(2),
                             log <- FileRows(2), broken <- Broken

\* The writer implements RowLog, in two columns that are paged differently:
\* what a reader gets from the file is, in order, exactly the rows of the row
\* groups that were flushed or committed.
ImplementsRowLog == Log1!Spec /\ Log2!Spec

\* Every call returns: the loop that retries after ErrTooManyRowGroups makes
\* progress, and a flush, commit, close or reset runs to its end.
CallsReturn ==
  /\ \A g \in Groups : pc[g] = "write" ~> pc[g] # "write"
  /\ job # << >> ~> job = << >>
=============================================================================
