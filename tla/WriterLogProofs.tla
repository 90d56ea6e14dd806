--------------------------- MODULE WriterLogProofs ---------------------------
(***************************************************************************)
(* Proofs about the content of the file that module Writer produces.       *)
(*                                                                         *)
(* First, what the metadata says of a row group is what a reader that      *)
(* follows its offsets finds.                                              *)
(*                                                                         *)
(* Then, Writer implements RowLog.  Every step of the writer is, in each   *)
(* column, a step of RowLog or none: it brings the rows of a call, moves   *)
(* them from the call to the column, publishes a row group, drops what a   *)
(* failed call leaves, or only works on pages, offsets and filters.  The   *)
(* steps are taken in four groups: those that change the rows of a column, *)
(* those in which a page buffer fails, those after which a row group is    *)
(* emptied, and the quiet ones.                                            *)
(***************************************************************************)
EXTENDS WriterRowProofs


-----------------------------------------------------------------------------
(* What a step makes of a column. *)

\* The page of a full column is written, fails to be, or there is none yet.
Flushes(g, c, k, d) ==
  \/ d = c
  \/ d = FlushColumn(c, k, taken[g]) /\ BufferReady(g, NeedsPageBuffer(c))
  \/ d = FlushColumnFails(c, k, taken[g])

\* The filter of column k is sized before the rows come.
Resizes(g, k) ==
  /\ g = 0 /\ k \in FilterColumns
  /\ StartCopyRows \/ ((ReencodeBatch \/ ReencodeBatchFails) /\ pos = 1 /\ done = 0)

\* A step that brings rows to column k of row group g makes d of c.
GetsRows(g, k, c, d) ==
  \/ /\ NextChunk(g) /\ Generic(g)
     /\ \E rows \in Seq(Row) : d = WriteValues(FirstColumn(c), k, rows)
  \/ /\ WriteColumn(g) \/ WriteColumnFails(g)
     /\ ~Generic(g) /\ Flushes(g, WriteValues(c, k, chunk[g]), k, d)
  \/ /\ ReencodeBatch \/ ReencodeBatchFails
     /\ g = 0
     /\ \E rows \in Seq(Row) :
          \/ Flushes(g, WriteValues(c, k, rows), k, d)
          \/ Resizes(g, k) /\ Flushes(g, WriteValues(resizeBloomFilter(c), k, rows), k, d)

\* Any step makes d of column k of row group g.
ColumnMove(g, k, c, d) ==
  \/ Flushes(g, c, k, d)
  \/ Resizes(g, k) /\ d = resizeBloomFilter(c)
  \/ /\ ~c.copied /\ BufferReady(g, NeedsPageBuffer(c))
     /\ d = flushFilterPages(FlushColumn(c, k, taken[g]), k)
  \/ GetsRows(g, k, c, d)
  \/ ResetRowGroupColumn /\ Group = g /\ k = pos /\ d = resetColumn(c)
  \/ /\ LoadCopiedChunk /\ g = 0 /\ k = pos
     /\ d = loadCopiedChunk(c, k, SourceChunk(k, source, SourcePage, SourceOffset))

\* What a step makes of a column of a row group.
LEMMA ColumnMoves ==
  ASSUME TypeOK, Control, [Next]_vars, NEW g \in Groups, NEW k \in Columns
  PROVE  ColumnMove(g, k, cw[g][k], cw'[g][k])
  <1> DEFINE c == cw[g][k]
             d == cw'[g][k]
  <1>0. d = c => ColumnMove(g, k, c, d)
    BY DEF ColumnMove, Flushes
  <1>1. 0 \in Groups /\ pos \in Columns /\ source \in Seq(Row) /\ chunk[g] \in Seq(Row) /\ col[g] \in Columns
    BY DEF TypeOK, Groups
  <1>2. ASSUME NEW h \in Groups, GroupColumnStep(h)
        PROVE  ColumnMove(g, k, c, d)
    <2>1. CASE h # g
      BY <1>0, <1>2, <2>1, OtherColumns DEF GroupColumnStep, GroupStep
    <2>2. CASE h = g /\ NextChunk(g)
      <3>1. CASE ~Generic(g)
        BY <1>0, <2>2, <3>1 DEF NextChunk
      <3>2. CASE Generic(g)
        <4>1. PICK rows \in Seq(Row) :
                OnlyGroup(g, [m \in Columns |-> WriteValues(FirstColumn(cw[g][m]), m, rows)])
          BY <2>2, <3>2, NextChunkIs
        <4>2. d = WriteValues(FirstColumn(c), k, rows)
          BY <4>1 DEF OnlyGroup
        <4> QED BY <2>2, <3>2, <4>2 DEF ColumnMove, GetsRows
      <3> QED BY <3>1, <3>2
    <2>3. CASE h = g /\ WriteColumn(g)
      <3>1. PICK e : /\ \/ e = WithChunk(g, col[g])
                        \/ /\ e = FlushColumn(WithChunk(g, col[g]), col[g], taken[g])
                           /\ BufferReady(g, NeedsPageBuffer(WithChunk(g, col[g])))
                     /\ OnlyColumn(g, col[g], e)
        BY <2>3, WriteColumnIs
      <3>2. CASE k # col[g]
        BY <1>0, <3>1, <3>2 DEF OnlyColumn
      <3>3. CASE k = col[g]
        <4>1. Flushes(g, WithChunk(g, k), k, d)
          BY <3>1, <3>3 DEF OnlyColumn, Flushes
        <4>2. WithChunk(g, k) = IF Generic(g) THEN c ELSE WriteValues(c, k, chunk[g])
          BY DEF WithChunk
        <4> HIDE DEF c, d
        <4> QED BY <2>3, <4>1, <4>2 DEF ColumnMove, GetsRows
      <3> QED BY <3>2, <3>3
    <2>4. CASE h = g /\ WriteColumnFails(g)
      <3>1. OnlyColumn(g, col[g], FlushColumnFails(WithChunk(g, col[g]), col[g], taken[g]))
        BY <1>1, <2>4, SetColumnIs DEF WriteColumnFails
      <3>2. CASE k # col[g]
        BY <1>0, <3>1, <3>2 DEF OnlyColumn
      <3>3. CASE k = col[g]
        <4>1. Flushes(g, WithChunk(g, k), k, d)
          BY <3>1, <3>3 DEF OnlyColumn, Flushes
        <4>2. WithChunk(g, k) = IF Generic(g) THEN c ELSE WriteValues(c, k, chunk[g])
          BY DEF WithChunk
        <4> HIDE DEF c, d
        <4> QED BY <2>4, <4>1, <4>2 DEF ColumnMove, GetsRows
      <3> QED BY <3>2, <3>3
    <2>5. CASE h = g /\ (FlushGroupColumn(g) \/ FlushGroupColumnFails(g))
      <3>1. \/ /\ OnlyColumn(g, col[g], FlushColumn(cw[g][col[g]], col[g], taken[g]))
               /\ BufferReady(g, NeedsPageBuffer(cw[g][col[g]]))
            \/ OnlyColumn(g, col[g], FlushColumnFails(cw[g][col[g]], col[g], taken[g]))
        BY <1>1, <2>5, SetColumnIs DEF FlushGroupColumn, FlushGroupColumnFails
      <3>2. CASE k # col[g]
        BY <1>0, <3>1, <3>2 DEF OnlyColumn
      <3>3. CASE k = col[g]
        BY <3>1, <3>3 DEF OnlyColumn, Flushes, ColumnMove
      <3> QED BY <3>2, <3>3
    <2> QED BY <1>2, <2>1, <2>2, <2>3, <2>4, <2>5 DEF GroupColumnStep
  <1>3. CASE \/ FlushRowGroupColumn \/ FlushRowGroupColumnFails \/ FlushFilterPagesFails
             \/ ResetRowGroupColumn
    <2>1. Group \in Groups
      BY <1>3, GroupColumn DEF FlushRowGroupColumn, FlushRowGroupColumnFails, FlushFilterPagesFails,
        ResetRowGroupColumn,
        InRowGroup, Running
    <2> DEFINE e == cw[Group][pos]
               f == FlushColumn(e, pos, taken[Group])
    <2>2. \E x : /\ OnlyColumn(Group, pos, x)
                 /\ \/ /\ x = f \/ (~e.copied /\ x = flushFilterPages(f, pos))
                       /\ BufferReady(Group, NeedsPageBuffer(e))
                    \/ x = FlushColumnFails(e, pos, taken[Group])
                    \/ (ResetRowGroupColumn /\ x = resetColumn(e))
      <3>1. CASE FlushRowGroupColumn
        BY <1>1, <2>1, <3>1, SetColumnIs DEF FlushRowGroupColumn
      <3>2. CASE FlushRowGroupColumnFails
        BY <1>1, <2>1, <3>2, SetColumnIs DEF FlushRowGroupColumnFails
      <3>3. CASE ResetRowGroupColumn
        BY <1>1, <2>1, <3>3, SetColumnIs DEF ResetRowGroupColumn
      <3>4. CASE FlushFilterPagesFails
        BY <1>1, <2>1, <3>4, SetColumnIs DEF FlushFilterPagesFails
      <3> QED BY <1>3, <3>1, <3>2, <3>3, <3>4
    <2>3. CASE g # Group \/ k # pos
      BY <1>0, <2>2, <2>3 DEF OnlyColumn
    <2>4. CASE g = Group /\ k = pos
      BY <2>2, <2>4 DEF OnlyColumn, ColumnMove, Flushes
    <2> QED BY <2>3, <2>4
  <1>4. CASE LoadCopiedChunk \/ CloseColumn \/ CloseColumnFails
    <2>1. \/ /\ LoadCopiedChunk
             /\ OnlyColumn(0, pos, loadCopiedChunk(cw[0][pos], pos, SourceChunk(pos, source, SourcePage, SourceOffset)))
          \/ /\ OnlyColumn(0, pos, FlushColumn(cw[0][pos], pos, taken[0]))
             /\ BufferReady(0, NeedsPageBuffer(cw[0][pos]))
          \/ OnlyColumn(0, pos, FlushColumnFails(cw[0][pos], pos, taken[0]))
      BY <1>1, <1>4, SetColumnIs DEF LoadCopiedChunk, CloseColumn, CloseColumnFails
    <2>2. CASE g # 0 \/ k # pos
      BY <1>0, <2>1, <2>2 DEF OnlyColumn
    <2>3. CASE g = 0 /\ k = pos
      BY <2>1, <2>3 DEF OnlyColumn, ColumnMove, Flushes
    <2> QED BY <2>2, <2>3
  <1>5. CASE StartCopyRows
    <2>1. cw' = [cw EXCEPT ![0] = WithBloomFilters(cw[0])]
      BY <1>5 DEF StartCopyRows
    <2>2. CASE g = 0
      BY <1>0, <1>1, <1>5, <2>1, <2>2 DEF TypeOK, WithBloomFilters, Resizes, ColumnMove
    <2>3. CASE g # 0
      BY <1>0, <2>1, <2>3 DEF TypeOK
    <2> QED BY <2>2, <2>3
  <1>6. ASSUME ReencodeBatch \/ ReencodeBatchFails
        PROVE  ColumnMove(g, k, c, d)
    <2>1. /\ BatchColumns \in [Columns -> ColumnWriterState]
          /\ SubSeq(source, done + 1, BatchEnd) \in Seq(Row)
      BY <1>6, ReencodeBatchIs
    <2>2. PICK e : /\ \/ e = BatchColumn
                      \/ /\ e = FlushColumn(BatchColumn, pos, taken[0])
                         /\ BufferReady(0, NeedsPageBuffer(BatchColumn))
                      \/ e = FlushColumnFails(BatchColumn, pos, taken[0])
                   /\ OnlyGroup(0, [BatchColumns EXCEPT ![pos] = e])
      BY <1>6, ReencodeBatchIs
    <2>3. CASE g # 0
      BY <1>0, <2>2, <2>3 DEF OnlyGroup
    <2>4. ASSUME g = 0
          PROVE  ColumnMove(g, k, c, d)
      <3>1. d = IF k = pos THEN e ELSE BatchColumns[k]
        BY <1>1, <2>1, <2>2, <2>4 DEF OnlyGroup
      <3>2. BatchColumns[k] = c \/ (Resizes(g, k) /\ BatchColumns[k] = resizeBloomFilter(c))
        BY <1>6, <2>4 DEF BatchColumns, WithBloomFilters, Resizes
      <3>3. CASE k = pos
        <4>1. Flushes(g, WriteValues(BatchColumns[k], k, SubSeq(source, done + 1, BatchEnd)), k, d)
          BY <2>2, <2>4, <3>1, <3>3 DEF BatchColumn, Flushes
        <4> HIDE DEF c, d
        <4>2. \E rows \in Seq(Row) :
                \/ Flushes(g, WriteValues(c, k, rows), k, d)
                \/ Resizes(g, k) /\ Flushes(g, WriteValues(resizeBloomFilter(c), k, rows), k, d)
          <5>1. PICK b : b = BatchColumns[k]
            OBVIOUS
          <5>2. PICK rows \in Seq(Row) : rows = SubSeq(source, done + 1, BatchEnd)
            BY <2>1
          <5>3. Flushes(g, WriteValues(b, k, rows), k, d) /\ (b = c \/ (Resizes(g, k) /\ b = resizeBloomFilter(c)))
            BY <3>2, <4>1, <5>1, <5>2
          <5> QED BY <5>3
        <4> QED BY <1>6, <2>4, <4>2 DEF ColumnMove, GetsRows
      <3>4. CASE k # pos
        <4>1. d = BatchColumns[k]
          BY <3>1, <3>4
        <4>2. d = c \/ (Resizes(g, k) /\ d = resizeBloomFilter(c))
          BY <3>2, <4>1
        <4> HIDE DEF c, d
        <4> QED BY <1>0, <4>2 DEF ColumnMove
      <3> QED BY <3>3, <3>4
    <2> QED BY <2>3, <2>4
  <1>7. CASE UNCHANGED cw
    BY <1>0, <1>7
  <1>8. ASSUME MainColumnStep
        PROVE  ColumnMove(g, k, c, d)
    BY <1>3, <1>4, <1>5, <1>6, <1>8 DEF MainColumnStep
  <1>9. (\E h \in Groups : GroupColumnStep(h)) \/ MainColumnStep \/ UNCHANGED cw
    BY ColumnsUnchanged
  <1> QED BY <1>2, <1>7, <1>8, <1>9


-----------------------------------------------------------------------------
(* The offset index and the dictionary of a column under construction. *)

\* The offset index and the dictionary of column k are those of its pages, and
\* no row comes after the pages of a chunk that was copied.
Kept(c, k) ==
  /\ Indexed(c) /\ Covered(c, k)
  /\ c.copied => Buffered(c) = << >> /\ EncodedRows(c) # << >>

\* What flushes keep.
LEMMA FlushesKeep ==
  ASSUME NEW c \in ColumnWriterState, NEW k \in Columns, NEW g, NEW d, taken[g] \in Nat,
         Flushes(g, c, k, d), Fine(c), Kept(c, k)
  PROVE  d \in ColumnWriterState /\ Fine(d) /\ Kept(d, k) /\ d.copied = c.copied
  <1>1. CASE d = c
    BY <1>1
  <1>2. CASE d = FlushColumn(c, k, taken[g])
    <2>1. /\ Buffered(d) = << >> /\ d.copied = c.copied
          /\ (Indexed(c) /\ (c.copied => Buffered(c) = << >>)) => Indexed(d)
          /\ Covered(c, k) => Covered(d, k)
          /\ BuffersFit(d) /\ PlainFits(d)
      BY <1>2, FlushColumnRows DEF Fine
    <2>2. d \in ColumnWriterState
      BY <1>2, FlushColumnType
    <2>3. c.copied => d = c
      BY <1>2 DEF Kept, FlushColumn
    <2> QED BY <2>1, <2>2, <2>3 DEF Kept, Fine
  <1>3. CASE d = FlushColumnFails(c, k, taken[g])
    BY <1>3, FlushColumnFailsRows, FlushColumnFailsType DEF Fine, Kept
  <1> QED BY <1>1, <1>2, <1>3 DEF Flushes

\* What a change of the filter keeps.
LEMMA FilterKeeps ==
  ASSUME NEW c \in ColumnWriterState, NEW k \in Columns, NEW d, SameButFilter(c, d)
  PROVE  /\ Kept(c, k) => Kept(d, k)
         /\ Fine(c) => Fine(d)
         /\ d.copied = c.copied
  BY SameButFilterSame DEF SameButFilter, SamePages, Kept, Fine

\* What new rows keep.
LEMMA RowsKeep ==
  ASSUME NEW c \in ColumnWriterState, NEW k \in Columns, NEW rows \in Seq(Row),
         Fine(c), Kept(c, k), ~c.copied
  PROVE  LET d == WriteValues(c, k, rows)
         IN  d \in ColumnWriterState /\ Fine(d) /\ Kept(d, k) /\ ~d.copied
  <1> DEFINE d == WriteValues(c, k, rows)
  <1>0. BuffersFit(c)
    BY DEF Fine
  <1>1. /\ SamePages(c, d)
        /\ (Indexed(c) /\ ~c.copied) => Indexed(d)
        /\ Covered(c, k) => Covered(d, k)
        /\ BuffersFit(d)
        /\ PlainFits(c) => PlainFits(d)
    BY <1>0, WriteValuesRows
  <1>2. d \in ColumnWriterState
    BY WriteValuesType
  <1> HIDE DEF d
  <1>3. ~d.copied
    BY <1>1 DEF SamePages
  <1>4. d \in ColumnWriterState /\ Fine(d) /\ Kept(d, k) /\ ~d.copied
    BY <1>1, <1>2, <1>3 DEF Kept, Fine
  <1> QED BY <1>4 DEF d

\* The columns of the current row group that a copy may have filled.
Copying ==
  /\ job = OnPath("copyable") \/ job = RowGroupJob(0)
  /\ pc[0] = "idle"

ColumnKept(g, k) == Kept(cw[g][k], k) /\ (cw[g][k].copied => g = 0 /\ Copying)

\* Only the columns of a copied chunk are not written to.
LEMMA RowsNotCopied ==
  ASSUME TypeOK, Control, NEW g \in Groups, NEW k \in Columns, ColumnKept(g, k),
         NEW d, GetsRows(g, k, cw[g][k], d)
  PROVE  ~cw[g][k].copied
  <1>1. SUFFICES ASSUME g = 0, Copying
                 PROVE  FALSE
    BY DEF ColumnKept
  <1>2. ~NextChunk(g) /\ ~WriteColumn(g) /\ ~WriteColumnFails(g)
    BY <1>1 DEF Copying, NextChunk, BetweenChunks, WriteColumn, WriteColumnFails
  <1>3. ReencodeBatch \/ ReencodeBatchFails
    BY <1>2 DEF GetsRows
  <1>4. job[1].op = "columnar"
    BY <1>3 DEF ReencodeBatch, ReencodeBatchFails, Running
  <1>5. OnPath("copyable")[1].op = "copyable" /\ RowGroupJob(0)[1].op = "rowGroup"
    BY JobOps
  <1> QED BY <1>1, <1>4, <1>5 DEF Copying

\* What any step makes of a column of a sound row group.
LEMMA ColumnKeeps ==
  ASSUME TypeOK, Control, RowInv, [Next]_vars, NEW g \in Groups, NEW k \in Columns,
         Sound(g), ColumnKept(g, k)
  PROVE  /\ Kept(cw'[g][k], k)
         /\ cw'[g][k].copied => cw[g][k].copied \/ (g = 0 /\ LoadCopiedChunk)
  <1> DEFINE c == cw[g][k]
             d == cw'[g][k]
  <1> SUFFICES Kept(d, k) /\ (d.copied => c.copied \/ (g = 0 /\ LoadCopiedChunk))
    OBVIOUS
  <1>1. /\ c \in ColumnWriterState /\ Fine(c) /\ Kept(c, k)
        /\ taken[g] \in Nat /\ chunk[g] \in Seq(Row) /\ source \in Seq(Row) /\ 0 \in Groups
    BY SoundFine, PoolType DEF ColumnKept, TypeOK, Groups
  <1>2. ColumnMove(g, k, c, d)
    BY ColumnMoves
  <1>3. ASSUME NEW e \in ColumnWriterState, Fine(e), Kept(e, k), e.copied => c.copied, Flushes(g, e, k, d)
        PROVE  Kept(d, k) /\ (d.copied => c.copied)
    BY <1>1, <1>3, FlushesKeep
  <1>4. /\ resizeBloomFilter(c) \in ColumnWriterState
        /\ Fine(resizeBloomFilter(c)) /\ Kept(resizeBloomFilter(c), k)
        /\ resizeBloomFilter(c).copied = c.copied
    BY <1>1, FilterRows, FilterType, FilterKeeps
  <1>5. CASE Flushes(g, c, k, d)
    BY <1>1, <1>3, <1>5
  <1>6. CASE d = resizeBloomFilter(c)
    BY <1>4, <1>6
  <1>7. CASE /\ BufferReady(g, NeedsPageBuffer(c))
             /\ d = flushFilterPages(FlushColumn(c, k, taken[g]), k)
    <2> DEFINE e == FlushColumn(c, k, taken[g])
    <2>0. Flushes(g, c, k, e)
      BY <1>7 DEF Flushes
    <2>1. e \in ColumnWriterState /\ Kept(e, k) /\ e.copied = c.copied
      BY <1>1, <2>0, FlushesKeep
    <2>2. SameButFilter(e, d)
      BY <1>7, <2>1, FilterRows
    <2> HIDE DEF d, e
    <2> QED BY <2>1, <2>2, FilterKeeps DEF d
  <1>8. CASE GetsRows(g, k, c, d)
    <2>1. ~c.copied
      BY <1>8, RowsNotCopied
    <2>2. ASSUME NEW e \in ColumnWriterState, NEW rows \in Seq(Row), Fine(e), Kept(e, k), ~e.copied
          PROVE  /\ WriteValues(e, k, rows) \in ColumnWriterState
                 /\ Fine(WriteValues(e, k, rows)) /\ Kept(WriteValues(e, k, rows), k)
                 /\ ~WriteValues(e, k, rows).copied
      BY <2>2, RowsKeep
    <2>3. CASE NextChunk(g) /\ Generic(g) /\ \E rows \in Seq(Row) : d = WriteValues(FirstColumn(c), k, rows)
      <3>1. PICK rows \in Seq(Row) : d = WriteValues(FirstColumn(c), k, rows)
        BY <2>3
      <3>2. g = 0 /\ generic
        BY <2>3 DEF Generic
      <3>3. /\ FirstColumn(c) \in ColumnWriterState /\ Fine(FirstColumn(c))
            /\ Kept(FirstColumn(c), k) /\ ~FirstColumn(c).copied
        <4>1. CASE resolved
          BY <1>1, <2>1, <4>1 DEF FirstColumn
        <4>2. CASE ~resolved
          <5> DEFINE e == newColumnBuffer(c)
          <5>1. Buffered(c) = << >>
            BY <2>3, <3>2, <4>2, FirstChunk
          <5>2. /\ BuffersFit(e) /\ (PlainFits(c) => PlainFits(e))
                /\ (Indexed(c) => Indexed(e)) /\ (Covered(c, k) => Covered(e, k))
                /\ e.copied = c.copied
            BY <1>1, <5>1, NewColumnBufferRows DEF Fine
          <5>3. e \in ColumnWriterState
            BY <1>1, NewColumnBufferType
          <5>4. FirstColumn(c) = e
            BY <4>2 DEF FirstColumn
          <5> HIDE DEF e
          <5> QED BY <1>1, <2>1, <5>2, <5>3, <5>4 DEF Kept, Fine
        <4> QED BY <4>1, <4>2
      <3> QED BY <2>2, <3>1, <3>3
    <2>4. CASE Flushes(g, WriteValues(c, k, chunk[g]), k, d)
      BY <1>1, <1>3, <2>1, <2>2, <2>4
    <2>5. CASE \E rows \in Seq(Row) :
                 Flushes(g, WriteValues(c, k, rows), k, d) \/ Flushes(g, WriteValues(resizeBloomFilter(c), k, rows), k, d)
      <3>1. PICK rows \in Seq(Row) :
              Flushes(g, WriteValues(c, k, rows), k, d) \/ Flushes(g, WriteValues(resizeBloomFilter(c), k, rows), k, d)
        BY <2>5
      <3>2. CASE Flushes(g, WriteValues(c, k, rows), k, d)
        BY <1>1, <1>3, <2>1, <2>2, <3>2
      <3>3. CASE Flushes(g, WriteValues(resizeBloomFilter(c), k, rows), k, d)
        BY <1>3, <1>4, <2>1, <2>2, <3>3
      <3> QED BY <3>1, <3>2, <3>3
    <2> HIDE DEF c, d
    <2> QED BY <1>8, <2>3, <2>4, <2>5 DEF GetsRows
  <1>9. CASE d = resetColumn(c)
    <2>1. Blank(d) /\ d \in ColumnWriterState
      BY <1>1, <1>9, ResetColumnRows, ResetColumnType, Zenon
    <2>2. Indexed(d) /\ Covered(d, k) /\ ~d.copied
      BY <2>1, BlankRows DEF Blank
    <2> QED BY <2>2 DEF Kept
  <1>10. CASE /\ LoadCopiedChunk /\ g = 0 /\ k = pos
              /\ d = loadCopiedChunk(c, k, SourceChunk(k, source, SourcePage, SourceOffset))
    <2>1. Buffered(c) = << >> /\ source # << >>
      <3>1. job # << >> /\ job[1].op = "copyable"
        BY <1>10 DEF LoadCopiedChunk, Running
      <3>2. job = OnPath("copyable")
        BY <3>1, JobFirst DEF Control, Paths
      <3>3. done = 0 /\ source # << >>
        BY <3>2 DEF Control, SourceFits, PathLeft, Paths
      <3>4. Rows(0, k) = Taken(k)
        BY <1>10, <3>2 DEF RowInv, FromSource, OnColumnPath
      <3>5. Taken(k) = << >>
        BY <1>1, <1>10, <3>3, LastColumn DEF Taken
      <3>6. Len(ColumnRows(c)) = 0
        BY <1>10, <3>4, <3>5 DEF Rows
      <3>7. /\ EncodedRows(c) \in Seq(Row) /\ Buffered(c) \in Seq(Row)
            /\ Len(ColumnRows(c)) = Len(EncodedRows(c)) + Len(Buffered(c))
        BY <1>1, PageRowsType, BufferedType
      <3> QED BY <3>3, <3>6, <3>7, EmptySeq
    <2>2. BuffersFit(c) /\ SourcePage \in Nat \ {0} /\ SourceOffset \in Nat \ {0}
      BY <1>1, WriterAssumption DEF Fine, SourceOffset
    <2>3. Buffered(d) = << >> /\ EncodedRows(d) = source /\ Indexed(d) /\ Covered(d, k)
      BY <1>1, <1>10, <2>1, <2>2, CopiedRows
    <2> QED BY <1>10, <2>1, <2>3 DEF Kept
  <1> HIDE DEF c, d
  <1> QED BY <1>2, <1>5, <1>6, <1>7, <1>8, <1>9, <1>10 DEF ColumnMove

GroupKept(g) == Clear(g) => \A k \in Columns : ColumnKept(g, k)

\* A copy fills the columns of an idle row group, which is then written.
LEMMA CopyStep ==
  ASSUME TypeOK, Control, RowInv, LoadCopiedChunk, Sound(0)
  PROVE  Copying'
  <1>1. OnColumnPath(0) /\ (UNCHANGED job \/ job' = RowGroupJob(0))
    BY SourceTaken
  <1>2. pc'[0] = "idle"
    BY <1>1, ColumnPathIdle DEF LoadCopiedChunk, callVars
  <1>3. job = OnPath("copyable")
    BY JobFirst DEF LoadCopiedChunk, Running, Control, Paths
  <1> QED BY <1>1, <1>2, <1>3 DEF Copying

\* Copied columns stay until they are written.
LEMMA CopyingStep ==
  ASSUME TypeOK, Control, RowInv, [Next]_vars, Clear(0), Clear(0)', Copying,
         NEW k \in Columns, EncodedRows(cw[0][k]) # << >>,
         ~(ResetRowGroupColumn /\ pos = NumColumns /\ Group = 0)
  PROVE  Copying'
  <1>0. Sound(0) /\ Sound(0)' /\ 0 \in Groups /\ pc[0] = "idle"
    BY DEF Clear, Groups, Copying
  <1>1. job # << >> /\ job[1].op \in {"copyable", "rowGroup"}
    <2>1. /\ OnPath("copyable") # << >> /\ RowGroupJob(0) # << >>
          /\ OnPath("copyable")[1].op = "copyable" /\ RowGroupJob(0)[1].op = "rowGroup"
      BY JobTails, JobOps
    <2> QED BY <2>1 DEF Copying
  <1>2. CASE job' = job
    BY <1>0, <1>1, <1>2, JobIdle DEF StartCopyRows, Running, Copying
  <1>3. CASE job' # job
    <2>1. ~TooManyRowGroups
      <3>1. Len(rowGroups) < MaxRowGroups
        BY DEF Clear
      <3>2. rowGroups \in Seq(RowGroup)
        BY DEF TypeOK
      <3>3. Len(rowGroups) \in Nat
        BY <3>2
      <3> QED BY <3>1, <3>3, WriterAssumption DEF TooManyRowGroups
    <2>2. status' # "failed" /\ ~Running("footer")
      BY <1>0, <1>1 DEF Sound, Running
    <2>3. job # OnPath("copyRows") /\ job # OnPath("opaque")
      BY <1>1, JobOps
    <2>4. NextJob /\ (job[1].op = "rowGroup" => RowGroupDone)
      BY <1>1, <1>3, <2>1, <2>2, <2>3, JobMoves
    <2>5. CASE job = RowGroupJob(0)
      <3>1. job[1].op = "rowGroup" /\ Group = 0
        BY <2>5, JobOps DEF Group
      <3>2. SkipEmptyRowGroup
        BY <2>4, <3>1 DEF RowGroupDone
      <3>3. Rows(0, k) = << >>
        BY <1>0, <3>1, <3>2, SkippedEmpty
      <3>4. cw[0][k] \in ColumnWriterState
        BY <1>0, SoundFine
      <3>5. /\ EncodedRows(cw[0][k]) \in Seq(Row) /\ Buffered(cw[0][k]) \in Seq(Row)
            /\ Len(ColumnRows(cw[0][k])) = Len(EncodedRows(cw[0][k])) + Len(Buffered(cw[0][k]))
        BY <3>4, PageRowsType, BufferedType
      <3>6. Len(ColumnRows(cw[0][k])) = 0
        BY <3>3 DEF Rows
      <3> QED BY <3>5, <3>6, EmptySeq
    <2>6. CASE job = OnPath("copyable")
      <3>1. job' = RowGroupJob(0)
        BY <2>4, <2>6, JobsDiffer DEF NextJob, Paths
      <3>2. ~StartCopyRows
        BY <1>1 DEF StartCopyRows, Running
      <3>3. pc'[0] = "idle"
        BY <1>0, <1>1, <3>2, JobIdle
      <3> QED BY <3>1, <3>3 DEF Copying
    <2> QED BY <2>5, <2>6 DEF Copying
  <1> QED BY <1>2, <1>3

\* No step leaves a kept row group without what was kept of it.
LEMMA GroupKeptStep ==
  ASSUME FallbackOrReset, TypeOK, TypeOK', Control, RowInv, [Next]_vars, NEW g \in Groups, GroupKept(g)
  PROVE  GroupKept(g)'
  <1> SUFFICES ASSUME Clear(g)', NEW k \in Columns
               PROVE  ColumnKept(g, k)'
    BY DEF GroupKept
  <1>1. CASE ResetRowGroupColumn /\ pos = NumColumns /\ Group = g
    <2>0. Blank(cw'[g][k])
      BY <1>1, ResetEnds
    <2>1. Blank(cw'[g][k]) /\ cw'[g][k] \in ColumnWriterState
      BY <2>0 DEF TypeOK
    <2>2. Indexed(cw'[g][k]) /\ Covered(cw'[g][k], k) /\ ~cw'[g][k].copied
      BY <2>1, BlankRows DEF Blank
    <2> QED BY <2>2 DEF ColumnKept, Kept
  <1>2. CASE ~(ResetRowGroupColumn /\ pos = NumColumns /\ Group = g)
    <2>1. Clear(g)
      BY <1>2, ClearStep
    <2>2. ColumnKept(g, k) /\ Sound(g)
      BY <2>1 DEF GroupKept, Clear
    <2>3. /\ Kept(cw'[g][k], k)
          /\ cw'[g][k].copied => cw[g][k].copied \/ (g = 0 /\ LoadCopiedChunk)
      BY <2>2, ColumnKeeps
    <2>4. CASE g = 0 /\ LoadCopiedChunk
      BY <2>2, <2>3, <2>4, CopyStep DEF ColumnKept
    <2>5. CASE cw[g][k].copied
      BY <1>2, <2>1, <2>2, <2>3, <2>5, CopyingStep DEF ColumnKept, Kept
    <2>6. CASE ~cw'[g][k].copied
      BY <2>3, <2>6 DEF ColumnKept
    <2> QED BY <2>3, <2>4, <2>5, <2>6
  <1> QED BY <1>1, <1>2

\* Nothing is kept of the row groups of a new writer.
LEMMA GroupKeptInit ==
  ASSUME Init
  PROVE  \A g \in Groups : GroupKept(g)
  <1> TAKE g \in Groups
  <1>1. ASSUME NEW k \in Columns
        PROVE  ColumnKept(g, k)
    <2>1. cw[g][k] = NewColumnWriter
      BY DEF Init
    <2>2. NewColumnWriter \in ColumnWriterState /\ Blank(NewColumnWriter)
      BY ResetColumnRows, ResetColumnType, Zenon
    <2>3. Indexed(NewColumnWriter) /\ Covered(NewColumnWriter, k) /\ ~NewColumnWriter.copied
      BY <2>2, BlankRows DEF Blank
    <2> QED BY <2>1, <2>3 DEF ColumnKept, Kept
  <1> QED BY <1>1 DEF GroupKept

-----------------------------------------------------------------------------
(* The size of pages. *)

\* Rows come a write at a time: no row group is copied or re-encoded column by
\* column, with pages of the size of its own or of a batch.
RowsAtATime == CallKinds \cap {"copyable", "columnar"} = {}

NoColumnPath == \A p \in {"copyable", "columnar"} : ~PathLeft(p)

\* What a call starts with.
LEMMA JobStarts ==
  ASSUME TypeOK, Control, [Next]_vars, job = << >>
  PROVE  \/ job' = job
         \/ \E g \in Groups : job' = RowGroupJob(g) \/ job' = CommitJob(g)
         \/ job' \in {CloseJob, ResetJob}
         \/ /\ CallKinds \cap Paths # {}
            /\ \E p \in (CallKinds \cap Paths) \cup {"opaque"} : job' = BeforePath(p)
  <1>0. 0 \in Groups
    BY DEF Groups
  <1>1. CASE UNCHANGED allButPool
    BY <1>1 DEF allButPool, mainVars
  <1>2. CASE ApplicationCall
    <2>1. ASSUME NEW h, NEW n, NEW kind, WriteRows(h, n, kind)
          PROVE  job' = job
      BY <2>1 DEF WriteRows, mainVars
    <2>2. ASSUME NEW h, FlushGroup(h)
          PROVE  job' = job
      BY <2>2 DEF FlushGroup, mainVars
    <2>3. ASSUME NEW n, NEW kind \in CallKinds \cap Paths, WriteRowGroup(n, kind)
          PROVE  \E p \in (CallKinds \cap Paths) \cup {"opaque"} : job' = BeforePath(p)
      BY <2>3 DEF WriteRowGroup, AfterFlush, BeforePath
    <2>4. CASE Flush
      BY <1>0, <2>4 DEF Flush, Call, RowGroupJob
    <2>5. ASSUME NEW h, Commit(h)
          PROVE  job' = CommitJob(h)
      BY <2>5 DEF Commit, Call, CommitJob
    <2>6. CASE Close
      BY <2>6 DEF Close, Call, CloseJob
    <2>7. CASE Reset
      BY <2>7 DEF Reset, ResetJob
    <2> QED BY <1>2, <2>1, <2>2, <2>3, <2>4, <2>5, <2>6, <2>7 DEF ApplicationCall, Paths
  <1>3. CASE MainStep
    BY <1>3 DEF MainStep, SkipEmptyRowGroup, TooManyRowGroups, StartRowGroup, WriteHeader,
                WriteColumnPages, WriteBloomFilter, CloseHeader, WriteFooter, AppendRowGroup,
                FlushRowGroupColumn, FlushRowGroupColumnFails, FlushFilterPagesFails, NoBloomFilter,
                DeferBloomFilter,
                WriteRowGroupFails, ResetRowGroupColumn, CloseColumn, WriteDeferredBloomFilter,
                CloseColumnFails, DeferredBloomFiltersWritten, PutDeferredBuffer, CloseFails,
                DeferredBuffersReturned, LoadCopiedChunk, StartCopyRows, RowsCopied, CopyRowsFails, Fail,
                ReencodeBatch, ReencodeBatchFails, WriteRowGroupSourceFails, InRowGroup, Running
  <1>4. ASSUME NEW h \in Groups, GroupStep(h)
        PROVE  job' = job \/ job' = RowGroupJob(0)
    BY <1>4 DEF GroupFull, RowGroupJob, WriteColumnFails, FlushGroupColumnFails, Fail, GroupStep,
      NextChunk, WriteColumn, FlushGroupColumn, mainVars
  <1> QED BY <1>0, <1>1, <1>2, <1>3, <1>4, NextCases

\* A row group whose rows come one write at a time never takes another path.
LEMMA NoColumnPathStep ==
  ASSUME RowsAtATime, TypeOK, Control, Control', [Next]_vars, NoColumnPath
  PROVE  NoColumnPath'
  <1> SUFFICES ASSUME NEW p \in {"copyable", "columnar"}, NEW j, j = job', j = BeforePath(p) \/ j = OnPath(p)
               PROVE  FALSE
    BY DEF NoColumnPath, PathLeft
  <1>0. p \in Paths /\ j # << >> /\ j[1].op \in {"rowGroup", p} /\ ~PathLeft(p)
    <2>1. BeforePath(p) # << >> /\ OnPath(p) # << >>
      BY JobTails, Zenon
    <2>2. BeforePath(p)[1].op = "rowGroup" /\ OnPath(p)[1].op = p
      BY JobOps
    <2> QED BY <2>1, <2>2 DEF NoColumnPath, Paths
  <1>1. job' # job
    BY <1>0 DEF PathLeft
  <1>2. status' = "open"
    BY <1>0 DEF Control, StatusFits
  <1>3. CASE job = << >>
    <2>1. ASSUME NEW g
          PROVE  j # RowGroupJob(g) /\ j # CommitJob(g)
      BY <1>0, JobsDiffer
    <2>2. j # CloseJob /\ j # ResetJob
      BY <1>0, JobsDiffer
    <2>3. PICK q \in (CallKinds \cap Paths) \cup {"opaque"} : j = BeforePath(q)
      BY <1>1, <1>3, <2>1, <2>2, JobStarts
    <2>4. p = q
      BY <2>3, JobsDiffer
    <2> QED BY <2>3, <2>4 DEF RowsAtATime
  <1>4. CASE job # << >>
    <2>1. \/ job = OnPath("copyRows") /\ j = BeforePath("copyRows")
          \/ job = OnPath("opaque") /\ j = OnPath("copyRows")
          \/ NextJob
      BY <1>0, <1>1, <1>2, <1>4, JobMoves
    <2>2. BeforePath("copyRows") # j /\ OnPath("copyRows") # j
      BY JobsDiffer
    <2>3. NextJob
      BY <2>1, <2>2
    <2>4. \A g : j # RowGroupJob(g)
      BY <1>0, JobsDiffer
    <2>5. j \notin {CloseJob2, CloseJob3, CloseJob4, CloseJob5}
      BY <1>0, JobsDiffer
    <2>6. PICK q : job = BeforePath(q) /\ j = OnPath(q)
      BY <1>0, <2>3, <2>4, <2>5 DEF NextJob
    <2>7. p = q
      BY <2>6, JobsDiffer
    <2> QED BY <1>0, <2>6, <2>7 DEF PathLeft
  <1> QED BY <1>3, <1>4

\* The pages of a column are as long as the page size, or a write, allows.
PagesSmall(k, pages) ==
  \A j \in 1 .. Len(pages) : Len(pages[j].rows) < BufferSize[k] + maxRowsPerWrite

\* A column that is not full, but for n rows.
Fits(c, k, n) == Len(Buffered(c)) < BufferSize[k] + n /\ PagesSmall(k, c.pages)

\* Rows of the chunk that Write has put into column k before it looks whether
\* the column is full.
Excess(g, k) == IF Generic(g) /\ col[g] <= k THEN Len(chunk[g]) ELSE 0

GroupFits(g) == Clear(g) => \A k \in Columns : Fits(cw[g][k], k, Excess(g, k))

\* A page is written, or dropped, with the rows of the buffer.
LEMMA FlushFits ==
  ASSUME NEW c \in ColumnWriterState, NEW k \in Columns, NEW d, NEW id \in Nat, Fine(c),
         NEW n \in Nat, n <= maxRowsPerWrite, Fits(c, k, n),
         d = FlushColumn(c, k, id) \/ d = FlushColumnFails(c, k, id)
  PROVE  Fits(d, k, 0)
  <1>0. /\ Buffered(c) \in Seq(Row) /\ Len(<< >>) = 0 /\ BufferSize[k] \in Nat \ {0}
        /\ maxRowsPerWrite \in Nat /\ c.pages \in Seq(Page)
    BY BufferedType, ColumnAssumption, WriterAssumption DEF ColumnWriterState
  <1>1. Buffered(d) = << >>
    BY FlushColumnRows, FlushColumnFailsRows DEF Fine
  <1>2. CASE d = FlushColumnFails(c, k, id)
    BY <1>0, <1>1, <1>2, FlushColumnFailsRows DEF Fine, SamePages, Fits
  <1>3. CASE d = FlushColumn(c, k, id)
    <2> DEFINE page == NewPage(c, k, Buffered(c))
    <2>1. d.pages = IF Buffered(c) = << >> THEN c.pages ELSE Append(c.pages, page)
      BY <1>3, FlushColumnPages
    <2>2. page.rows = Buffered(c)
      BY DEF NewPage
    <2> HIDE DEF page
    <2>3. Len(page.rows) < BufferSize[k] + maxRowsPerWrite
      BY <1>0, <2>2 DEF Fits
    <2>4. ASSUME NEW j \in 1 .. Len(Append(c.pages, page))
          PROVE  Append(c.pages, page)[j] = page \/ (j \in 1 .. Len(c.pages) /\ Append(c.pages, page)[j] = c.pages[j])
      BY <1>0
    <2>5. PagesSmall(k, Append(c.pages, page))
      BY <2>3, <2>4 DEF Fits, PagesSmall
    <2> QED BY <1>0, <1>1, <2>1, <2>5 DEF Fits
  <1> QED BY <1>2, <1>3

\* New rows take the room of as many rows.
LEMMA RowsFit ==
  ASSUME NEW c \in ColumnWriterState, NEW k \in Columns, NEW rows \in Seq(Row), Fine(c), Fits(c, k, 0)
  PROVE  Fits(WriteValues(c, k, rows), k, Len(rows))
  <1> DEFINE d == WriteValues(c, k, rows)
  <1>1. d.pages = c.pages /\ Buffered(d) = Buffered(c) \o rows
    BY WriteValuesRows DEF Fine, SamePages
  <1> HIDE DEF d
  <1>2. Buffered(c) \in Seq(Row) /\ BufferSize[k] \in Nat
    BY BufferedType, ColumnAssumption
  <1>3. Len(Buffered(d)) = Len(Buffered(c)) + Len(rows)
    BY <1>1, <1>2
  <1> QED BY <1>1, <1>2, <1>3 DEF Fits, d

\* More room is room enough.
LEMMA FitsMore ==
  ASSUME NEW c \in ColumnWriterState, NEW k \in Columns, NEW m \in Nat, NEW n \in Nat, m <= n, Fits(c, k, m)
  PROVE  Fits(c, k, n)
  BY BufferedType, ColumnAssumption DEF Fits

\* Rows come to the columns in chunks, and a full column is flushed.
LEMMA NextChunkFits ==
  ASSUME TypeOK, TypeOK', Control, RowInv, NEW g \in Groups, NEW k \in Columns, Sound(g),
         NextChunk(g), Fits(cw[g][k], k, Excess(g, k))
  PROVE  Fits(cw'[g][k], k, Excess(g, k)')
  <1> DEFINE c == cw[g][k]
             d == cw'[g][k]
  <1> SUFFICES Fits(d, k, Excess(g, k)')
    OBVIOUS
  <1>0. /\ c \in ColumnWriterState /\ Fine(c) /\ chunk \in [Groups -> Seq(Row)]
        /\ col \in [Groups -> Columns] /\ 1 <= k
    <2>1. 1 <= k
      BY ColumnAssumption DEF Columns
    <2> QED BY <2>1, SoundFine DEF TypeOK
  <1>1. chunk[g] = << >> /\ UNCHANGED generic
    BY DEF NextChunk, BetweenChunks
  <1>2. Len(<< >>) = 0
    OBVIOUS
  <1>3. Excess(g, k) = 0
    BY <1>1, <1>2 DEF Excess
  <1>4. PICK rows \in Seq(Row) :
           /\ chunk' = [chunk EXCEPT ![g] = rows] /\ col' = [col EXCEPT ![g] = 1]
           /\ ~Generic(g) => cw' = cw
           /\ Generic(g) => OnlyGroup(g, [m \in Columns |-> WriteValues(FirstColumn(cw[g][m]), m, rows)])
    BY NextChunkIs
  <1>5. chunk'[g] = rows /\ col'[g] = 1 /\ (Generic(g)' <=> Generic(g))
    BY <1>0, <1>1, <1>4 DEF Generic
  <1>6. CASE ~Generic(g)
    BY <1>3, <1>4, <1>5, <1>6 DEF Excess
  <1>7. CASE Generic(g)
    <2>1. Excess(g, k)' = Len(rows)
      BY <1>0, <1>5, <1>7 DEF Excess
    <2>2. d = WriteValues(FirstColumn(c), k, rows)
      BY <1>4, <1>7 DEF OnlyGroup
    <2>3. FirstColumn(c) \in ColumnWriterState /\ Fine(FirstColumn(c)) /\ Fits(FirstColumn(c), k, 0)
      <3>1. CASE resolved
        BY <1>0, <1>3, <3>1 DEF FirstColumn
      <3>2. CASE ~resolved
        <4> DEFINE e == newColumnBuffer(c)
        <4>1. Buffered(c) = << >>
          BY <1>7, <3>2, FirstChunk DEF Generic
        <4>2. /\ BuffersFit(e) /\ (PlainFits(c) => PlainFits(e))
              /\ Buffered(e) = << >> /\ e.pages = c.pages
          BY <1>0, <4>1, NewColumnBufferRows DEF Fine, SamePages
        <4>3. e \in ColumnWriterState
          BY <1>0, NewColumnBufferType
        <4>4. FirstColumn(c) = e
          BY <3>2 DEF FirstColumn
        <4> HIDE DEF e
        <4> QED BY <1>0, <1>3, <4>1, <4>2, <4>3, <4>4 DEF Fine, Fits
      <3> QED BY <3>1, <3>2
    <2>4. Fits(WriteValues(FirstColumn(c), k, rows), k, Len(rows))
      BY <2>3, RowsFit
    <2> QED BY <2>1, <2>2, <2>4
  <1> QED BY <1>6, <1>7

\* A write keeps the pages within the size of a page.
LEMMA WriteColumnFits ==
  ASSUME TypeOK, TypeOK', RowInv, Limits, NEW g \in Groups, NEW k \in Columns, Sound(g),
         WriteColumn(g), Fits(cw[g][k], k, Excess(g, k))
  PROVE  Fits(cw'[g][k], k, Excess(g, k)')
  <1> DEFINE c == cw[g][k]
             d == cw'[g][k]
             n == Len(chunk[g])
  <1> SUFFICES Fits(d, k, Excess(g, k)')
    OBVIOUS
  <1>0. /\ c \in ColumnWriterState /\ Fine(c) /\ chunk[g] \in Seq(Row) /\ chunk'[g] \in Seq(Row)
        /\ d \in ColumnWriterState /\ col[g] \in Columns /\ col'[g] \in Columns
        /\ taken[g] \in Nat /\ n <= maxRowsPerWrite
    BY SoundFine, PoolType DEF TypeOK, Limits
  <1>1. n \in Nat /\ Len(chunk'[g]) \in Nat /\ Excess(g, k) \in Nat /\ Excess(g, k)' \in Nat
    BY <1>0 DEF Excess
  <1>2. /\ SetColumn(g, col[g], IF BufferBytes(WithChunk(g, col[g])) >= BufferSize[col[g]]
                                  THEN FlushColumn(WithChunk(g, col[g]), col[g], taken[g])
                                  ELSE WithChunk(g, col[g]))
        /\ UNCHANGED generic
        /\ IF col[g] < NumColumns THEN col' = [col EXCEPT ![g] = col[g] + 1] /\ UNCHANGED chunk
                                  ELSE chunk' = [chunk EXCEPT ![g] = << >>] /\ UNCHANGED col
    BY DEF WriteColumn
  <1>3. CASE k # col[g]
    <2>1. d = c
      BY <1>0, <1>2, <1>3, SetColumnIs DEF OnlyColumn
    <2>2. Excess(g, k)' = Excess(g, k)
      <3>0. NumColumns \in Nat /\ Columns = 1 .. NumColumns /\ Len(<< >>) = 0
        BY ColumnAssumption DEF Columns
      <3>1. Generic(g)' <=> Generic(g)
        BY <1>2 DEF Generic
      <3>2. chunk \in [Groups -> Seq(Row)] /\ col \in [Groups -> Columns]
        BY DEF TypeOK
      <3>3. CASE col[g] < NumColumns
        BY <1>0, <1>2, <1>3, <3>0, <3>1, <3>2, <3>3 DEF Excess
      <3>4. CASE ~(col[g] < NumColumns)
        BY <1>0, <1>2, <1>3, <3>0, <3>2, <3>4 DEF Excess
      <3> QED BY <3>3, <3>4
    <2> QED BY <2>1, <2>2
  <1>4. CASE k = col[g]
    <2> DEFINE e == WithChunk(g, k)
    <2>1. e \in ColumnWriterState /\ Fine(e) /\ Fits(e, k, n)
      <3>1. CASE Generic(g)
        <4>1. e = c /\ Excess(g, k) = n
          BY <1>0, <1>4, <3>1 DEF WithChunk, Excess, Columns
        <4> HIDE DEF e
        <4> QED BY <1>0, <4>1
      <3>2. CASE ~Generic(g)
        <4>1. e = WriteValues(c, k, chunk[g]) /\ Excess(g, k) = 0
          BY <3>2 DEF WithChunk, Excess
        <4>2. WriteValues(c, k, chunk[g]) \in ColumnWriterState
          BY <1>0, WriteValuesType
        <4>3. Fine(WriteValues(c, k, chunk[g]))
          BY <1>0, WriteValuesRows DEF Fine
        <4>4. Fits(WriteValues(c, k, chunk[g]), k, n)
          BY <1>0, <4>1, RowsFit
        <4> HIDE DEF e
        <4> QED BY <4>1, <4>2, <4>3, <4>4
      <3> QED BY <3>1, <3>2
    <2>2. d = IF BufferBytes(e) >= BufferSize[k] THEN FlushColumn(e, k, taken[g]) ELSE e
      BY <1>0, <1>2, <1>4, SetColumnIs DEF OnlyColumn
    <2> HIDE DEF d, e
    <2>3. Fits(d, k, 0)
      <3>1. CASE BufferBytes(e) >= BufferSize[k]
        BY <1>0, <1>1, <2>1, <2>2, <3>1, FlushFits
      <3>2. CASE ~(BufferBytes(e) >= BufferSize[k])
        BY <2>1, <2>2, <3>2, BufferedType, ColumnAssumption DEF BufferBytes, Fits
      <3> QED BY <3>1, <3>2
    <2> QED BY <1>0, <1>1, <2>3, FitsMore
  <1> QED BY <1>3, <1>4

\* No step makes a page larger than the size of a page.
LEMMA GroupFitsStep ==
  ASSUME FallbackOrReset, TypeOK, TypeOK', Control, RowInv, Limits, NoColumnPath, [Next]_vars,
         NEW g \in Groups, GroupFits(g)
  PROVE  GroupFits(g)'
  <1> SUFFICES ASSUME Clear(g)', NEW k \in Columns
               PROVE  Fits(cw'[g][k], k, Excess(g, k)')
    BY DEF GroupFits
  <1> DEFINE c == cw[g][k]
             d == cw'[g][k]
  <1>0. /\ d \in ColumnWriterState /\ chunk'[g] \in Seq(Row) /\ chunk[g] \in Seq(Row) /\ taken[g] \in Nat
        /\ BufferSize[k] \in Nat \ {0} /\ maxRowsPerWrite \in Nat /\ Len(<< >>) = 0
    <2>1. chunk \in [Groups -> Seq(Row)] /\ chunk' \in [Groups -> Seq(Row)]
      BY DEF TypeOK
    <2>2. d \in ColumnWriterState
      BY DEF TypeOK
    <2>3. BufferSize[k] \in Nat \ {0} /\ maxRowsPerWrite \in Nat /\ Len(<< >>) = 0
      BY ColumnAssumption, WriterAssumption
    <2> QED BY <2>1, <2>2, <2>3, PoolType
  <1>1. Excess(g, k)' \in Nat /\ Excess(g, k) \in Nat /\ Excess(g, k) <= maxRowsPerWrite
    BY <1>0 DEF Excess, Limits
  <1>2. CASE ResetRowGroupColumn /\ pos = NumColumns /\ Group = g
    <2>1. Blank(d)
      BY <1>2, ResetEnds
    <2>2. Buffered(d) = << >> /\ d.pages = << >>
      BY <1>0, <2>1, BlankRows DEF Blank
    <2>3. Fits(d, k, 0)
      BY <1>0, <2>2 DEF Fits, PagesSmall
    <2> QED BY <1>0, <1>1, <2>3, FitsMore
  <1>3. CASE ~(ResetRowGroupColumn /\ pos = NumColumns /\ Group = g)
    <2>1. Clear(g)
      BY <1>3, ClearStep
    <2>2. /\ c \in ColumnWriterState /\ Fine(c) /\ Fits(c, k, Excess(g, k))
          /\ Sound(g) /\ Sound(g)'
      BY <2>1, SoundFine DEF Clear, GroupFits
    <2>3. CASE NextChunk(g)
      BY <2>2, <2>3, NextChunkFits
    <2>4. CASE WriteColumn(g)
      BY <2>2, <2>4, WriteColumnFits
    <2>5. CASE ~NextChunk(g) /\ ~WriteColumn(g)
      <3>1. ~(ResetRowGroupColumn /\ Group = g)
        BY <2>1 DEF Clear, Sound, InReset, InAbort, ResetRowGroupColumn
      <3>2. ~LoadCopiedChunk /\ ~ReencodeBatch /\ ~ReencodeBatchFails
        BY JobFirst DEF Running, Paths, Control, NoColumnPath, PathLeft, LoadCopiedChunk,
          ReencodeBatch, ReencodeBatchFails
      <3>3. ~WriteColumnFails(g)
        BY <2>2, FailUnsound DEF WriteColumnFails
      <3>4. AheadSame(g)
        BY <2>2, <2>5, <3>1, <3>2, ChunkKept DEF Changing
      <3>5. Excess(g, k)' = Excess(g, k)
        BY <1>0, <2>5, <3>4 DEF AheadSame, Excess
      <3>6. \/ Flushes(g, c, k, d) \/ d = resizeBloomFilter(c)
            \/ d = flushFilterPages(FlushColumn(c, k, taken[g]), k)
        <4>1. ColumnMove(g, k, c, d)
          BY ColumnMoves
        <4> HIDE DEF c, d
        <4> QED BY <2>5, <3>1, <3>2, <3>3, <4>1 DEF ColumnMove, GetsRows
      <3>7. ASSUME NEW e, e = FlushColumn(c, k, taken[g]) \/ e = FlushColumnFails(c, k, taken[g])
            PROVE  Fits(e, k, 0)
        BY <1>0, <1>1, <2>2, <3>7, FlushFits
      <3>8. CASE d = c
        BY <2>2, <3>5, <3>8
      <3>9. CASE d = FlushColumn(c, k, taken[g]) \/ d = FlushColumnFails(c, k, taken[g])
        BY <1>0, <1>1, <3>7, <3>9, FitsMore
      <3>10. CASE d = resizeBloomFilter(c)
        <4>0. SameButFilter(c, d)
          BY <2>2, <3>10, FilterRows
        <4>1. d.pages = c.pages /\ Buffered(d) = Buffered(c)
          BY <2>2, <4>0, SameButFilterSame DEF SameButFilter, SamePages
        <4> HIDE DEF c, d
        <4>2. Fits(d, k, Excess(g, k))
          BY <2>2, <4>1 DEF Fits
        <4> QED BY <3>5, <4>2 DEF d
      <3>11. CASE d = flushFilterPages(FlushColumn(c, k, taken[g]), k)
        <4> DEFINE e == FlushColumn(c, k, taken[g])
        <4>1. Fits(e, k, 0) /\ e \in ColumnWriterState
          BY <1>0, <2>2, <3>7, FlushColumnType
        <4>2. d = flushFilterPages(e, k)
          BY <3>11
        <4> HIDE DEF c, d, e
        <4>3. SameButFilter(e, d)
          BY <4>1, <4>2, FilterRows
        <4>4. d.pages = e.pages /\ Buffered(d) = Buffered(e)
          BY <4>1, <4>3, SameButFilterSame DEF SameButFilter, SamePages
        <4>5. Fits(d, k, 0)
          BY <4>1, <4>4 DEF Fits
        <4> QED BY <1>0, <1>1, <4>5, FitsMore DEF d
      <3> HIDE DEF c, d
      <3> QED BY <3>6, <3>8, <3>9, <3>10, <3>11 DEF Flushes
    <2> QED BY <2>3, <2>4, <2>5
  <1> QED BY <1>2, <1>3

\* The row groups of a new writer have no pages.
LEMMA GroupFitsInit ==
  ASSUME Init
  PROVE  NoColumnPath /\ \A g \in Groups : GroupFits(g)
  <1>1. NoColumnPath
    BY JobTails, Zenon DEF Init, NoColumnPath, PathLeft
  <1>2. ASSUME NEW g \in Groups, NEW k \in Columns
        PROVE  Fits(cw[g][k], k, Excess(g, k))
    <2>1. cw[g][k] = NewColumnWriter /\ chunk[g] = << >> /\ Len(<< >>) = 0
      BY <1>2 DEF Init
    <2>2. NewColumnWriter \in ColumnWriterState /\ Blank(NewColumnWriter)
      BY ResetColumnRows, ResetColumnType, Zenon
    <2>3. Buffered(NewColumnWriter) = << >> /\ NewColumnWriter.pages = << >>
      BY <1>2, <2>2, BlankRows DEF Blank
    <2>4. Excess(g, k) = 0 /\ BufferSize[k] \in Nat \ {0}
      BY <1>2, <2>1, ColumnAssumption DEF Excess
    <2> QED BY <2>1, <2>3, <2>4 DEF Fits, PagesSmall
  <1> QED BY <1>1, <1>2 DEF GroupFits

-----------------------------------------------------------------------------
(* What the metadata of a column chunk says is in the file. *)

\* Location l is that of a data page p in the segments f.
DataAt(f, l, p) ==
  \E s \in f : /\ s.kind = "data" /\ s.at = l.offset /\ s.size = l.size
               /\ s.rows = p.rows /\ s.encoding = p.encoding

RowsOfPages(pages) == [j \in 1 .. Len(pages) |-> pages[j].rows]

\* The locations of metadata m are those of the pages, each with the rows that
\* come before it, and pages of indexes come with their dictionary.
ChunkWritten(f, m, k, pages) ==
  /\ Len(m.locations) = Len(pages)
  /\ \A j \in 1 .. Len(pages) :
       /\ DataAt(f, m.locations[j], pages[j])
       /\ m.locations[j].firstRow = Len(FlattenSeq(SubSeq(RowsOfPages(pages), 1, j - 1)))
       /\ pages[j].encoding = "RLE_DICTIONARY" =>
            \E s \in f : /\ s.kind = "dictionary" /\ s.at = m.dictionaryPageOffset
                         /\ ValuesOf(k, pages[j].rows) \subseteq s.values

\* The chunks of row group r are in the file, with the same rows.
RowGroupWritten(f, r) ==
  \E pages \in [Columns -> Seq(Page)] :
    \A k \in Columns :
      /\ ChunkWritten(f, r.columns[k], k, pages[k])
      /\ FlattenSeq(RowsOfPages(pages[k])) = FlattenSeq(RowsOfPages(pages[1]))
      /\ Len(FlattenSeq(RowsOfPages(pages[k]))) = r.numRows
      /\ r.numRows <= MaxRowsPerRowGroup
      /\ RowsAtATime => PagesSmall(k, pages[k])

\* The file only grows, and the position of a filter does not matter.
LEMMA ChunkStays ==
  ASSUME NEW f, NEW h, f \subseteq h, NEW m, NEW n, NEW k, NEW pages, ChunkWritten(f, m, k, pages),
         n.locations = m.locations, n.dictionaryPageOffset = m.dictionaryPageOffset
  PROVE  ChunkWritten(h, n, k, pages)
  <1>1. Len(n.locations) = Len(pages)
    BY DEF ChunkWritten
  <1>2. ASSUME NEW j \in 1 .. Len(pages)
        PROVE  /\ DataAt(h, n.locations[j], pages[j])
               /\ n.locations[j].firstRow = Len(FlattenSeq(SubSeq(RowsOfPages(pages), 1, j - 1)))
               /\ pages[j].encoding = "RLE_DICTIONARY" =>
                    \E s \in h : /\ s.kind = "dictionary" /\ s.at = n.dictionaryPageOffset
                                 /\ ValuesOf(k, pages[j].rows) \subseteq s.values
    <2>1. DataAt(f, m.locations[j], pages[j])
      BY DEF ChunkWritten
    <2>2. DataAt(h, n.locations[j], pages[j])
      BY <2>1 DEF DataAt
    <2>3. n.locations[j].firstRow = Len(FlattenSeq(SubSeq(RowsOfPages(pages), 1, j - 1)))
      BY DEF ChunkWritten
    <2>4. pages[j].encoding = "RLE_DICTIONARY" =>
            \E s \in f : /\ s.kind = "dictionary" /\ s.at = m.dictionaryPageOffset
                         /\ ValuesOf(k, pages[j].rows) \subseteq s.values
      BY DEF ChunkWritten
    <2>5. pages[j].encoding = "RLE_DICTIONARY" =>
            \E s \in h : /\ s.kind = "dictionary" /\ s.at = n.dictionaryPageOffset
                         /\ ValuesOf(k, pages[j].rows) \subseteq s.values
      BY <2>4
    <2> QED BY <2>2, <2>3, <2>5
  <1> QED BY <1>1, <1>2 DEF ChunkWritten

\* So what was written stays written.
LEMMA RowGroupStays ==
  ASSUME NEW f, NEW h, f \subseteq h, NEW r, NEW t, RowGroupWritten(f, r), t.numRows = r.numRows,
         \A k \in Columns : /\ t.columns[k].locations = r.columns[k].locations
                            /\ t.columns[k].dictionaryPageOffset = r.columns[k].dictionaryPageOffset
  PROVE  RowGroupWritten(h, t)
  <1>1. PICK pages \in [Columns -> Seq(Page)] :
          \A k \in Columns :
            /\ ChunkWritten(f, r.columns[k], k, pages[k])
            /\ FlattenSeq(RowsOfPages(pages[k])) = FlattenSeq(RowsOfPages(pages[1]))
            /\ Len(FlattenSeq(RowsOfPages(pages[k]))) = r.numRows
            /\ r.numRows <= MaxRowsPerRowGroup
            /\ RowsAtATime => PagesSmall(k, pages[k])
    BY DEF RowGroupWritten
  <1>2. \A k \in Columns : ChunkWritten(h, t.columns[k], k, pages[k])
    BY <1>1, ChunkStays
  <1> QED BY <1>1, <1>2 DEF RowGroupWritten

\* The pages of a column go to the file where its metadata says.
LEMMA ColumnWritten ==
  ASSUME TypeOK, WriteColumnPages, Group \in Groups, Kept(cw[Group][pos], pos)
  PROVE  /\ ChunkWritten(file', meta'[pos], pos, cw[Group][pos].pages)
         /\ file \subseteq file'
         /\ \A k \in Columns : k # pos => meta'[k] = meta[k]
  <1> DEFINE c == cw[Group][pos]
             dict == pos \in DictionaryColumns
             base == IF dict THEN offset + HeaderSize + DictionaryBytes(c) ELSE offset
             m == meta'[pos]
  <1>1. pos \in Columns /\ c \in ColumnWriterState /\ meta \in [Columns -> ColumnChunk]
    BY ColumnsType DEF TypeOK
  <1>2. /\ file' = file \cup (IF dict THEN {DictionarySegment(c, offset)} ELSE {}) \cup DataSegments(c, base)
        /\ meta' = [meta EXCEPT ![pos] =
                      [@ EXCEPT !.dictionaryPageOffset = IF dict THEN offset ELSE 0,
                                !.dataPageOffset = IF c.pages = << >> THEN 0 ELSE base,
                                !.locations = Rebased(c.locations, base)]]
    BY DEF WriteColumnPages
  <1>3. Indexed(c) /\ Covered(c, pos)
    BY DEF Kept
  <1>4. /\ c.locations \in Seq(PageLocation) /\ c.pages \in Seq(Page)
        /\ Len(c.locations) = Len(c.pages)
    BY <1>1, <1>3 DEF ColumnWriterState, Indexed
  <1>5. offset \in Nat /\ HeaderSize \in Nat /\ DictionaryBytes(c) \in Nat
    BY <1>1, ColumnAssumption, DictionaryBytesType DEF TypeOK
  <1>6. base \in Nat
    <2> HIDE DEF c
    <2> QED BY <1>5
  <1> HIDE DEF c, base
  <1>7. /\ m.locations = Rebased(c.locations, base)
        /\ m.dictionaryPageOffset = IF dict THEN offset ELSE 0
        /\ \A k \in Columns : k # pos => meta'[k] = meta[k]
    BY <1>1, <1>2 DEF ColumnChunk
  <1> HIDE DEF m
  <1>8. Len(m.locations) = Len(c.pages)
    BY <1>4, <1>7 DEF Rebased
  <1>9. ASSUME NEW j \in 1 .. Len(c.pages)
        PROVE  /\ DataAt(file', m.locations[j], c.pages[j])
               /\ m.locations[j].firstRow = Len(FlattenSeq(SubSeq(RowsOfPages(c.pages), 1, j - 1)))
               /\ c.pages[j].encoding = "RLE_DICTIONARY" =>
                    \E s \in file' : /\ s.kind = "dictionary" /\ s.at = m.dictionaryPageOffset
                                     /\ ValuesOf(pos, c.pages[j].rows) \subseteq s.values
    <2> DEFINE l == c.locations[j]
               p == c.pages[j]
               s == [at |-> base + p.at, size |-> p.size, kind |-> "data", rows |-> p.rows,
                     encoding |-> p.encoding, values |-> {}]
    <2>1. l \in PageLocation /\ p \in Page /\ j \in 1 .. Len(c.locations)
      BY <1>4
    <2>2. /\ l.offset = p.at /\ l.size = p.size
          /\ l.firstRow = Len(FlattenSeq(SubSeq(RowsOfPages(c.pages), 1, j - 1)))
      BY <1>3 DEF Indexed, RowsOfPages, PageRows
    <2>3. m.locations[j] = [l EXCEPT !.offset = @ + base]
      BY <1>7, <2>1 DEF Rebased
    <2>4. s \in file'
      BY <1>2 DEF DataSegments
    <2>5. /\ p.encoding = "RLE_DICTIONARY" =>
               pos \in DictionaryColumns /\ ValuesOf(pos, p.rows) \subseteq c.dictionary
      BY <1>3 DEF Covered
    <2>6. /\ s.kind = "data" /\ s.at = base + p.at /\ s.size = p.size /\ s.rows = p.rows
          /\ s.encoding = p.encoding
      OBVIOUS
    <2> HIDE DEF l, p, s
    <2>7. /\ m.locations[j].offset = l.offset + base /\ m.locations[j].size = l.size
          /\ m.locations[j].firstRow = l.firstRow
      BY <2>1, <2>3 DEF PageLocation
    <2>8. s.at = m.locations[j].offset
      BY <1>6, <2>1, <2>2, <2>6, <2>7 DEF PageLocation
    <2>9. DataAt(file', m.locations[j], p)
      BY <2>2, <2>4, <2>6, <2>7, <2>8 DEF DataAt
    <2>10. p.encoding = "RLE_DICTIONARY" =>
             \E t \in file' : /\ t.kind = "dictionary" /\ t.at = m.dictionaryPageOffset
                              /\ ValuesOf(pos, p.rows) \subseteq t.values
      <3> SUFFICES ASSUME p.encoding = "RLE_DICTIONARY"
                   PROVE  \E t \in file' : /\ t.kind = "dictionary" /\ t.at = m.dictionaryPageOffset
                                           /\ ValuesOf(pos, p.rows) \subseteq t.values
        OBVIOUS
      <3> DEFINE t == DictionarySegment(c, offset)
      <3>1. t \in file' /\ m.dictionaryPageOffset = offset
        BY <1>2, <1>7, <2>5
      <3>2. t.kind = "dictionary" /\ t.at = offset /\ t.values = c.dictionary
        BY DEF DictionarySegment
      <3> HIDE DEF t
      <3> QED BY <2>5, <3>1, <3>2
    <2> QED BY <2>2, <2>7, <2>9, <2>10 DEF p
  <1>10. ChunkWritten(file', m, pos, c.pages)
    BY <1>8, <1>9 DEF ChunkWritten
  <1>11. file \subseteq file'
    BY <1>2
  <1> QED BY <1>7, <1>10, <1>11 DEF c, m

-----------------------------------------------------------------------------
(* The columns of the row group being written. *)

\* Once their pages are in the file, their metadata tells where.
CurrentWritten ==
  job # << >> =>
    \A k \in Columns :
      (phase \in {"bloom", "append"} \/ (phase = "pages" /\ k < pos)) =>
        ChunkWritten(file, meta[k], k, cw[Group][k].pages)

\* The loops and the metadata stand still.
LEMMA CurrentSame ==
  ASSUME CurrentWritten, UNCHANGED <<job, phase, pos>>, file \subseteq file',
         job # << >> => \A k \in Columns :
           /\ cw'[Group][k] = cw[Group][k]
           /\ meta'[k].locations = meta[k].locations
           /\ meta'[k].dictionaryPageOffset = meta[k].dictionaryPageOffset
  PROVE  CurrentWritten'
  <1> SUFFICES ASSUME job # << >>, NEW k \in Columns,
                      phase \in {"bloom", "append"} \/ (phase = "pages" /\ k < pos)
               PROVE  ChunkWritten(file', meta'[k], k, cw'[Group][k].pages)
    BY DEF CurrentWritten, Group
  <1>1. ChunkWritten(file, meta[k], k, cw[Group][k].pages)
    BY DEF CurrentWritten
  <1>2. ChunkWritten(file', meta'[k], k, cw[Group][k].pages)
    BY <1>1, ChunkStays
  <1> QED BY <1>2

\* The pages of one more column are written.
LEMMA CurrentPages ==
  ASSUME TypeOK, Control, \A g \in Groups : GroupKept(g), CurrentWritten, WriteColumnPages
  PROVE  CurrentWritten'
  <1>1. /\ job # << >> /\ phase = "pages" /\ UNCHANGED <<job, cw>> /\ NextColumnOr("bloom")
    BY DEF WriteColumnPages, InRowGroup, Running, rgVars
  <1>2. Group \in Groups /\ pos \in Columns
    BY <1>1, GroupColumn
  <1>3. Kept(cw[Group][pos], pos)
    BY <1>1, <1>2, WritingSound DEF Clear, GroupKept, ColumnKept
  <1>4. /\ ChunkWritten(file', meta'[pos], pos, cw[Group][pos].pages)
        /\ file \subseteq file'
        /\ \A k \in Columns : k # pos => meta'[k] = meta[k]
    BY <1>2, <1>3, ColumnWritten
  <1>5. \A k \in Columns : (k < pos \/ k = pos) => ChunkWritten(file', meta'[k], k, cw[Group][k].pages)
    <2> SUFFICES ASSUME NEW k \in Columns, k # pos, k < pos
                 PROVE  ChunkWritten(file', meta'[k], k, cw[Group][k].pages)
      BY <1>4
    <2>1. ChunkWritten(file, meta[k], k, cw[Group][k].pages)
      BY <1>1 DEF CurrentWritten
    <2> QED BY <1>4, <2>1, ChunkStays
  <1>6. ASSUME NEW k \in Columns, phase' \in {"bloom", "append"} \/ (phase' = "pages" /\ k < pos')
        PROVE  k < pos \/ k = pos
    BY <1>1, <1>6, LastColumn DEF NextColumnOr
  <1>7. Group' = Group /\ cw' = cw
    BY <1>1 DEF Group
  <1> QED BY <1>5, <1>6, <1>7 DEF CurrentWritten

\* The steps that write bloom filters keep the locations of the pages.
LEMMA CurrentBloom ==
  ASSUME TypeOK, CurrentWritten, NoBloomFilter \/ DeferBloomFilter \/ WriteBloomFilter
  PROVE  CurrentWritten'
  <1>1. /\ job # << >> /\ phase = "bloom" /\ UNCHANGED <<job, cw>>
    BY DEF NoBloomFilter, DeferBloomFilter, WriteBloomFilter, InRowGroup, Running, rgVars
  <1>2. file \subseteq file'
    BY DEF NoBloomFilter, DeferBloomFilter, WriteBloomFilter, Output, outVars
  <1>3. ASSUME NEW k \in Columns
        PROVE  /\ meta'[k].locations = meta[k].locations
               /\ meta'[k].dictionaryPageOffset = meta[k].dictionaryPageOffset
    <2>1. meta \in [Columns -> ColumnChunk] /\ meta[k] \in ColumnChunk
      BY DEF TypeOK
    <2>2. CASE UNCHANGED meta
      BY <2>2
    <2>3. CASE meta' = [meta EXCEPT ![pos] = [@ EXCEPT !.bloomFilterOffset = offset]]
      BY <2>1, <2>3 DEF ColumnChunk
    <2> QED BY <2>2, <2>3 DEF NoBloomFilter, DeferBloomFilter, WriteBloomFilter
  <1>4. ASSUME NEW k \in Columns
        PROVE  ChunkWritten(file', meta'[k], k, cw[Group][k].pages)
    BY <1>1, <1>2, <1>3, ChunkStays DEF CurrentWritten
  <1>5. Group' = Group /\ cw' = cw
    BY <1>1 DEF Group
  <1> QED BY <1>4, <1>5 DEF CurrentWritten

\* No step loses a page of the row group that is being written.
LEMMA CurrentWrittenStep ==
  ASSUME TypeOK, Control, [Next]_vars, \A g \in Groups : GroupKept(g), CurrentWritten
  PROVE  CurrentWritten'
  <1>1. CASE job' = << >> \/ phase' \notin {"pages", "bloom", "append"}
    BY <1>1 DEF CurrentWritten
  <1>2. CASE UNCHANGED allButPool
    BY <1>2, CurrentSame DEF allButPool, rgVars, mainVars, outVars
  <1>3. CASE ApplicationCall
    <2>1. ASSUME NEW g \in Groups, NEW n, NEW kind, WriteRows(g, n, kind) \/ FlushGroup(g)
          PROVE  CurrentWritten'
      BY <2>1, CurrentSame DEF WriteRows, FlushGroup, rgVars, mainVars, outVars
    <2>2. ASSUME NEW n, NEW kind, WriteRowGroup(n, kind)
          PROVE  phase' = "start"
      BY <2>2 DEF WriteRowGroup
    <2>3. ASSUME NEW jobs, Call(jobs)
          PROVE  phase' = "start"
      BY <2>3 DEF Call
    <2>4. Reset => phase' = "put"
      BY DEF Reset
    <2> QED BY <1>1, <1>3, <2>1, <2>2, <2>3, <2>4 DEF ApplicationCall, Commit, Flush, Close
  <1>4. ASSUME NEW h \in Groups, GroupStep(h)
        PROVE  CurrentWritten'
    <2>0. UNCHANGED <<meta, file>>
      BY <1>4 DEF GroupStep, NextChunk, GroupFull, WriteColumn, WriteColumnFails,
         FlushGroupColumn, FlushGroupColumnFails, mainVars, outVars
    <2>1. CASE job = << >> \/ phase = "start"
      BY <1>1, <1>4, <2>1, NoJob DEF GroupStep, NextChunk, GroupFull, WriteColumn, WriteColumnFails,
        FlushGroupColumn, FlushGroupColumnFails, mainVars
    <2>2. CASE job # << >> /\ phase # "start"
      BY <1>4, <2>0, <2>2, GroupStepElsewhere, OtherColumns, GroupColumn, CurrentSame
    <2> QED BY <2>1, <2>2
  <1>5. CASE MainStep
    <2>1. CASE FlushRowGroupColumn \/ StartRowGroup \/ FlushRowGroupColumnFails \/ FlushFilterPagesFails \/ WriteRowGroupFails
               \/ AppendRowGroup
      BY <1>1, <2>1 DEF FlushRowGroupColumn, StartRowGroup, FlushRowGroupColumnFails,
        FlushFilterPagesFails,
        WriteRowGroupFails, AppendRowGroup, NextColumnOr, InRowGroup
    <2>2. CASE ResetRowGroupColumn \/ DeferredBuffersReturned
      BY <1>1, <2>2 DEF ResetRowGroupColumn, DeferredBuffersReturned, NextColumnOr
    <2>3. CASE WriteHeader
      BY <2>3, LastColumn DEF WriteHeader, CurrentWritten
    <2>4. CASE WriteColumnPages
      BY <2>4, CurrentPages
    <2>5. CASE NoBloomFilter \/ DeferBloomFilter \/ WriteBloomFilter
      BY <2>5, CurrentBloom
    <2>6. CASE PutDeferredBuffer
      BY <2>6, CurrentSame DEF PutDeferredBuffer, rgVars, mainVars
    <2>7. CASE \/ SkipEmptyRowGroup \/ TooManyRowGroups \/ CloseColumn \/ CloseColumnFails \/ CloseHeader
               \/ WriteDeferredBloomFilter \/ DeferredBloomFiltersWritten \/ WriteFooter \/ CloseFails
               \/ LoadCopiedChunk \/ StartCopyRows \/ RowsCopied \/ CopyRowsFails
               \/ ReencodeBatch \/ ReencodeBatchFails \/ WriteRowGroupSourceFails
      <3>1. job # << >> /\ (phase = "start" \/ job[1].op \notin {"rowGroup", "reset", "deferred"})
        BY <2>7 DEF SkipEmptyRowGroup, TooManyRowGroups, CloseColumn, CloseColumnFails, CloseHeader,
           WriteDeferredBloomFilter, DeferredBloomFiltersWritten, WriteFooter, CloseFails,
           LoadCopiedChunk, StartCopyRows, RowsCopied, CopyRowsFails, Fail, ReencodeBatch,
           ReencodeBatchFails, WriteRowGroupSourceFails,
           InRowGroup, Running
      <3>2. phase = "start"
        BY <3>1 DEF Control, PhaseFits
      <3>3. phase' \in {phase, "put"}
        BY <2>7 DEF SkipEmptyRowGroup, TooManyRowGroups, CloseColumn, CloseColumnFails, CloseHeader,
           WriteDeferredBloomFilter, DeferredBloomFiltersWritten, WriteFooter, CloseFails,
           LoadCopiedChunk, StartCopyRows, RowsCopied, CopyRowsFails, Fail, ReencodeBatch,
           ReencodeBatchFails, WriteRowGroupSourceFails,
           mainVars
      <3> QED BY <1>1, <3>2, <3>3
    <2> QED BY <1>5, <2>1, <2>2, <2>3, <2>4, <2>5, <2>6, <2>7 DEF MainStep
  <1> QED BY <1>2, <1>3, <1>4, <1>5, NextCases

-----------------------------------------------------------------------------
(* The row groups of the file. *)

FileWritten == \A i \in 1 .. Len(rowGroups) : RowGroupWritten(file, rowGroups[i])

\* Few steps change the row groups, and the segments stay until Reset.
LEMMA FileGrows ==
  ASSUME [Next]_vars
  PROVE  /\ AppendRowGroup \/ WriteDeferredBloomFilter \/ DeferredBuffersReturned \/ UNCHANGED rowGroups
         /\ file \subseteq file' \/ (DeferredBuffersReturned /\ rowGroups' = << >>)
  <1>1. AppendRowGroup \/ WriteDeferredBloomFilter \/ DeferredBuffersReturned \/ UNCHANGED rowGroups
    <2>1. CASE UNCHANGED allButPool
      BY <2>1 DEF allButPool, outVars
    <2>2. CASE ApplicationCall
      BY <2>2 DEF ApplicationCall, WriteRows, WriteRowGroup, FlushGroup, Commit, Flush, Close,
                  Reset, Call, outVars
    <2>3. CASE MainStep
      BY <2>3 DEF MainStep, SkipEmptyRowGroup, TooManyRowGroups, StartRowGroup, WriteHeader,
                  WriteColumnPages, WriteBloomFilter, CloseHeader, WriteFooter,
                  FlushRowGroupColumn, FlushRowGroupColumnFails, FlushFilterPagesFails, NoBloomFilter,
                  DeferBloomFilter,
                  WriteRowGroupFails, ResetRowGroupColumn, CloseColumn,
                  CloseColumnFails, DeferredBloomFiltersWritten, PutDeferredBuffer, CloseFails,
                  LoadCopiedChunk, StartCopyRows, RowsCopied, CopyRowsFails, Fail, ReencodeBatch,
                  ReencodeBatchFails,
                  WriteRowGroupSourceFails, outVars
    <2>4. CASE \E g \in Groups : GroupStep(g)
      BY <2>4 DEF GroupStep, GroupFull, NextChunk, WriteColumn, WriteColumnFails,
                  FlushGroupColumn, FlushGroupColumnFails, outVars
    <2> QED BY <2>1, <2>2, <2>3, <2>4, NextCases
  <1>2. ASSUME OutputStep
        PROVE  file \subseteq file' \/ (DeferredBuffersReturned /\ rowGroups' = << >>)
    BY <1>2 DEF OutputStep, WriteHeader, WriteColumnPages, WriteBloomFilter, CloseHeader,
                WriteDeferredBloomFilter, WriteFooter, DeferredBuffersReturned, PutMagic, Output
  <1>3. UNCHANGED <<file, offset>> => file \subseteq file'
    OBVIOUS
  <1>4. OutputStep => file \subseteq file' \/ (DeferredBuffersReturned /\ rowGroups' = << >>)
    BY <1>2
  <1> QED BY <1>1, <1>3, <1>4, OutputUnchanged

\* No call is in progress on the row group that is written.
LEMMA WritingIdle ==
  ASSUME TypeOK, Control, job # << >>, job[1].op = "rowGroup"
  PROVE  chunk[Group] = << >> /\ ~OnColumnPath(Group)
  <1>1. Group \in Groups /\ 0 \in Groups
    BY GroupColumn DEF Groups
  <1>2. ~OnColumnPath(Group)
    BY ColumnPathJob DEF OnColumnPath
  <1>3. CASE Group = 0
    BY <1>2, <1>3, JobOps DEF Control, CallFits
  <1>4. CASE Group # 0
    <2>1. job = RowGroupJob(Group)
      BY <1>4, JobFirst DEF Control
    <2>2. pc[Group] = "idle"
      BY <1>1, <1>4, <2>1 DEF Control, CallFits
    <2>3. chunk[Group] = << >>
      BY <1>1, <2>2 DEF Control, CallFits
    <2> QED BY <1>2, <2>3
  <1> QED BY <1>3, <1>4

\* The columns of the row group that joins the file have the same rows, as many
\* as its metadata counts and no more than a row group may have.
LEMMA AppendedRows ==
  ASSUME TypeOK, Control, RowInv, CountInv, AppendRowGroup
  PROVE  /\ \A k \in Columns : EncodedRows(cw[Group][k]) = EncodedRows(cw[Group][1])
         /\ totalRowCount(cw[Group][1]) = Len(EncodedRows(cw[Group][1]))
         /\ totalRowCount(cw[Group][1]) <= MaxRowsPerRowGroup
  <1> DEFINE g == Group
  <1> SUFFICES /\ \A k \in Columns : EncodedRows(cw[g][k]) = EncodedRows(cw[g][1])
               /\ totalRowCount(cw[g][1]) = Len(EncodedRows(cw[g][1]))
               /\ totalRowCount(cw[g][1]) <= MaxRowsPerRowGroup
    OBVIOUS
  <1>1. job # << >> /\ phase = "append" /\ job[1].op = "rowGroup"
    BY DEF AppendRowGroup, InRowGroup, Running
  <1>2. g \in Groups /\ Sound(g) /\ ~InReset(g) /\ Clear(g)
    BY <1>1, WritingSound, GroupColumn DEF Clear
  <1>3. chunk[g] = << >> /\ ~OnColumnPath(g)
    BY <1>1, WritingIdle
  <1>4. \A k \in Columns : Buffered(cw[g][k]) = << >>
    BY <1>1 DEF RowInv, Flushed
  <1> HIDE DEF g
  <1>5. 1 \in Columns /\ NumColumns \in Columns
    BY LastColumn
  <1>6. \A k \in Columns : /\ cw[g][k] \in ColumnWriterState /\ EncodedRows(cw[g][k]) \in Seq(Row)
                           /\ Rows(g, k) = EncodedRows(cw[g][k])
    <2> TAKE k \in Columns
    <2>1. cw[g][k] \in ColumnWriterState
      BY <1>2, ColumnsType
    <2>2. EncodedRows(cw[g][k]) \in Seq(Row)
      BY <2>1, PageRowsType
    <2>3. \A s \in Seq(Row) : s \o << >> = s
      OBVIOUS
    <2>4. ColumnRows(cw[g][k]) = EncodedRows(cw[g][k]) \o << >>
      BY <1>4 DEF ColumnRows
    <2> QED BY <2>1, <2>2, <2>3, <2>4 DEF Rows
  <1>7. \A k \in Columns : Rows(g, k) = Rows(g, 1)
    <2> TAKE k \in Columns
    <2>1. Rows(g, k) \o Ahead(g, k) = Rows(g, 1) \o Ahead(g, 1)
      BY <1>2, <1>3 DEF RowInv, GroupAligned
    <2>2. Ahead(g, k) = << >> /\ Ahead(g, 1) = << >>
      BY <1>3 DEF Ahead
    <2>3. \A s \in Seq(Row) : s \o << >> = s
      OBVIOUS
    <2> QED BY <1>5, <1>6, <2>1, <2>2, <2>3
  <1>8. totalRowCount(cw[g][1]) = Len(EncodedRows(cw[g][1]))
    <2>1. cw[g][1].numRows = Len(EncodedRows(cw[g][1]))
      BY <1>2, <1>5, SoundFine DEF Fine, BuffersFit
    <2>2. Len(EncodedRows(cw[g][1])) \in Nat
      BY <1>5, <1>6
    <2>3. Len(Buffered(cw[g][1])) = 0
      BY <1>4, <1>5
    <2> QED BY <2>1, <2>2, <2>3 DEF totalRowCount
  <1>9. Len(Rows(g, NumColumns)) <= MaxRowsPerRowGroup
    <2>1. Counted(g) \/ (g = 0 /\ Staged)
      BY <1>2, <1>3 DEF CountInv, GroupCounted
    <2>2. CASE Counted(g)
      <3>1. Uncounted(g) = 0 /\ numRows[g] \in Nat
        BY <1>2, <1>3, CountNumbers
      <3>2. numRows[g] + Len(chunk[g]) <= MaxRowsPerRowGroup /\ Len(chunk[g]) = 0
        BY <1>2, <1>3 DEF CountInv, Limits
      <3>3. MaxRowsPerRowGroup \in Nat
        BY <1>2, CountNumbers
      <3> QED BY <2>2, <3>1, <3>2, <3>3 DEF Counted
    <2>3. CASE g = 0 /\ Staged
      BY <2>3 DEF Staged
    <2> QED BY <2>1, <2>2, <2>3
  <1>10. Rows(g, NumColumns) = EncodedRows(cw[g][1])
    BY <1>5, <1>6, <1>7
  <1>11. \A k \in Columns : EncodedRows(cw[g][k]) = EncodedRows(cw[g][1])
    BY <1>5, <1>6, <1>7
  <1> QED BY <1>8, <1>9, <1>10, <1>11

\* The row group that joins the file is in it.
LEMMA AppendedWritten ==
  ASSUME TypeOK, Control, RowInv, CountInv, CurrentWritten, AppendRowGroup,
         RowsAtATime => \A g \in Groups : GroupFits(g)
  PROVE  RowGroupWritten(file, [numRows |-> totalRowCount(cw[Group][1]), columns |-> meta])
  <1> DEFINE g == Group
             n == totalRowCount(cw[g][1])
             r == [numRows |-> n, columns |-> meta]
             pages == [k \in Columns |-> cw[g][k].pages]
  <1> SUFFICES RowGroupWritten(file, r)
    OBVIOUS
  <1>1. job # << >> /\ phase = "append" /\ g \in Groups /\ 1 \in Columns
    BY GroupColumn, LastColumn DEF AppendRowGroup, InRowGroup, Running
  <1>2. \A k \in Columns : ChunkWritten(file, meta[k], k, cw[g][k].pages)
    BY <1>1 DEF CurrentWritten
  <1>3. /\ \A k \in Columns : EncodedRows(cw[g][k]) = EncodedRows(cw[g][1])
        /\ n = Len(EncodedRows(cw[g][1]))
        /\ n <= MaxRowsPerRowGroup
    BY AppendedRows
  <1>9. Clear(g)
    BY <1>1, WritingSound DEF Clear, AppendRowGroup, InRowGroup, Running
  <1>10. RowsAtATime => \A k \in Columns : PagesSmall(k, cw[g][k].pages)
    BY <1>1, <1>9 DEF GroupFits, Fits
  <1> HIDE DEF g
  <1>4. pages \in [Columns -> Seq(Page)]
    <2>1. \A k \in Columns : cw[g][k].pages \in Seq(Page)
      <3> TAKE k \in Columns
      <3>1. cw[g][k] \in ColumnWriterState
        BY <1>1, ColumnsType
      <3> QED BY <3>1 DEF ColumnWriterState
    <2> QED BY <2>1
  <1>5. \A k \in Columns : pages[k] = cw[g][k].pages
    OBVIOUS
  <1>6. \A k \in Columns : FlattenSeq(RowsOfPages(pages[k])) = EncodedRows(cw[g][k])
    BY <1>5 DEF RowsOfPages, EncodedRows, PageRows
  <1>7. r.numRows = n /\ r.columns = meta
    OBVIOUS
  <1> HIDE DEF n, r, pages
  <1>8. ASSUME NEW k \in Columns
        PROVE  /\ ChunkWritten(file, r.columns[k], k, pages[k])
               /\ FlattenSeq(RowsOfPages(pages[k])) = FlattenSeq(RowsOfPages(pages[1]))
               /\ Len(FlattenSeq(RowsOfPages(pages[k]))) = r.numRows
               /\ r.numRows <= MaxRowsPerRowGroup
               /\ RowsAtATime => PagesSmall(k, pages[k])
    <2>1. ChunkWritten(file, r.columns[k], k, pages[k])
      BY <1>2, <1>5, <1>7
    <2>2. FlattenSeq(RowsOfPages(pages[k])) = EncodedRows(cw[g][1])
          /\ FlattenSeq(RowsOfPages(pages[1])) = EncodedRows(cw[g][1])
      BY <1>1, <1>3, <1>6
    <2>3. RowsAtATime => PagesSmall(k, pages[k])
      BY <1>5, <1>10
    <2> QED BY <1>3, <1>7, <2>1, <2>2, <2>3
  <1> QED BY <1>4, <1>8 DEF RowGroupWritten

\* No step disturbs the chunks the metadata already lists.
LEMMA FileWrittenStep ==
  ASSUME TypeOK, Control, RowInv, CountInv, [Next]_vars, CurrentWritten, FileWritten,
         RowsAtATime => \A g \in Groups : GroupFits(g)
  PROVE  FileWritten'
  <1>0. rowGroups \in Seq(RowGroup)
    BY DEF TypeOK
  <1>1. CASE UNCHANGED rowGroups /\ file \subseteq file'
    BY <1>1, RowGroupStays DEF FileWritten
  <1>2. CASE rowGroups' = << >>
    BY <1>2 DEF FileWritten
  <1>3. CASE AppendRowGroup
    <2> DEFINE r == [numRows |-> totalRowCount(cw[Group][1]), columns |-> meta]
    <2>1. rowGroups' = Append(rowGroups, r) /\ file' = file
      BY <1>3 DEF AppendRowGroup
    <2>2. RowGroupWritten(file, r)
      BY <1>3, AppendedWritten
    <2> HIDE DEF r
    <2>3. \A i \in 1 .. Len(rowGroups') : i \in 1 .. Len(rowGroups) \/ i = Len(rowGroups) + 1
      BY <1>0, <2>1
    <2>4. /\ \A i \in 1 .. Len(rowGroups) : rowGroups'[i] = rowGroups[i]
          /\ rowGroups'[Len(rowGroups) + 1] = r
      BY <1>0, <2>1
    <2> QED BY <2>1, <2>2, <2>3, <2>4 DEF FileWritten
  <1>4. CASE WriteDeferredBloomFilter
    <2> DEFINE d == deferred[done + 1]
    <2>1. /\ rowGroups' = [rowGroups EXCEPT ![d.group] = LocateFilter(@, d.column, offset)]
          /\ file \subseteq file'
      BY <1>4 DEF WriteDeferredBloomFilter, Output
    <2>2. Len(rowGroups') = Len(rowGroups)
      BY <1>0, <2>1
    <2>3. ASSUME NEW i \in 1 .. Len(rowGroups)
          PROVE  RowGroupWritten(file', rowGroups'[i])
      <3>0. rowGroups[i] \in RowGroup
        BY <1>0
      <3>1. rowGroups[i] \in RowGroup /\ rowGroups[i].columns \in [Columns -> ColumnChunk]
        BY <3>0 DEF RowGroup
      <3>2. rowGroups'[i] = rowGroups[i] \/ rowGroups'[i] = LocateFilter(rowGroups[i], d.column, offset)
        BY <1>0, <2>1
      <3> HIDE DEF d
      <3>3. CASE rowGroups'[i] = rowGroups[i]
        BY <2>1, <3>3, RowGroupStays DEF FileWritten
      <3>4. CASE rowGroups'[i] = LocateFilter(rowGroups[i], d.column, offset)
        <4> DEFINE r == rowGroups[i]
                   t == LocateFilter(r, d.column, offset)
                   located == [r.columns[d.column] EXCEPT !.bloomFilterOffset = offset]
                   columns == [r.columns EXCEPT ![d.column] = located]
        <4>1. t = [r EXCEPT !.columns = columns]
          BY DEF LocateFilter
        <4>2. t.numRows = r.numRows /\ t.columns = columns
          <5> HIDE DEF columns
          <5> QED BY <3>1, <4>1 DEF RowGroup
        <4>3. \A k \in Columns : columns[k] = r.columns[k] \/ (k = d.column /\ columns[k] = located)
          <5> HIDE DEF located
          <5> QED BY <3>1
        <4>4. \A k \in Columns : /\ columns[k].locations = r.columns[k].locations
                                 /\ columns[k].dictionaryPageOffset = r.columns[k].dictionaryPageOffset
          <5> TAKE k \in Columns
          <5>1. r.columns[k] \in ColumnChunk
            BY <3>1
          <5>2. k = d.column => /\ located.locations = r.columns[k].locations
                                /\ located.dictionaryPageOffset = r.columns[k].dictionaryPageOffset
            BY <5>1 DEF ColumnChunk
          <5> HIDE DEF located, columns
          <5> QED BY <4>3, <5>2
        <4>5. RowGroupWritten(file, r)
          BY DEF FileWritten
        <4> HIDE DEF r, t, columns
        <4>6. RowGroupWritten(file', t)
          BY <2>1, <4>2, <4>4, <4>5, RowGroupStays
        <4> QED BY <3>4, <4>6 DEF r, t
      <3> QED BY <3>2, <3>3, <3>4
    <2> QED BY <2>2, <2>3 DEF FileWritten
  <1>5. CASE DeferredBuffersReturned
    BY <1>1, <1>2, <1>5 DEF DeferredBuffersReturned
  <1> QED BY <1>1, <1>2, <1>3, <1>4, <1>5, FileGrows

-----------------------------------------------------------------------------
(* What a reader finds at the offsets of the metadata. *)

\* At a position of the file there is one segment.
LEMMA SegmentFound ==
  ASSUME TypeOK, FileInv, NEW s \in file
  PROVE  SegmentAt(s.at, s.kind) = s
  <1> DEFINE t == SegmentAt(s.at, s.kind)
  <1>1. t \in file /\ t.at = s.at /\ t.kind = s.kind
    BY DEF SegmentAt
  <1> HIDE DEF t
  <1>2. \A x \in file : x.at \in Nat /\ x.size \in Nat /\ x.size > 0
    BY DEF TypeOK, Segment, FileInv
  <1>3. s = t \/ s.at + s.size <= t.at \/ t.at + t.size <= s.at
    BY <1>1 DEF FileInv, SegmentsDisjoint
  <1>4. s = t
    BY <1>1, <1>2, <1>3
  <1> QED BY <1>4 DEF t

\* So a reader finds the pages of a chunk.
LEMMA PagesFound ==
  ASSUME TypeOK, FileInv, NEW i, NEW k, NEW pages \in Seq(Page), ChunkWritten(file, Chunk(i, k), k, pages)
  PROVE  /\ Len(Chunk(i, k).locations) = Len(pages) /\ DOMAIN PagesOf(i, k) = 1 .. Len(pages)
         /\ \A j \in 1 .. Len(pages) : /\ PagesOf(i, k)[j].rows = pages[j].rows
                                       /\ PagesOf(i, k)[j].encoding = pages[j].encoding
         /\ RowsOf(i, k) = FlattenSeq(RowsOfPages(pages))
         /\ \A j \in 1 .. Len(pages) :
              [m \in 1 .. j - 1 |-> PagesOf(i, k)[m].rows] = SubSeq(RowsOfPages(pages), 1, j - 1)
  <1> DEFINE found == PagesOf(i, k)
             locations == Chunk(i, k).locations
  <1>1. Len(locations) = Len(pages) /\ Len(pages) \in Nat
    BY DEF ChunkWritten
  <1>2. /\ DOMAIN found = 1 .. Len(pages)
        /\ \A j \in 1 .. Len(pages) : found[j] = SegmentAt(locations[j].offset, "data")
    BY <1>1 DEF PagesOf
  <1>3. ASSUME NEW j \in 1 .. Len(pages)
        PROVE  found[j].rows = pages[j].rows /\ found[j].encoding = pages[j].encoding
    <2>1. PICK s \in file : /\ s.kind = "data" /\ s.at = locations[j].offset
                            /\ s.rows = pages[j].rows /\ s.encoding = pages[j].encoding
      BY DEF ChunkWritten, DataAt
    <2>2. SegmentAt(s.at, s.kind) = s
      BY SegmentFound
    <2>3. found[j] = s
      BY <1>2, <2>1, <2>2
    <2> QED BY <2>1, <2>3
  <1>4. [j \in DOMAIN found |-> found[j].rows] = RowsOfPages(pages)
    <2> HIDE DEF found
    <2> QED BY <1>2, <1>3 DEF RowsOfPages
  <1>5. RowsOf(i, k) = FlattenSeq(RowsOfPages(pages))
    BY <1>4 DEF RowsOf
  <1>6. ASSUME NEW j \in 1 .. Len(pages)
        PROVE  [m \in 1 .. j - 1 |-> found[m].rows] = SubSeq(RowsOfPages(pages), 1, j - 1)
    <2> DEFINE r == RowsOfPages(pages)
    <2> HIDE DEF found
    <2>1. \A m \in 1 .. Len(pages) : r[m] = found[m].rows
      BY <1>3 DEF RowsOfPages
    <2>2. 1 .. j - 1 \subseteq 1 .. Len(pages)
      BY <1>1
    <2>3. SubSeq(r, 1, j - 1) = [m \in 1 .. j - 1 |-> r[m]]
      <3> HIDE DEF r
      <3> QED BY <1>1
    <2> HIDE DEF r
    <2>4. SubSeq(r, 1, j - 1) = [m \in 1 .. j - 1 |-> found[m].rows]
      BY <2>1, <2>2, <2>3
    <2> QED BY <2>4 DEF r
  <1> QED BY <1>1, <1>2, <1>3, <1>5, <1>6

\* The metadata of the row groups is exact.
LEMMA FileCorrect ==
  ASSUME TypeOK, FileInv, FileWritten
  PROVE  LocationsExact /\ ColumnsAligned /\ DictionaryCovers
  <1> SUFFICES ASSUME NEW i \in 1 .. Len(rowGroups), NEW k \in Columns
               PROVE  /\ \A j \in 1 .. Len(Chunk(i, k).locations) :
                           /\ \E s \in file : s.kind = "data" /\ s.at = Chunk(i, k).locations[j].offset
                                              /\ s.size = Chunk(i, k).locations[j].size
                           /\ Chunk(i, k).locations[j].firstRow =
                                Len(FlattenSeq([m \in 1 .. j - 1 |-> PagesOf(i, k)[m].rows]))
                      /\ RowsOf(i, k) = RowsOf(i, 1) /\ Len(RowsOf(i, k)) = rowGroups[i].numRows
                      /\ \A j \in DOMAIN PagesOf(i, k) :
                           PagesOf(i, k)[j].encoding = "RLE_DICTIONARY" =>
                             /\ \E s \in file : s.kind = "dictionary" /\ s.at = Chunk(i, k).dictionaryPageOffset
                             /\ ValuesOf(k, PagesOf(i, k)[j].rows)
                                  \subseteq SegmentAt(Chunk(i, k).dictionaryPageOffset, "dictionary").values
    BY DEF LocationsExact, ColumnsAligned, DictionaryCovers
  <1>1. PICK pages \in [Columns -> Seq(Page)] :
          \A m \in Columns :
            /\ ChunkWritten(file, Chunk(i, m), m, pages[m])
            /\ FlattenSeq(RowsOfPages(pages[m])) = FlattenSeq(RowsOfPages(pages[1]))
            /\ Len(FlattenSeq(RowsOfPages(pages[m]))) = rowGroups[i].numRows
    BY DEF FileWritten, RowGroupWritten, Chunk
  <1>2. 1 \in Columns
    BY LastColumn
  <1>3. \A m \in Columns : pages[m] \in Seq(Page) /\ RowsOf(i, m) = FlattenSeq(RowsOfPages(pages[m]))
    BY <1>1, PagesFound
  <1>4. RowsOf(i, k) = RowsOf(i, 1) /\ Len(RowsOf(i, k)) = rowGroups[i].numRows
    BY <1>1, <1>2, <1>3
  <1> DEFINE c == Chunk(i, k)
             p == pages[k]
             found == PagesOf(i, k)
  <1>5. /\ ChunkWritten(file, c, k, p) /\ p \in Seq(Page)
        /\ Len(c.locations) = Len(p) /\ DOMAIN found = 1 .. Len(p)
        /\ \A j \in 1 .. Len(p) :
             /\ found[j].rows = p[j].rows /\ found[j].encoding = p[j].encoding
             /\ [m \in 1 .. j - 1 |-> found[m].rows] = SubSeq(RowsOfPages(p), 1, j - 1)
    BY <1>1, <1>3, PagesFound
  <1> HIDE DEF p
  <1>6. ASSUME NEW j \in 1 .. Len(p)
        PROVE  /\ \E s \in file : s.kind = "data" /\ s.at = c.locations[j].offset
                                                  /\ s.size = c.locations[j].size
               /\ c.locations[j].firstRow = Len(FlattenSeq([m \in 1 .. j - 1 |-> found[m].rows]))
    <2>1. /\ DataAt(file, c.locations[j], p[j])
          /\ c.locations[j].firstRow = Len(FlattenSeq(SubSeq(RowsOfPages(p), 1, j - 1)))
      BY <1>5 DEF ChunkWritten
    <2>2. \E s \in file : s.kind = "data" /\ s.at = c.locations[j].offset /\ s.size = c.locations[j].size
      BY <2>1 DEF DataAt
    <2>3. [m \in 1 .. j - 1 |-> found[m].rows] = SubSeq(RowsOfPages(p), 1, j - 1)
      BY <1>5
    <2> HIDE DEF c, found
    <2> QED BY <2>1, <2>2, <2>3
  <1>7. ASSUME NEW j \in 1 .. Len(p), found[j].encoding = "RLE_DICTIONARY"
        PROVE  /\ \E s \in file : s.kind = "dictionary" /\ s.at = c.dictionaryPageOffset
               /\ ValuesOf(k, found[j].rows) \subseteq SegmentAt(c.dictionaryPageOffset, "dictionary").values
    <2>1. found[j].rows = p[j].rows /\ p[j].encoding = "RLE_DICTIONARY"
      BY <1>5, <1>7
    <2>2. PICK s \in file : /\ s.kind = "dictionary" /\ s.at = c.dictionaryPageOffset
                            /\ ValuesOf(k, p[j].rows) \subseteq s.values
      BY <1>5, <2>1 DEF ChunkWritten
    <2>3. SegmentAt(s.at, s.kind) = s
      BY SegmentFound
    <2> HIDE DEF c, found
    <2> QED BY <2>1, <2>2, <2>3
  <1> QED BY <1>4, <1>5, <1>6, <1>7

\* So is what it says of sizes.
LEMMA SizesFit ==
  ASSUME RowsAtATime, TypeOK, Control, FileInv, FileWritten
  PROVE  SizeLimits
  <1>1. Len(rowGroups) <= MaxRowGroups
    BY DEF Control, RoomFits
  <1>2. ASSUME NEW i \in 1 .. Len(rowGroups)
        PROVE  /\ rowGroups[i].numRows <= MaxRowsPerRowGroup
               /\ \A k \in Columns : \A j \in DOMAIN PagesOf(i, k) :
                    Len(PagesOf(i, k)[j].rows) < BufferSize[k] + maxRowsPerWrite
    <2>1. PICK pages \in [Columns -> Seq(Page)] :
            \A k \in Columns : /\ ChunkWritten(file, Chunk(i, k), k, pages[k])
                               /\ rowGroups[i].numRows <= MaxRowsPerRowGroup
                               /\ PagesSmall(k, pages[k])
      BY DEF FileWritten, RowGroupWritten, Chunk
    <2>2. 1 \in Columns
      BY LastColumn
    <2>3. ASSUME NEW k \in Columns, NEW j \in DOMAIN PagesOf(i, k)
          PROVE  Len(PagesOf(i, k)[j].rows) < BufferSize[k] + maxRowsPerWrite
      <3>1. pages[k] \in Seq(Page) /\ ChunkWritten(file, Chunk(i, k), k, pages[k])
        BY <2>1
      <3>2. j \in 1 .. Len(pages[k]) /\ PagesOf(i, k)[j].rows = pages[k][j].rows
        BY <3>1, PagesFound
      <3>3. Len(pages[k][j].rows) < BufferSize[k] + maxRowsPerWrite
        BY <2>1, <3>2 DEF PagesSmall
      <3> QED BY <3>2, <3>3
    <2> QED BY <2>1, <2>2, <2>3
  <1> QED BY <1>1, <1>2 DEF SizeLimits

-----------------------------------------------------------------------------
(* The theorems. *)

ContentInv ==
  /\ TypeOK /\ Control /\ RowInv /\ CountInv /\ FileInv
  /\ \A g \in Groups : GroupKept(g)
  /\ RowsAtATime => NoColumnPath /\ \A g \in Groups : GroupFits(g)
  /\ CurrentWritten /\ FileWritten

\* A new writer has an empty file.
LEMMA ContentInit ==
  ASSUME Init
  PROVE  ContentInv
  <1>1. TypeOK /\ Control /\ RowInv /\ CountInv /\ \A g \in Groups : GroupKept(g)
    BY TypeInit, ControlInit, RowInvInit, CountInvInit, GroupKeptInit
  <1>2. FileInv
    BY FileInit
  <1>3. CurrentWritten /\ FileWritten
    BY DEF Init, CurrentWritten, FileWritten
  <1>4. NoColumnPath /\ \A g \in Groups : GroupFits(g)
    BY GroupFitsInit
  <1> QED BY <1>1, <1>2, <1>3, <1>4 DEF ContentInv

\* No step breaks the invariant of the content.
LEMMA ContentStep ==
  ASSUME FallbackOrReset, OneKindOfWrite, ContentInv, [Next]_vars
  PROVE  ContentInv'
  <1>1. TypeOK' /\ Control'
    BY TypeStep, ControlStep DEF ContentInv
  <1>2. RowInv' /\ CountInv' /\ FileInv'
    BY <1>1, RowInvStep, CountInvStep, FileStep DEF ContentInv
  <1>3. \A g \in Groups : GroupKept(g)'
    BY <1>1, GroupKeptStep DEF ContentInv
  <1>4. CurrentWritten' /\ FileWritten'
    BY CurrentWrittenStep, FileWrittenStep DEF ContentInv
  <1>5. RowsAtATime => NoColumnPath' /\ \A g \in Groups : GroupFits(g)'
    BY <1>1, NoColumnPathStep, GroupFitsStep DEF ContentInv, CountInv
  <1> QED BY <1>1, <1>2, <1>3, <1>4, <1>5 DEF ContentInv

\* The content of the file is right in every state of every behaviour.
LEMMA ContentHolds ==
  ASSUME FallbackOrReset, OneKindOfWrite
  PROVE  Spec => []ContentInv
  <1>1. Init => ContentInv
    BY ContentInit
  <1>2. ContentInv /\ [Next]_vars => ContentInv'
    BY ContentStep
  <1> QED BY <1>1, <1>2, PTL DEF Spec

\* In every behaviour of the writer each page location of each row group in the
\* metadata is exactly a data page of the file, with the number of rows before
\* it, whatever fails, whichever path the rows came on and whatever fell back.
THEOREM LocationsCorrect ==
  ASSUME FallbackOrReset, OneKindOfWrite
  PROVE  Spec => []LocationsExact
  <1>1. ContentInv => LocationsExact
    BY FileCorrect DEF ContentInv
  <1> QED BY <1>1, ContentHolds, PTL

\* In every behaviour a reader finds the same rows in all the columns of a row
\* group, and as many as its metadata says.
THEOREM ColumnsAlignedCorrect ==
  ASSUME FallbackOrReset, OneKindOfWrite
  PROVE  Spec => []ColumnsAligned
  <1>1. ContentInv => ColumnsAligned
    BY FileCorrect DEF ContentInv
  <1> QED BY <1>1, ContentHolds, PTL

\* In every behaviour the dictionary page of a column chunk has all the values
\* that its pages refer to, although it grows after they were encoded.
THEOREM DictionaryCorrect ==
  ASSUME FallbackOrReset, OneKindOfWrite
  PROVE  Spec => []DictionaryCovers
  <1>1. ContentInv => DictionaryCovers
    BY FileCorrect DEF ContentInv
  <1> QED BY <1>1, ContentHolds, PTL

\* In every behaviour the file keeps to the number of row groups, a row group to
\* the number of rows, and a page passes its size by less than one write, unless
\* row groups are copied or re-encoded column by column.
THEOREM SizesCorrect ==
  ASSUME FallbackOrReset, OneKindOfWrite, RowsAtATime
  PROVE  Spec => []SizeLimits
  <1>1. ContentInv => SizeLimits
    BY SizesFit DEF ContentInv
  <1> QED BY <1>1, ContentHolds, PTL

-----------------------------------------------------------------------------
(* The bloom filters of the columns under construction. *)

\* The filter of a dictionary column is made from its dictionary, which a
\* fallback to PLAIN leaves behind.
NoFilterFallback == DictionaryMaxBytes = 0 \/ FilterColumns \cap DictionaryColumns = {}

\* A filter that was sized beforehand has the values of the pages, or else the
\* dictionary has them, or the page buffer from which they can be read back.
Filtered(c, k) ==
  /\ c.filter.allocated => k \in FilterColumns
  /\ (c.filter.allocated /\ (k \notin DictionaryColumns \/ c.copied)) =>
       ValuesOf(k, EncodedRows(c)) \subseteq c.filter.values
  /\ (c.copied /\ k \in FilterColumns) => c.filter.allocated
  /\ (k \in DictionaryColumns /\ DictionaryMaxBytes = 0) => ValuesOf(k, EncodedRows(c)) \subseteq c.dictionary
  /\ (EncodedRows(c) # << >> /\ ~c.copied) => c.pageBuffer # 0

GroupFiltered(g) == Clear(g) => \A k \in Columns : Filtered(cw[g][k], k)

\* CopyRows finds no rows, so its filters are sized before the first.
OpaqueEmpty == (job = OnPath("opaque") /\ Sound(0)) => \A k \in Columns : Rows(0, k) = << >>

\* The filter of a column that is flushed has the values of all its rows.
Complete(c, k) ==
  /\ c.filter.allocated <=> k \in FilterColumns
  /\ k \in FilterColumns => ValuesOf(k, EncodedRows(c)) \subseteq c.filter.values

Writing == job # << >> /\ phase \in {"flush", "header", "pages", "bloom", "append"}

FiltersComplete ==
  Writing =>
    /\ Rows(Group, 1) # << >>
    /\ \A k \in Columns : (phase # "flush" \/ k < pos) => Complete(cw[Group][k], k)

-----------------------------------------------------------------------------
(* Where the filters go. *)

\* The loop over the filters of a row group has passed column k.
Bloomed(k) == job # << >> /\ (phase = "append" \/ (phase = "bloom" /\ k < pos))

\* Metadata that locates a filter is that of a row group being written, until it
\* is reset.
MetaClean ==
  \A k \in Columns : meta[k].bloomFilterOffset # 0 =>
    Bloomed(k) \/ (job # << >> /\ phase \in {"reset", "abort"} /\ pos <= k)

\* The filter of column k may be deferred although its row group is not in the file.
Early(k) == Bloomed(k) \/ (job # << >> /\ phase = "abort") \/ status = "failed" \/ job = ResetJob
DeferredFits ==
  \A j \in 1 .. Len(deferred) :
    \/ deferred[j].group \in 1 .. Len(rowGroups)
    \/ deferred[j].group = RowGroupIndex /\ Early(deferred[j].column)

\* A filter is never at position 0, where the header is.
HeaderWritten ==
  (job # << >> /\ (phase \in {"pages", "bloom", "append"} \/ job \in {CloseJob3, CloseJob4, CloseJob5}))
     => offset # 0

\* Close writes the deferred filters from the first to the last, and they are
\* gone when it ends.
CloseOrder ==
  /\ job \in {CloseJob, CloseJob2, CloseJob3} => done = 0
  /\ (job = CloseJob4 /\ phase = "start") => done <= Len(deferred)
  /\ job = DeferredJob => status = "failed"
  /\ (job = CloseJob5 \/ status = "closed") => deferred = << >>
  /\ (job = ResetJob /\ phase = "reset") => deferred = << >> /\ rowGroups = << >>

FilterControl == MetaClean /\ DeferredFits /\ HeaderWritten /\ CloseOrder

\* The segments f have a filter at the position, with the values.
FilterAt(f, at, values) == \E s \in f : s.kind = "bloom" /\ s.at = at /\ values \subseteq s.values

\* Those of the deferred filters ds that are of column k in row group i.
Deferred(ds, i, k) == {j \in 1 .. Len(ds) : ds[j].group = i /\ ds[j].column = k}

\* The filters of column k in row group i, with metadata m, have the values, the
\* one in the segments f as well as the deferred ones.
FiltersHave(f, ds, i, m, k, values) ==
  /\ m.bloomFilterOffset # 0 => FilterAt(f, m.bloomFilterOffset, values)
  /\ \A j \in Deferred(ds, i, k) : values \subseteq ds[j].values

CurrentFiltered ==
  \A k \in Columns : Bloomed(k) =>
    /\ FiltersHave(file, deferred, RowGroupIndex, meta[k], k, ValuesOf(k, EncodedRows(cw[Group][k])))
    /\ k \in FilterColumns => meta[k].bloomFilterOffset # 0 \/ Deferred(deferred, RowGroupIndex, k) # {}

FileFiltered ==
  \A i \in 1 .. Len(rowGroups), k \in Columns :
    \E pages \in Seq(Page) :
      /\ ChunkWritten(file, rowGroups[i].columns[k], k, pages)
      /\ FiltersHave(file, deferred, i, rowGroups[i].columns[k], k, ValuesOf(k, FlattenSeq(RowsOfPages(pages))))

\* The first deferred filters that are in the file.
Located == IF job = CloseJob4 THEN IF phase = "start" THEN done ELSE Len(deferred) ELSE 0

\* The file is not given up.
Live == status = "closed" \/ (status = "open" /\ job # ResetJob)

FileLocated ==
  Live => \A i \in 1 .. Len(rowGroups) : \A k \in FilterColumns :
    rowGroups[i].columns[k].bloomFilterOffset # 0 \/ \E j \in Deferred(deferred, i, k) : j > Located

FilterInv ==
  /\ \A g \in Groups : GroupFiltered(g)
  /\ OpaqueEmpty /\ FiltersComplete
  /\ FilterControl /\ CurrentFiltered /\ FileFiltered /\ FileLocated

\* The values of rows.
LEMMA ValuesOfParts ==
  ASSUME NEW k \in Columns
  PROVE  /\ ValuesOf(k, << >>) = {}
         /\ \A s, t \in Seq(Row) : ValuesOf(k, s \o t) = ValuesOf(k, s) \cup ValuesOf(k, t)
  <1>1. ValuesOf(k, << >>) = {}
    BY DEF ValuesOf
  <1>2. ASSUME NEW s \in Seq(Row), NEW t \in Seq(Row)
        PROVE  ValuesOf(k, s \o t) = ValuesOf(k, s) \cup ValuesOf(k, t)
    <2>1. /\ Len(s \o t) = Len(s) + Len(t) /\ Len(s) \in Nat /\ Len(t) \in Nat
          /\ \A i \in 1 .. Len(s) : (s \o t)[i] = s[i]
          /\ \A i \in 1 .. Len(t) : (s \o t)[Len(s) + i] = t[i]
      OBVIOUS
    <2>2. ASSUME NEW i \in 1 .. Len(s \o t)
          PROVE  i \in 1 .. Len(s) \/ (i - Len(s) \in 1 .. Len(t) /\ (s \o t)[i] = t[i - Len(s)])
      BY <2>1
    <2>3. ValuesOf(k, s \o t) \subseteq ValuesOf(k, s) \cup ValuesOf(k, t)
      BY <2>1, <2>2 DEF ValuesOf
    <2>4. ValuesOf(k, s) \subseteq ValuesOf(k, s \o t)
      BY <2>1 DEF ValuesOf
    <2>5. ValuesOf(k, t) \subseteq ValuesOf(k, s \o t)
      BY <2>1 DEF ValuesOf
    <2> QED BY <2>3, <2>4, <2>5
  <1> QED BY <1>1, <1>2

\* The values of the rows of all the pages.
LEMMA ValuesOfPages ==
  ASSUME NEW c \in ColumnWriterState, NEW k \in Columns
  PROVE  ValuesOf(k, EncodedRows(c)) \subseteq UNION { ValuesOf(k, c.pages[i].rows) : i \in 1 .. Len(c.pages) }
  <1> DEFINE V == UNION { ValuesOf(k, c.pages[i].rows) : i \in 1 .. Len(c.pages) }
             U == {r \in Row : ValueOf(k, r) \in V}
  <1>1. /\ PageRows(c) \in Seq(Seq(Row)) /\ Len(PageRows(c)) = Len(c.pages)
        /\ \A i \in 1 .. Len(c.pages) : PageRows(c)[i] = c.pages[i].rows /\ c.pages[i].rows \in Seq(Row)
    BY PageRowsType DEF PageRows
  <1>2. ASSUME NEW i \in 1 .. Len(PageRows(c)), NEW j \in 1 .. Len(PageRows(c)[i])
        PROVE  PageRows(c)[i][j] \in U
    <2> DEFINE rows == c.pages[i].rows
    <2>1. rows \in Seq(Row) /\ j \in 1 .. Len(rows) /\ PageRows(c)[i] = rows /\ i \in 1 .. Len(c.pages)
      BY <1>1
    <2>2. rows[j] \in Row /\ ValueOf(k, rows[j]) \in ValuesOf(k, rows)
      BY <2>1 DEF ValuesOf
    <2>3. ValuesOf(k, rows) \subseteq V
      BY <2>1
    <2> QED BY <2>1, <2>2, <2>3
  <1> HIDE DEF U
  <1>3. \A j \in 1 .. Len(EncodedRows(c)) : EncodedRows(c)[j] \in U
    BY <1>1, <1>2, FlattenSeqElements DEF EncodedRows
  <1>4. \A j \in 1 .. Len(EncodedRows(c)) : ValueOf(k, EncodedRows(c)[j]) \in V
    BY <1>3 DEF U
  <1> HIDE DEF V
  <1>5. ValuesOf(k, EncodedRows(c)) \subseteq V
    BY <1>4 DEF ValuesOf
  <1> QED BY <1>5 DEF V

\* A column without rows.
LEMMA EmptyFiltered ==
  ASSUME NEW c \in ColumnWriterState, NEW k \in Columns, EncodedRows(c) = << >>, ~c.copied,
         c.filter.allocated => k \in FilterColumns
  PROVE  Filtered(c, k)
  BY ValuesOfParts DEF Filtered

\* An empty column has nothing to filter.
LEMMA BlankFiltered ==
  ASSUME NEW c \in ColumnWriterState, NEW k \in Columns, Blank(c)
  PROVE  Filtered(c, k)
  BY BlankRows, EmptyFiltered DEF Blank, NoFilter

\* A filter that is sized for a column without rows.
LEMMA ResizeFiltered ==
  ASSUME NEW c \in ColumnWriterState, NEW k \in FilterColumns, EncodedRows(c) = << >>, ~c.copied
  PROVE  Filtered(resizeBloomFilter(c), k)
  <1> DEFINE d == resizeBloomFilter(c)
  <1>1. k \in Columns
    BY ColumnAssumption
  <1>2. SameButFilter(c, d) /\ d \in ColumnWriterState
    BY <1>1, FilterRows, FilterType
  <1> HIDE DEF d
  <1>3. EncodedRows(d) = << >> /\ d.copied = c.copied
    BY <1>1, <1>2, SameButFilterSame DEF SameButFilter, SamePages
  <1>4. Filtered(d, k)
    BY <1>1, <1>2, <1>3, EmptyFiltered
  <1> QED BY <1>4 DEF d

\* What new rows keep.
LEMMA WriteFiltered ==
  ASSUME NEW c \in ColumnWriterState, NEW k \in Columns, NEW rows \in Seq(Row), Fine(c), Filtered(c, k)
  PROVE  Filtered(WriteValues(c, k, rows), k)
  <1> DEFINE d == WriteValues(c, k, rows)
  <1>1. EncodedRows(d) = EncodedRows(c) /\ d.filter = c.filter /\ d.copied = c.copied
    BY WriteValuesRows DEF Fine, SamePages
  <1>2. d.pageBuffer = c.pageBuffer
    BY WriteValuesType
  <1>3. c.dictionary \subseteq d.dictionary
    BY DEF WriteValues, ColumnWriterState
  <1> HIDE DEF d
  <1>4. Filtered(d, k)
    BY <1>1, <1>2, <1>3 DEF Filtered
  <1> QED BY <1>4 DEF d

\* A buffer installed in place of an empty one.
LEMMA NewBufferFiltered ==
  ASSUME NEW c \in ColumnWriterState, NEW k \in Columns, Fine(c), Buffered(c) = << >>, Filtered(c, k)
  PROVE  Filtered(newColumnBuffer(c), k)
  <1> DEFINE d == newColumnBuffer(c)
  <1>1. EncodedRows(d) = EncodedRows(c) /\ d.copied = c.copied
    BY NewColumnBufferRows DEF Fine
  <1>2. d.pageBuffer = c.pageBuffer
    BY NewColumnBufferType
  <1>3. d.dictionary = c.dictionary /\ d.filter = c.filter
    BY DEF newColumnBuffer, ColumnWriterState
  <1> HIDE DEF d
  <1>4. Filtered(d, k)
    BY <1>1, <1>2, <1>3 DEF Filtered
  <1> QED BY <1>4 DEF d

\* A page of a column without a dictionary is in the filter, if there is one.
LEMMA PageFiltered ==
  ASSUME NEW c \in ColumnWriterState, NEW k \in Columns, NEW rows \in Seq(Row),
         NEW f, f = writePageToFilter(c, k, rows)
  PROVE  /\ f.allocated = c.filter.allocated /\ c.filter.values \subseteq f.values
         /\ (f.allocated /\ k \notin DictionaryColumns) => ValuesOf(k, rows) \subseteq f.values
  <1>1. c.filter \in Filter
    BY DEF ColumnWriterState
  <1>2. CASE c.filter.allocated /\ PageEncoding(c, k) = "PLAIN"
    BY <1>1, <1>2 DEF writePageToFilter, Filter
  <1>3. CASE ~(c.filter.allocated /\ PageEncoding(c, k) = "PLAIN")
    BY <1>3 DEF writePageToFilter, PageEncoding
  <1> QED BY <1>2, <1>3

\* What the flush of a page makes of the filter and the dictionary.
LEMMA FlushedFields ==
  ASSUME NEW c \in ColumnWriterState, NEW k \in Columns, NEW id \in Nat, Buffered(c) # << >>
  PROVE  LET d == FlushColumn(c, k, id)
         IN  d.filter = writePageToFilter(c, k, Buffered(c)) /\ d.dictionary = c.dictionary
  <1> DEFINE written == writeDataPage(c, k, Buffered(c), id)
             emptied == ResetBuffer(written)
             d == FlushColumn(c, k, id)
  <1>1. Buffered(c) \in Seq(Row)
    BY BufferedType
  <1>2. /\ written \in ColumnWriterState
        /\ written.filter = writePageToFilter(c, k, Buffered(c)) /\ written.dictionary = c.dictionary
    BY <1>1, WriteDataPageType, WriteDataPageFields
  <1> HIDE DEF written
  <1>3. /\ emptied \in ColumnWriterState
        /\ emptied.filter = written.filter /\ emptied.dictionary = written.dictionary
    BY <1>2, ResetBufferType, ResetBufferRows
  <1>4. d = emptied \/ d = fallbackDictionaryToPlain(emptied)
    BY DEF FlushColumn, written
  <1> HIDE DEF emptied
  <1>5. d.filter = emptied.filter /\ d.dictionary = emptied.dictionary
    BY <1>3, <1>4 DEF fallbackDictionaryToPlain, ColumnWriterState
  <1> QED BY <1>2, <1>3, <1>5

\* The dictionary has the values of the current buffer, unless it fell back.
LEMMA BufferCovered ==
  ASSUME NEW c \in ColumnWriterState, NEW k \in DictionaryColumns, DictionaryMaxBytes = 0,
         BuffersFit(c), Covered(c, k)
  PROVE  ValuesOf(k, Buffered(c)) \subseteq c.dictionary
  <1>0. k \in Columns
    BY ColumnAssumption
  <1>1. c.columnBuffer # "plain"
    BY DEF BuffersFit
  <1>2. CASE c.columnBuffer = "original"
    BY <1>2 DEF Covered, Buffered
  <1>3. CASE c.columnBuffer # "original"
    BY <1>0, <1>1, <1>3, ValuesOfParts DEF Buffered
  <1> QED BY <1>2, <1>3

\* A flush carries over what a filter sized beforehand had, and adds the rows of its page.
LEMMA FlushFiltered ==
  ASSUME NEW c \in ColumnWriterState, NEW k \in Columns, NEW id \in Nat,
         NeedsPageBuffer(c) => id # 0, Fine(c), Kept(c, k), Filtered(c, k)
  PROVE  Filtered(FlushColumn(c, k, id), k)
  <1> DEFINE d == FlushColumn(c, k, id)
  <1>1. CASE Buffered(c) = << >>
    BY <1>1 DEF FlushColumn
  <1>2. CASE Buffered(c) # << >>
    <2>1. ~c.copied /\ Buffered(c) \in Seq(Row) /\ EncodedRows(c) \in Seq(Row)
      BY <1>2, BufferedType, PageRowsType DEF Kept
    <2>2. d.filter = writePageToFilter(c, k, Buffered(c)) /\ d.dictionary = c.dictionary
      BY <1>2, FlushedFields
    <2>3. d.copied = c.copied /\ EncodedRows(d) = EncodedRows(c) \o Buffered(c)
      BY FlushColumnRows DEF Fine, ColumnRows
    <2>4. d.pageBuffer # 0
      BY <1>2, FlushColumnType DEF NeedsPageBuffer
    <2>5. ValuesOf(k, EncodedRows(d)) = ValuesOf(k, EncodedRows(c)) \cup ValuesOf(k, Buffered(c))
      BY <2>1, <2>3, ValuesOfParts
    <2> HIDE DEF d
    <2>6. /\ d.filter.allocated = c.filter.allocated /\ c.filter.values \subseteq d.filter.values
          /\ (d.filter.allocated /\ k \notin DictionaryColumns) => ValuesOf(k, Buffered(c)) \subseteq d.filter.values
      BY <2>1, <2>2, PageFiltered
    <2>7. (k \in DictionaryColumns /\ DictionaryMaxBytes = 0) => ValuesOf(k, Buffered(c)) \subseteq c.dictionary
      BY BufferCovered DEF Kept, Fine
    <2>8. Filtered(d, k)
      BY <2>1, <2>2, <2>3, <2>4, <2>5, <2>6, <2>7 DEF Filtered
    <2> QED BY <2>8 DEF d
  <1> QED BY <1>1, <1>2

\* A flush that fails leaves no filter behind its pages.
LEMMA FlushFailsFiltered ==
  ASSUME NEW c \in ColumnWriterState, NEW k \in Columns, NEW id, Fine(c), Filtered(c, k)
  PROVE  Filtered(FlushColumnFails(c, k, id), k)
  <1> DEFINE f == writePageToFilter(c, k, Buffered(c))
             e == [c EXCEPT !.filter = f]
             d == FlushColumnFails(c, k, id)
  <1>1. EncodedRows(d) = EncodedRows(c) /\ d.copied = c.copied
    BY FlushColumnFailsRows DEF Fine
  <1>2. d.pageBuffer = c.pageBuffer
    BY FlushColumnFailsType
  <1>3. f \in Filter
    BY BufferedType, ValuesOfType DEF ColumnWriterState, writePageToFilter, Filter
  <1>4. /\ f.allocated = c.filter.allocated /\ c.filter.values \subseteq f.values
    BY BufferedType, PageFiltered
  <1> HIDE DEF f
  <1>5. e \in ColumnWriterState /\ e.filter = f /\ e.dictionary = c.dictionary
    BY <1>3 DEF ColumnWriterState
  <1>6. d = ResetBuffer(e)
    BY FlushColumnFailsIs DEF f
  <1> HIDE DEF d, e
  <1>7. d.filter = f /\ d.dictionary = c.dictionary
    BY <1>5, <1>6, ResetBufferRows
  <1>8. Filtered(d, k)
    BY <1>1, <1>2, <1>4, <1>7 DEF Filtered
  <1> QED BY <1>8 DEF d

\* A chunk that is copied comes with its filter.
LEMMA CopyFiltered ==
  ASSUME NEW c \in ColumnWriterState, NEW k \in Columns, NEW rows \in Seq(Row),
         NEW n \in Nat \ {0}, NEW base \in Nat \ {0}, Fine(c), Buffered(c) = << >>, Filtered(c, k)
  PROVE  Filtered(loadCopiedChunk(c, k, SourceChunk(k, rows, n, base)), k)
  <1> DEFINE d == loadCopiedChunk(c, k, SourceChunk(k, rows, n, base))
  <1>1. CopyOf(c, k, rows, n, d)
    BY CopiedFields
  <1>2. EncodedRows(d) = rows
    BY CopiedRows DEF Fine
  <1> HIDE DEF d
  <1>3. /\ d.copied /\ (k \in DictionaryColumns => d.dictionary = ValuesOf(k, rows))
        /\ k \in FilterColumns => d.filter.allocated /\ d.filter.values = ValuesOf(k, rows)
        /\ k \notin FilterColumns => d.filter = c.filter
    BY <1>1 DEF CopyOf
  <1>4. Filtered(d, k)
    BY <1>2, <1>3 DEF Filtered
  <1> QED BY <1>4 DEF d

\* When the column has been flushed its filter is complete.
LEMMA FilterCompleted ==
  ASSUME NoFilterFallback, NEW c \in ColumnWriterState, NEW k \in Columns, NEW id \in Nat,
         NeedsPageBuffer(c) => id # 0, Fine(c), Kept(c, k), Filtered(c, k), ColumnRows(c) # << >>
  PROVE  LET flushed == FlushColumn(c, k, id)
             d == IF c.copied THEN flushed ELSE flushFilterPages(flushed, k)
         IN  Complete(d, k) /\ Filtered(d, k)
  <1> DEFINE e == FlushColumn(c, k, id)
             d == IF c.copied THEN e ELSE flushFilterPages(e, k)
  <1> SUFFICES Complete(d, k) /\ Filtered(d, k)
    OBVIOUS
  <1>1. /\ e \in ColumnWriterState /\ Filtered(e, k) /\ e.copied = c.copied
        /\ EncodedRows(e) = ColumnRows(c)
    BY FlushColumnType, FlushFiltered, FlushColumnRows DEF Fine
  <1> HIDE DEF e
  <1>2. CASE c.copied
    <2>1. d = e
      BY <1>2
    <2> HIDE DEF d
    <2>2. Complete(d, k) /\ Filtered(d, k)
      BY <1>1, <1>2, <2>1 DEF Filtered, Complete
    <2> QED BY <2>2 DEF d
  <1>3. CASE ~c.copied
    <2>1. d = flushFilterPages(e, k)
      BY <1>3
    <2>2. SameButFilter(e, d) /\ d.pageBuffer = e.pageBuffer
      BY <1>1, <2>1, FilterRows, FilterType
    <2>3. EncodedRows(d) = EncodedRows(e) /\ d.copied = e.copied /\ d.dictionary = e.dictionary
      BY <2>2, SameButFilterSame DEF SameButFilter, SamePages
    <2>4. Complete(d, k)
      <3>1. CASE k \notin FilterColumns
        BY <1>1, <2>1, <3>1 DEF flushFilterPages, Complete, Filtered
      <3>2. CASE k \in FilterColumns /\ k \in DictionaryColumns
        <4>1. d.filter = [allocated |-> TRUE, values |-> e.dictionary]
          BY <1>1, <2>1, <3>2 DEF flushFilterPages, ColumnWriterState
        <4>2. DictionaryMaxBytes = 0
          BY <3>2 DEF NoFilterFallback
        <4>3. ValuesOf(k, EncodedRows(e)) \subseteq e.dictionary
          BY <1>1, <3>2, <4>2 DEF Filtered
        <4> QED BY <2>3, <3>2, <4>1, <4>3 DEF Complete
      <3>3. CASE k \in FilterColumns /\ k \notin DictionaryColumns /\ e.filter.allocated
        BY <1>1, <2>1, <3>3 DEF flushFilterPages, Complete, Filtered
      <3>4. CASE k \in FilterColumns /\ k \notin DictionaryColumns /\ ~e.filter.allocated
        <4>1. e.pageBuffer # 0
          BY <1>1, <1>3 DEF Filtered
        <4>2. d.filter = [allocated |-> TRUE, values |-> UNION { ValuesOf(k, e.pages[i].rows) : i \in 1 .. Len(e.pages) }]
          BY <1>1, <2>1, <3>4, <4>1 DEF flushFilterPages, ColumnWriterState
        <4> QED BY <1>1, <2>3, <3>4, <4>2, ValuesOfPages DEF Complete
      <3> QED BY <3>1, <3>2, <3>3, <3>4
    <2> HIDE DEF d
    <2>5. Filtered(d, k)
      BY <1>1, <1>3, <2>2, <2>3, <2>4 DEF Filtered, Complete
    <2> QED BY <2>4, <2>5 DEF d
  <1> QED BY <1>2, <1>3

\* A column without rows has none in its pages or its buffer, and is no copy.
LEMMA RowsEmpty ==
  ASSUME NEW g, NEW k \in Columns, cw[g][k] \in ColumnWriterState, Rows(g, k) = << >>
  PROVE  /\ EncodedRows(cw[g][k]) = << >> /\ Buffered(cw[g][k]) = << >>
         /\ ColumnKept(g, k) => ~cw[g][k].copied
  <1> DEFINE c == cw[g][k]
  <1>1. /\ EncodedRows(c) \in Seq(Row) /\ Buffered(c) \in Seq(Row)
        /\ Len(ColumnRows(c)) = Len(EncodedRows(c)) + Len(Buffered(c))
    BY PageRowsType, BufferedType
  <1>2. Len(ColumnRows(c)) = 0
    BY DEF Rows
  <1>3. EncodedRows(c) = << >> /\ Buffered(c) = << >>
    BY <1>1, <1>2, EmptySeq
  <1> QED BY <1>3 DEF ColumnKept, Kept

\* A column with its complete filter has a filter as it should.
LEMMA CompletedFiltered ==
  ASSUME NEW c \in ColumnWriterState, NEW k \in Columns, ~c.copied, Filtered(c, k)
  PROVE  Filtered(flushFilterPages(c, k), k)
  <1> DEFINE d == flushFilterPages(c, k)
  <1> SUFFICES Filtered(d, k)
    OBVIOUS
  <1>1. SameButFilter(c, d) /\ d.pageBuffer = c.pageBuffer
    BY FilterRows, FilterType
  <1>2. EncodedRows(d) = EncodedRows(c) /\ d.copied = c.copied /\ d.dictionary = c.dictionary
    BY <1>1, SameButFilterSame DEF SameButFilter, SamePages
  <1>3. CASE d = c
    <2> HIDE DEF d
    <2> QED BY <1>3
  <1>4. CASE k \in FilterColumns /\ k \in DictionaryColumns
    <2> HIDE DEF d
    <2> QED BY <1>1, <1>2, <1>4 DEF Filtered
  <1>5. CASE k \in FilterColumns /\ k \notin DictionaryColumns /\ d # c
    <2>1. d.filter = [allocated |-> TRUE, values |-> UNION { ValuesOf(k, c.pages[i].rows) : i \in 1 .. Len(c.pages) }]
      BY <1>5 DEF flushFilterPages, ColumnWriterState
    <2>2. ValuesOf(k, EncodedRows(c)) \subseteq UNION { ValuesOf(k, c.pages[i].rows) : i \in 1 .. Len(c.pages) }
      BY ValuesOfPages
    <2> HIDE DEF d
    <2> QED BY <1>1, <1>2, <1>5, <2>1, <2>2 DEF Filtered
  <1>6. k \notin FilterColumns => d = c
    BY DEF flushFilterPages
  <1> QED BY <1>3, <1>4, <1>5, <1>6

\* What flushes keep of the filter.
LEMMA FlushesFiltered ==
  ASSUME NEW c \in ColumnWriterState, NEW k \in Columns, NEW g, NEW d, taken[g] \in Nat,
         Flushes(g, c, k, d), Fine(c), Kept(c, k), Filtered(c, k)
  PROVE  Filtered(d, k)
  BY FlushFiltered, FlushFailsFiltered DEF Flushes, BufferReady

\* A filter is sized when the column has no rows.
LEMMA ResizeEmpty ==
  ASSUME TypeOK, Control, RowInv, OpaqueEmpty, NEW g \in Groups, NEW k \in Columns,
         Sound(g), ColumnKept(g, k), Resizes(g, k)
  PROVE  g = 0 /\ k \in FilterColumns /\ EncodedRows(cw[g][k]) = << >> /\ ~cw[g][k].copied
  <1>0. g = 0 /\ k \in FilterColumns /\ cw[g][k] \in ColumnWriterState
    BY SoundFine DEF Resizes
  <1>1. CASE StartCopyRows
    BY <1>0, <1>1, StartCopyRowsJob, RowsEmpty DEF OpaqueEmpty
  <1>2. CASE (ReencodeBatch \/ ReencodeBatchFails) /\ pos = 1 /\ done = 0
    <2>1. job = OnPath("columnar") /\ source \in Seq(Row)
      BY <1>2, ReencodeBatchIs DEF TypeOK
    <2>2. Rows(0, k) = Taken(k)
      BY <1>0, <2>1 DEF RowInv, FromSource, OnColumnPath
    <2>3. ~(k < pos) /\ SubSeq(source, 1, 0) = << >>
      BY <1>2, <2>1, LastColumn
    <2>4. Taken(k) = << >>
      BY <1>2, <2>3 DEF Taken
    <2> QED BY <1>0, <2>2, <2>4, RowsEmpty
  <1> QED BY <1>1, <1>2 DEF Resizes

\* What new rows keep, with the flush that may follow.
LEMMA RowsFiltered ==
  ASSUME NEW c \in ColumnWriterState, NEW k \in Columns, NEW rows \in Seq(Row), NEW g, NEW d,
         taken[g] \in Nat, Fine(c), Kept(c, k), Filtered(c, k), ~c.copied,
         Flushes(g, WriteValues(c, k, rows), k, d)
  PROVE  Filtered(d, k)
  <1> DEFINE e == WriteValues(c, k, rows)
  <1>1. e \in ColumnWriterState /\ Fine(e) /\ Kept(e, k) /\ Filtered(e, k)
    BY RowsKeep, WriteFiltered
  <1>2. Flushes(g, e, k, d)
    OBVIOUS
  <1> HIDE DEF e
  <1> QED BY <1>1, <1>2, FlushesFiltered

\* What any step makes of the filter of a column of a sound row group.
LEMMA ColumnFiltered ==
  ASSUME TypeOK, Control, RowInv, OpaqueEmpty, [Next]_vars, NEW g \in Groups, NEW k \in Columns,
         Sound(g), ColumnKept(g, k), Filtered(cw[g][k], k)
  PROVE  Filtered(cw'[g][k], k)
  <1> DEFINE c == cw[g][k]
             d == cw'[g][k]
  <1> SUFFICES Filtered(d, k)
    OBVIOUS
  <1>1. /\ c \in ColumnWriterState /\ Fine(c) /\ Kept(c, k) /\ Filtered(c, k)
        /\ taken[g] \in Nat /\ chunk[g] \in Seq(Row) /\ source \in Seq(Row) /\ 0 \in Groups
    BY SoundFine, PoolType DEF ColumnKept, TypeOK, Groups
  <1>2. ColumnMove(g, k, c, d)
    BY ColumnMoves
  <1>3. ASSUME Resizes(g, k)
        PROVE  /\ resizeBloomFilter(c) \in ColumnWriterState
               /\ Fine(resizeBloomFilter(c)) /\ Kept(resizeBloomFilter(c), k)
               /\ ~resizeBloomFilter(c).copied /\ Filtered(resizeBloomFilter(c), k)
    BY <1>1, <1>3, FilterRows, FilterType, ResizeEmpty, FilterKeeps, ResizeFiltered
  <1>4. ASSUME NEW rows \in Seq(Row), ~c.copied, Flushes(g, WriteValues(c, k, rows), k, d)
        PROVE  Filtered(d, k)
    BY <1>1, <1>4, RowsFiltered
  <1>5. CASE Flushes(g, c, k, d)
    BY <1>1, <1>5, FlushesFiltered
  <1>6. CASE Resizes(g, k) /\ d = resizeBloomFilter(c)
    BY <1>3, <1>6
  <1>7. CASE /\ ~c.copied /\ BufferReady(g, NeedsPageBuffer(c))
             /\ d = flushFilterPages(FlushColumn(c, k, taken[g]), k)
    <2> DEFINE e == FlushColumn(c, k, taken[g])
    <2>1. Flushes(g, c, k, e)
      BY <1>7 DEF Flushes
    <2>2. e \in ColumnWriterState /\ e.copied = c.copied /\ Filtered(e, k)
      BY <1>1, <2>1, FlushesKeep, FlushesFiltered
    <2> HIDE DEF e
    <2>3. Filtered(flushFilterPages(e, k), k)
      BY <1>7, <2>2, CompletedFiltered
    <2> QED BY <1>7, <2>3 DEF e
  <1>8. CASE GetsRows(g, k, c, d)
    <2>1. ~c.copied
      BY <1>8, RowsNotCopied
    <2>2. CASE NextChunk(g) /\ Generic(g) /\ \E rows \in Seq(Row) : d = WriteValues(FirstColumn(c), k, rows)
      <3>1. PICK rows \in Seq(Row) : d = WriteValues(FirstColumn(c), k, rows)
        BY <2>2
      <3>2. g = 0 /\ generic
        BY <2>2 DEF Generic
      <3>3. FirstColumn(c) \in ColumnWriterState /\ Fine(FirstColumn(c)) /\ Filtered(FirstColumn(c), k)
        <4>1. CASE resolved
          BY <1>1, <4>1 DEF FirstColumn
        <4>2. CASE ~resolved
          <5> DEFINE e == newColumnBuffer(c)
          <5>1. Buffered(c) = << >>
            BY <2>2, <3>2, <4>2, FirstChunk
          <5>2. BuffersFit(e) /\ (PlainFits(c) => PlainFits(e))
            BY <1>1, <5>1, NewColumnBufferRows DEF Fine
          <5>3. e \in ColumnWriterState /\ Filtered(e, k)
            BY <1>1, <5>1, NewColumnBufferType, NewBufferFiltered
          <5>4. FirstColumn(c) = e
            BY <4>2 DEF FirstColumn
          <5> HIDE DEF e
          <5> QED BY <1>1, <5>2, <5>3, <5>4 DEF Fine
        <4> QED BY <4>1, <4>2
      <3> QED BY <3>1, <3>3, WriteFiltered
    <2>3. CASE Flushes(g, WriteValues(c, k, chunk[g]), k, d)
      BY <1>1, <1>4, <2>1, <2>3
    <2>4. CASE \E rows \in Seq(Row) :
                 \/ Flushes(g, WriteValues(c, k, rows), k, d)
                 \/ Resizes(g, k) /\ Flushes(g, WriteValues(resizeBloomFilter(c), k, rows), k, d)
      <3>1. PICK rows \in Seq(Row) :
              \/ Flushes(g, WriteValues(c, k, rows), k, d)
              \/ Resizes(g, k) /\ Flushes(g, WriteValues(resizeBloomFilter(c), k, rows), k, d)
        BY <2>4
      <3>2. CASE Flushes(g, WriteValues(c, k, rows), k, d)
        BY <1>4, <2>1, <3>2
      <3>3. CASE Resizes(g, k) /\ Flushes(g, WriteValues(resizeBloomFilter(c), k, rows), k, d)
        BY <1>1, <1>3, <3>3, RowsFiltered
      <3> QED BY <3>1, <3>2, <3>3
    <2> HIDE DEF c, d
    <2> QED BY <1>8, <2>2, <2>3, <2>4 DEF GetsRows
  <1>9. CASE d = resetColumn(c)
    <2>1. Blank(d) /\ d \in ColumnWriterState
      BY <1>1, <1>9, ResetColumnRows, ResetColumnType, Zenon
    <2> QED BY <2>1, BlankFiltered
  <1>10. CASE /\ LoadCopiedChunk /\ g = 0 /\ k = pos
              /\ d = loadCopiedChunk(c, k, SourceChunk(k, source, SourcePage, SourceOffset))
    <2>1. Buffered(c) = << >>
      <3>1. job # << >> /\ job[1].op = "copyable"
        BY <1>10 DEF LoadCopiedChunk, Running
      <3>2. job = OnPath("copyable")
        BY <3>1, JobFirst DEF Control, Paths
      <3>3. done = 0
        BY <3>2 DEF Control, SourceFits
      <3>4. Rows(0, k) = Taken(k)
        BY <1>10, <3>2 DEF RowInv, FromSource, OnColumnPath
      <3>5. ~(k < pos) /\ SubSeq(source, 1, 0) = << >>
        BY <1>1, <1>10, LastColumn
      <3>6. Rows(0, k) = << >>
        BY <1>10, <3>3, <3>4, <3>5 DEF Taken
      <3> QED BY <1>1, <1>10, <3>6, RowsEmpty
    <2>2. SourcePage \in Nat \ {0} /\ SourceOffset \in Nat \ {0}
      BY WriterAssumption DEF SourceOffset
    <2> QED BY <1>1, <1>10, <2>1, <2>2, CopyFiltered
  <1> HIDE DEF c, d
  <1> QED BY <1>2, <1>5, <1>6, <1>7, <1>8, <1>9, <1>10 DEF ColumnMove

\* The filters of the columns of a row group.
LEMMA GroupFilteredStep ==
  ASSUME FallbackOrReset, TypeOK, TypeOK', Control, RowInv, OpaqueEmpty, [Next]_vars,
         NEW g \in Groups, GroupKept(g), GroupFiltered(g)
  PROVE  GroupFiltered(g)'
  <1> SUFFICES ASSUME Clear(g)', NEW k \in Columns
               PROVE  Filtered(cw'[g][k], k)
    BY DEF GroupFiltered
  <1>1. CASE ResetRowGroupColumn /\ pos = NumColumns /\ Group = g
    BY <1>1, ResetEnds, BlankFiltered DEF TypeOK
  <1>2. CASE ~(ResetRowGroupColumn /\ pos = NumColumns /\ Group = g)
    BY <1>2, ClearStep, ColumnFiltered DEF GroupKept, GroupFiltered, Clear
  <1> QED BY <1>1, <1>2

\* CopyRows finds no rows.
LEMMA OpaqueEmptyStep ==
  ASSUME FallbackOrReset, TypeOK, TypeOK', Control, Control', RowInv, [Next]_vars, OpaqueEmpty
  PROVE  OpaqueEmpty'
  <1> DEFINE p == "opaque"
  <1> SUFFICES ASSUME job' = OnPath(p), Sound(0)', NEW k \in Columns
               PROVE  Rows(0, k)' = << >>
    BY DEF OpaqueEmpty
  <1>0. 0 \in Groups
    BY DEF Groups
  <1>1. /\ job' # << >> /\ job'[1].op = p /\ BeforePath(p)[1].op = "rowGroup" /\ BeforePath(p)[1].group = 0
        /\ OnPath(p) # << >> /\ OnPath(p)[1].op = p /\ OnPath(p)[1].group = 0
    BY JobTails, JobOps
  <1>2. phase' = "start" /\ status' # "failed"
    BY <1>1 DEF Control, PhaseFits, StatusFits
  <1>3. Sound(0)
    BY <1>0, <1>2, SoundStep DEF SoundAgain, InReset
  <1>4. CASE job = OnPath(p)
    <2>1. Rows(0, k) = << >>
      BY <1>3, <1>4 DEF OpaqueEmpty
    <2>2. job # OnPath("copyRows") /\ phase = "start"
      BY <1>1, <1>4, JobOps DEF Control, PhaseFits
    <2>3. chunk[0] = << >>
      BY <1>1, <1>4, <2>2 DEF Control, CallFits
    <2>4. ~Changing(0)
      BY <1>1, <1>4, <2>2, <2>3 DEF Changing, NextChunk, BetweenChunks, WriteColumn, ResetRowGroupColumn,
         LoadCopiedChunk, ReencodeBatch, ReencodeBatchFails, Running
    <2> QED BY <1>0, <1>3, <2>1, <2>4, RowsKept
  <1>5. CASE job # OnPath(p)
    <2>1. job' # BeforePath("copyRows") /\ job' # OnPath("copyRows")
      BY <1>1, JobOps
    <2>2. NextJob /\ (job[1].op = "rowGroup" => RowGroupDone)
      BY <1>1, <1>2, <1>5, <2>1, JobMoves
    <2>3. job = BeforePath(p)
      <3>1. /\ \A g : RowGroupJob(g)[1].op = "rowGroup"
            /\ \A q : OnPath(q) = OnPath(p) => q = p
        BY JobOps, JobsDiffer
      <3>2. /\ CloseJob2[1].op = "header" /\ CloseJob3[1].op = "rowGroup" /\ CloseJob4[1].op = "deferred"
            /\ CloseJob5[1].op = "footer"
        BY JobOps
      <3> HIDE DEF p
      <3>3. p = "opaque"
        BY DEF p
      <3> QED BY <1>1, <2>2, <3>1, <3>2, <3>3 DEF NextJob
    <2>4. RowGroupDone /\ Group = 0
      BY <1>1, <2>2, <2>3 DEF Group
    <2>5. CASE SkipEmptyRowGroup
      BY <1>3, <2>4, <2>5, SkippedEmpty DEF SkipEmptyRowGroup, rgVars, Rows
    <2>6. CASE ResetRowGroupColumn /\ pos = NumColumns
      BY <2>4, <2>6, ResetEnds DEF Rows
    <2> QED BY <2>4, <2>5, <2>6 DEF RowGroupDone
  <1> QED BY <1>4, <1>5

\* The goroutines of other row groups run; the main thread stands still.
Still == UNCHANGED <<mainVars, outVars>> /\ cw'[Group] = cw[Group]

\* The steps inside writeRowGroup and reset.
LEMMA PhaseMoves ==
  ASSUME TypeOK, Control, [Next]_vars, job' # << >>, phase' \notin {"start", "put"}
  PROVE  \/ job # << >> /\ Still
         \/ StartRowGroup \/ FlushRowGroupColumn \/ FlushRowGroupColumnFails \/ FlushFilterPagesFails \/ WriteHeader
         \/ WriteColumnPages \/ NoBloomFilter \/ DeferBloomFilter \/ WriteBloomFilter
         \/ WriteRowGroupFails \/ AppendRowGroup \/ ResetRowGroupColumn \/ DeferredBuffersReturned
  <1>1. CASE UNCHANGED allButPool
    BY <1>1 DEF allButPool, rgVars, mainVars, outVars, Still
  <1>2. CASE ApplicationCall
    <2>1. ASSUME NEW g \in Groups, NEW n, NEW kind, WriteRows(g, n, kind) \/ FlushGroup(g)
          PROVE  job # << >> /\ Still
      BY <2>1 DEF WriteRows, FlushGroup, rgVars, mainVars, Still
    <2>2. ASSUME NEW n, NEW kind, WriteRowGroup(n, kind)
          PROVE  phase' = "start"
      BY <2>2 DEF WriteRowGroup
    <2>3. ASSUME NEW jobs, Call(jobs)
          PROVE  phase' = "start"
      BY <2>3 DEF Call
    <2>4. Reset => phase' = "put"
      BY DEF Reset
    <2> QED BY <1>2, <2>1, <2>2, <2>3, <2>4 DEF ApplicationCall, Commit, Flush, Close
  <1>3. ASSUME NEW h \in Groups, GroupStep(h)
        PROVE  job # << >> /\ Still
    <2>1. UNCHANGED <<phase, pos, source, done, meta, file, offset, rowGroups, deferred, resets>>
      BY <1>3 DEF GroupStep, NextChunk, GroupFull, WriteColumn, WriteColumnFails,
         FlushGroupColumn, FlushGroupColumnFails, mainVars, outVars
    <2>2. job # << >> /\ phase # "start"
      BY <2>1, NoJob
    <2>3. h # Group /\ h # 0 /\ UNCHANGED job
      BY <1>3, <2>2, GroupStepElsewhere
    <2>4. cw'[Group] = cw[Group]
      BY <1>3, <2>2, <2>3, OtherColumns, GroupColumn
    <2>5. UNCHANGED status
      BY <1>3, <2>3 DEF GroupStep, NextChunk, GroupFull, WriteColumn, WriteColumnFails,
         FlushGroupColumn, FlushGroupColumnFails, Fail, outVars
    <2> QED BY <2>1, <2>2, <2>3, <2>4, <2>5 DEF Still, mainVars, outVars
  <1>4. CASE MainStep
    <2>1. CASE PutDeferredBuffer
      BY <2>1 DEF PutDeferredBuffer, mainVars
    <2>2. CASE \/ SkipEmptyRowGroup \/ TooManyRowGroups \/ CloseColumn \/ CloseColumnFails \/ CloseHeader
               \/ WriteDeferredBloomFilter \/ DeferredBloomFiltersWritten \/ WriteFooter \/ CloseFails
               \/ LoadCopiedChunk \/ StartCopyRows \/ RowsCopied \/ CopyRowsFails
               \/ ReencodeBatch \/ ReencodeBatchFails \/ WriteRowGroupSourceFails
      <3>1. job # << >> /\ (phase = "start" \/ job[1].op \notin {"rowGroup", "reset", "deferred"})
        BY <2>2 DEF SkipEmptyRowGroup, TooManyRowGroups, CloseColumn, CloseColumnFails, CloseHeader,
           WriteDeferredBloomFilter, DeferredBloomFiltersWritten, WriteFooter, CloseFails,
           LoadCopiedChunk, StartCopyRows, RowsCopied, CopyRowsFails, Fail, ReencodeBatch,
           ReencodeBatchFails, WriteRowGroupSourceFails,
           InRowGroup, Running
      <3>2. phase = "start"
        BY <3>1 DEF Control, PhaseFits
      <3>3. phase' \in {phase, "put"}
        BY <2>2 DEF SkipEmptyRowGroup, TooManyRowGroups, CloseColumn, CloseColumnFails, CloseHeader,
           WriteDeferredBloomFilter, DeferredBloomFiltersWritten, WriteFooter, CloseFails,
           LoadCopiedChunk, StartCopyRows, RowsCopied, CopyRowsFails, Fail, ReencodeBatch,
           ReencodeBatchFails, WriteRowGroupSourceFails,
           mainVars
      <3> QED BY <3>2, <3>3
    <2> QED BY <1>4, <2>1, <2>2 DEF MainStep
  <1> QED BY <1>1, <1>2, <1>3, <1>4, NextCases

\* The rows that a column counts.
LEMMA RowCount ==
  ASSUME NEW c \in ColumnWriterState, Fine(c)
  PROVE  totalRowCount(c) = Len(ColumnRows(c)) /\ ColumnRows(c) \in Seq(Row)
  <1>1. /\ EncodedRows(c) \in Seq(Row) /\ Buffered(c) \in Seq(Row)
        /\ Len(ColumnRows(c)) = Len(EncodedRows(c)) + Len(Buffered(c))
    BY PageRowsType, BufferedType
  <1>2. c.numRows = Len(EncodedRows(c))
    BY DEF Fine, BuffersFit
  <1>3. ColumnRows(c) \in Seq(Row)
    BY <1>1 DEF ColumnRows
  <1> QED BY <1>1, <1>2, <1>3 DEF totalRowCount

\* The columns of the row group that is written have the same rows.
LEMMA SameRows ==
  ASSUME TypeOK, Control, RowInv, job # << >>, job[1].op = "rowGroup", Sound(Group), ~InReset(Group)
  PROVE  \A k \in Columns : Rows(Group, k) = Rows(Group, 1)
  <1> DEFINE g == Group
  <1> SUFFICES ASSUME NEW k \in Columns
               PROVE  Rows(g, k) = Rows(g, 1)
    OBVIOUS
  <1>1. g \in Groups /\ chunk[g] = << >> /\ ~OnColumnPath(g) /\ 1 \in Columns
    BY WritingIdle, GroupColumn, LastColumn
  <1> HIDE DEF g
  <1>2. Sound(g) /\ ~InReset(g)
    BY DEF g
  <1>3. Rows(g, k) \o Ahead(g, k) = Rows(g, 1) \o Ahead(g, 1)
    BY <1>1, <1>2 DEF RowInv, GroupAligned
  <1>4. Ahead(g, k) = << >> /\ Ahead(g, 1) = << >>
    BY <1>1 DEF Ahead
  <1>5. Rows(g, k) \in Seq(Row) /\ Rows(g, 1) \in Seq(Row)
    BY <1>1, <1>2, SoundFine, RowCount DEF Rows
  <1>6. \A s \in Seq(Row) : s \o << >> = s
    OBVIOUS
  <1> QED BY <1>3, <1>4, <1>5, <1>6

\* The row group that is written has all its filters in the end.
LEMMA FlushCompletes ==
  ASSUME NoFilterFallback, TypeOK, Control, RowInv, \A g \in Groups : GroupKept(g) /\ GroupFiltered(g),
         FiltersComplete, FlushRowGroupColumn
  PROVE  FiltersComplete'
  <1> DEFINE g == Group
             c == cw[g][pos]
             f == FlushColumn(c, pos, taken[g])
             d == IF c.copied THEN f ELSE flushFilterPages(f, pos)
  <1>1. job # << >> /\ phase = "flush" /\ job' = job /\ job[1].op = "rowGroup" /\ Group' = g
    BY DEF FlushRowGroupColumn, InRowGroup, Running, Group
  <1>2. g \in Groups /\ pos \in Columns /\ c \in ColumnWriterState /\ taken[g] \in Nat /\ 1 \in Columns
    BY <1>1, GroupColumn, PoolType, LastColumn
  <1>3. Sound(g) /\ Clear(g) /\ ~InReset(g)
    BY <1>1, WritingSound DEF Clear
  <1>4. Fine(c) /\ Kept(c, pos) /\ Filtered(c, pos) /\ (NeedsPageBuffer(c) => taken[g] # 0)
    BY <1>2, <1>3, SoundFine DEF GroupKept, GroupFiltered, ColumnKept, FlushRowGroupColumn, BufferReady
  <1>5. Writing /\ Rows(g, 1) # << >>
    BY <1>1 DEF Writing, FiltersComplete
  <1>6. ColumnRows(c) # << >>
    BY <1>1, <1>2, <1>3, <1>5, SameRows DEF Rows
  <1>7. Complete(d, pos) /\ ColumnRows(d) = ColumnRows(c)
    <2>1. Complete(d, pos)
      BY <1>2, <1>4, <1>6, FilterCompleted
    <2>2. f \in ColumnWriterState /\ ColumnRows(f) = ColumnRows(c)
      BY <1>2, <1>4, FlushColumnType, FlushColumnRows DEF Fine
    <2>3. SameButFilter(f, flushFilterPages(f, pos))
      BY <1>2, <2>2, FilterRows
    <2>4. ColumnRows(flushFilterPages(f, pos)) = ColumnRows(f)
      BY <2>3, SameButFilterSame DEF ColumnRows
    <2> QED BY <2>1, <2>2, <2>4
  <1> HIDE DEF d, c
  <1>8. OnlyColumn(g, pos, d)
    BY <1>2, SetColumnIs DEF FlushRowGroupColumn, c, d
  <1>9. ColumnRows(cw'[g][1]) # << >>
    BY <1>2, <1>5, <1>7, <1>8 DEF Rows, OnlyColumn, c
  <1>10. \A k \in Columns : (k < pos \/ k = pos) => Complete(cw'[g][k], k)
    BY <1>1, <1>2, <1>5, <1>7, <1>8 DEF FiltersComplete, OnlyColumn
  <1>11. \/ phase' = "flush" /\ pos' = pos + 1 /\ pos < NumColumns
         \/ phase' = "header" /\ ~(pos < NumColumns)
    BY <1>1 DEF FlushRowGroupColumn, NextColumnOr
  <1>12. \A k \in Columns : (phase' # "flush" \/ k < pos') => k < pos \/ k = pos
    BY <1>11, LastColumn
  <1>13. Rows(Group, 1)' # << >> /\ \A k \in Columns : (phase' # "flush" \/ k < pos') => Complete(cw'[Group'][k], k)
    BY <1>1, <1>9, <1>10, <1>12 DEF Rows
  <1> QED BY <1>13 DEF FiltersComplete

\* When a column is flushed its filter has all its values, and it keeps them until it is written.
LEMMA FiltersCompleteStep ==
  ASSUME NoFilterFallback, TypeOK, Control, RowInv, [Next]_vars,
         \A g \in Groups : GroupKept(g) /\ GroupFiltered(g), FiltersComplete
  PROVE  FiltersComplete'
  <1> SUFFICES ASSUME Writing'
               PROVE  FiltersComplete'
    BY DEF FiltersComplete
  <1>0. job' # << >> /\ phase' \in {"flush", "header", "pages", "bloom", "append"} /\ 1 \in Columns
    BY LastColumn DEF Writing
  <1>1. ASSUME Writing, UNCHANGED job, cw'[Group] = cw[Group],
               phase # "flush" \/ UNCHANGED <<phase, pos>>
        PROVE  FiltersComplete'
    BY <1>0, <1>1 DEF FiltersComplete, Rows, Group
  <1>2. CASE job # << >> /\ Still
    BY <1>0, <1>1, <1>2 DEF Still, mainVars, Writing
  <1>3. CASE StartRowGroup
    <2>1. job # << >> /\ job' = job /\ cw' = cw /\ phase' = "flush" /\ pos' = 1 /\ totalRowCount(cw[Group][1]) # 0
          /\ phase = "start" /\ job[1].op = "rowGroup"
      BY <1>3 DEF StartRowGroup, InRowGroup, Running, rgVars
    <2>2. Group \in Groups
      BY <2>1, GroupColumn
    <2>3. Sound(Group)
      <3>1. ~InAbort(Group) /\ status = "open"
        BY <2>1 DEF InAbort, Control, StatusFits
      <3>2. pc[Group] # "failed"
        BY <2>1, JobFirst DEF Control, CallFits
      <3>3. Len(rowGroups) < MaxRowGroups
        BY <1>3, WriterAssumption DEF TypeOK, StartRowGroup, Control, RoomFits
      <3> QED BY <3>1, <3>2, <3>3 DEF Sound
    <2>4. Fine(cw[Group][1]) /\ cw[Group][1] \in ColumnWriterState
      BY <1>0, <2>2, <2>3, SoundFine
    <2>5. Rows(Group, 1) # << >>
      BY <2>1, <2>4, RowCount DEF Rows
    <2>6. \A k \in Columns : ~(k < 1)
      BY LastColumn
    <2> QED BY <2>1, <2>5, <2>6 DEF FiltersComplete, Rows, Group
  <1>4. CASE FlushRowGroupColumn
    BY <1>4, FlushCompletes
  <1>5. CASE WriteHeader \/ WriteColumnPages \/ NoBloomFilter \/ DeferBloomFilter \/ WriteBloomFilter
    BY <1>1, <1>5 DEF WriteHeader, WriteColumnPages, NoBloomFilter, DeferBloomFilter,
      WriteBloomFilter, InRowGroup, Running, rgVars, Writing
  <1>6. CASE FlushRowGroupColumnFails \/ FlushFilterPagesFails \/ WriteRowGroupFails \/ AppendRowGroup \/ DeferredBuffersReturned
    BY <1>0, <1>6 DEF FlushRowGroupColumnFails, FlushFilterPagesFails, WriteRowGroupFails, AppendRowGroup,
      DeferredBuffersReturned
  <1>7. CASE ResetRowGroupColumn
    BY <1>0, <1>7 DEF ResetRowGroupColumn, NextColumnOr
  <1> QED BY <1>0, <1>2, <1>3, <1>4, <1>5, <1>6, <1>7, PhaseMoves

-----------------------------------------------------------------------------
(* What the steps do to the metadata, the deferred filters and the status. *)

\* What can change the metadata, the deferred filters and the phase.
LEMMA StateChanges ==
  ASSUME [Next]_vars
  PROVE  /\ UNCHANGED meta \/ WriteColumnPages \/ WriteBloomFilter \/ ResetRowGroupColumn
         /\ UNCHANGED deferred \/ DeferBloomFilter \/ PutDeferredBuffer
         /\ UNCHANGED status \/ status' = "failed" \/ WriteFooter \/ DeferredBuffersReturned
         /\ UNCHANGED done \/ done' = 0 \/ ReencodeBatch \/ WriteDeferredBloomFilter
  <1>1. CASE UNCHANGED allButPool
    BY <1>1 DEF allButPool, mainVars, outVars
  <1>2. CASE ApplicationCall
    BY <1>2 DEF ApplicationCall, WriteRows, WriteRowGroup, FlushGroup, Commit, Flush, Close,
                Reset, Call, mainVars, outVars
  <1>3. CASE MainStep
    BY <1>3 DEF MainStep, SkipEmptyRowGroup, TooManyRowGroups, StartRowGroup, WriteHeader,
                AppendRowGroup, WriteColumnPages, WriteBloomFilter, CloseHeader, WriteFooter,
                FlushRowGroupColumn, FlushRowGroupColumnFails, FlushFilterPagesFails, NoBloomFilter,
                DeferBloomFilter,
                WriteRowGroupFails, ResetRowGroupColumn, CloseColumn, WriteDeferredBloomFilter,
                CloseColumnFails, DeferredBloomFiltersWritten, PutDeferredBuffer, CloseFails,
                LoadCopiedChunk, StartCopyRows, RowsCopied, CopyRowsFails, Fail, ReencodeBatch,
                ReencodeBatchFails, DeferredBuffersReturned,
                WriteRowGroupSourceFails, mainVars, outVars
  <1>4. CASE \E g \in Groups : GroupStep(g)
    BY <1>4 DEF GroupStep, GroupFull, NextChunk, WriteColumn, WriteColumnFails,
                FlushGroupColumn, FlushGroupColumnFails, Fail, mainVars, outVars
  <1> QED BY <1>1, <1>2, <1>3, <1>4, NextCases

\* The steps inside writeRowGroup, reset and the return of buffers, from where
\* they are.
LEMMA LateSteps ==
  ASSUME TypeOK, Control, [Next]_vars, job # << >>, phase # "start"
  PROVE  \/ Still
         \/ FlushRowGroupColumn \/ FlushRowGroupColumnFails \/ FlushFilterPagesFails \/ WriteHeader \/ WriteColumnPages
         \/ NoBloomFilter \/ DeferBloomFilter \/ WriteBloomFilter \/ WriteRowGroupFails
         \/ AppendRowGroup \/ ResetRowGroupColumn \/ PutDeferredBuffer \/ DeferredBuffersReturned
  <1>1. CASE phase' \notin {"start", "put"} /\ job' # << >>
    BY <1>1, PhaseMoves DEF StartRowGroup, InRowGroup
  <1>2. CASE UNCHANGED allButPool
    BY <1>2 DEF allButPool, rgVars, mainVars, outVars, Still
  <1>3. CASE ApplicationCall
    BY <1>3 DEF WriteRows, FlushGroup, rgVars, mainVars, Still, ApplicationCall, Commit, Flush,
      Close, Call, Reset, WriteRowGroup, MainIdle
  <1>4. ASSUME NEW h \in Groups, GroupStep(h)
        PROVE  Still
    <2>1. UNCHANGED <<phase, pos, source, done, meta, file, offset, rowGroups, deferred, resets>>
      BY <1>4 DEF GroupStep, NextChunk, GroupFull, WriteColumn, WriteColumnFails,
         FlushGroupColumn, FlushGroupColumnFails, mainVars, outVars
    <2>2. h # Group /\ h # 0 /\ UNCHANGED job
      BY <1>4, GroupStepElsewhere
    <2>3. cw'[Group] = cw[Group]
      BY <1>4, <2>2, OtherColumns, GroupColumn
    <2>4. UNCHANGED status
      BY <1>4, <2>2 DEF GroupStep, NextChunk, GroupFull, WriteColumn, WriteColumnFails,
         FlushGroupColumn, FlushGroupColumnFails, Fail, outVars
    <2> QED BY <2>1, <2>2, <2>3, <2>4 DEF Still, mainVars, outVars
  <1>5. CASE MainStep
    <2>1. job[1].op \in {"rowGroup", "reset", "deferred"}
      BY DEF Control, PhaseFits
    <2> QED BY <1>5, <2>1 DEF MainStep, SkipEmptyRowGroup, TooManyRowGroups, StartRowGroup,
         CloseHeader, WriteFooter, CloseColumn, WriteDeferredBloomFilter, CloseColumnFails,
         DeferredBloomFiltersWritten, CloseFails, LoadCopiedChunk, StartCopyRows, RowsCopied,
         CopyRowsFails, Fail,
         ReencodeBatch, ReencodeBatchFails, WriteRowGroupSourceFails, InRowGroup, Running
  <1> QED BY <1>2, <1>3, <1>4, <1>5, NextCases

\* Close goes on with the steps of its job.
LEMMA CloseSteps ==
  ASSUME TypeOK, Control, [Next]_vars, job \in {CloseJob2, CloseJob4}
  PROVE  \/ UNCHANGED job \/ status' = "failed"
         \/ job = CloseJob2 /\ CloseHeader
         \/ job = CloseJob4 /\ DeferredBuffersReturned
  <1>0. /\ job # << >> /\ job[1].op \in {"header", "deferred"}
        /\ job[1].op = "header" => job = CloseJob2
        /\ job[1].op = "deferred" => job = CloseJob4
    <2>1. /\ CloseJob2[1].op = "header" /\ CloseJob2 # << >>
          /\ CloseJob4[1].op = "deferred" /\ CloseJob4 # << >>
      BY JobOps, JobTails, Zenon
    <2> QED BY <2>1
  <1>1. CASE UNCHANGED allButPool
    BY <1>1 DEF allButPool, mainVars
  <1>2. CASE ApplicationCall
    BY <1>0, <1>2 DEF WriteRows, FlushGroup, mainVars, Call, Reset, WriteRowGroup, MainIdle,
      ApplicationCall, Commit, Flush, Close
  <1>3. ASSUME NEW h \in Groups, GroupStep(h)
        PROVE  UNCHANGED job \/ status' = "failed"
    <2>1. CASE GroupFull(h)
      BY <1>0, <2>1 DEF GroupFull, BetweenChunks
    <2>2. CASE NextChunk(h) \/ WriteColumn(h) \/ FlushGroupColumn(h)
      BY <2>2 DEF NextChunk, WriteColumn, FlushGroupColumn, mainVars
    <2>3. CASE WriteColumnFails(h) \/ FlushGroupColumnFails(h)
      BY <2>3 DEF WriteColumnFails, FlushGroupColumnFails, Fail
    <2> QED BY <1>3, <2>1, <2>2, <2>3 DEF GroupStep
  <1>4. CASE MainStep
    <2>1. phase \in {"start", "put"} /\ (job = CloseJob2 => phase = "start")
      BY <1>0, JobOps DEF Control, PhaseFits
    <2>2. CASE \/ CloseHeader \/ CloseFails \/ DeferredBuffersReturned
               \/ WriteDeferredBloomFilter \/ DeferredBloomFiltersWritten \/ PutDeferredBuffer
      <3>1. CloseHeader => job = CloseJob2
        BY <1>0 DEF CloseHeader, Running
      <3>2. DeferredBuffersReturned => job = CloseJob4
        BY <1>0, <2>1 DEF DeferredBuffersReturned
      <3>3. (WriteDeferredBloomFilter \/ DeferredBloomFiltersWritten \/ PutDeferredBuffer) => UNCHANGED job
        BY DEF WriteDeferredBloomFilter, DeferredBloomFiltersWritten, PutDeferredBuffer, mainVars
      <3>4. CloseFails => status' = "failed"
        BY DEF CloseFails
      <3> QED BY <2>2, <3>1, <3>2, <3>3, <3>4
    <2>3. /\ ~SkipEmptyRowGroup /\ ~TooManyRowGroups /\ ~StartRowGroup /\ ~FlushRowGroupColumn
          /\ ~FlushRowGroupColumnFails /\ ~FlushFilterPagesFails /\ ~WriteHeader /\ ~WriteColumnPages
          /\ ~NoBloomFilter /\ ~DeferBloomFilter /\ ~WriteBloomFilter /\ ~WriteRowGroupFails /\ ~AppendRowGroup
          /\ ~ResetRowGroupColumn
      BY <1>0, <2>1 DEF SkipEmptyRowGroup, TooManyRowGroups, StartRowGroup, FlushRowGroupColumn,
         FlushRowGroupColumnFails, FlushFilterPagesFails, WriteHeader, WriteColumnPages, NoBloomFilter,
         DeferBloomFilter,
         WriteBloomFilter, WriteRowGroupFails, AppendRowGroup, ResetRowGroupColumn, InRowGroup, Running
    <2>4. /\ ~CloseColumn /\ ~CloseColumnFails /\ ~WriteFooter /\ ~LoadCopiedChunk /\ ~StartCopyRows
          /\ ~RowsCopied /\ ~CopyRowsFails /\ ~ReencodeBatch /\ ~ReencodeBatchFails
      BY <1>0 DEF CloseColumn, CloseColumnFails, WriteFooter, LoadCopiedChunk, StartCopyRows,
         RowsCopied, CopyRowsFails, Fail, ReencodeBatch, ReencodeBatchFails, Running
    <2>5. WriteRowGroupSourceFails => status' = "failed"
      BY DEF WriteRowGroupSourceFails
    <2> QED BY <1>4, <2>2, <2>3, <2>4, <2>5 DEF MainStep
  <1> QED BY <1>1, <1>2, <1>3, <1>4, NextCases

-----------------------------------------------------------------------------
(* Every step keeps the control of the filters. *)

\* The loop over the filters goes on.
LEMMA BloomLoop ==
  ASSUME TypeOK, phase = "bloom", job # << >>, job' = job, NextColumnOr("append")
  PROVE  \A k \in Columns : Bloomed(k)' <=> Bloomed(k) \/ k = pos
  <1>1. pos \in Columns /\ pos \in Nat
    BY LastColumn DEF TypeOK
  <1>2. CASE pos < NumColumns
    BY <1>1, <1>2, LastColumn DEF NextColumnOr, Bloomed
  <1>3. CASE ~(pos < NumColumns)
    BY <1>1, <1>3, LastColumn DEF NextColumnOr, Bloomed
  <1> QED BY <1>2, <1>3

\* A step of that loop.
LEMMA BloomStepIs ==
  ASSUME NoBloomFilter \/ DeferBloomFilter \/ WriteBloomFilter
  PROVE  /\ job # << >> /\ phase = "bloom" /\ job' = job /\ job[1].op = "rowGroup"
         /\ NextColumnOr("append") /\ UNCHANGED <<cw, rowGroups, done, status>>
  BY DEF NoBloomFilter, DeferBloomFilter, WriteBloomFilter, InRowGroup, Running, rgVars, outVars

\* Where a column that the loop has passed goes.
LEMMA BloomedMoves ==
  ASSUME TypeOK, Control, [Next]_vars, NEW k \in Columns, Bloomed(k)
  PROVE  \/ Bloomed(k)'
         \/ WriteRowGroupFails /\ job' = job /\ phase' = "abort" /\ pos' = 1
         \/ AppendRowGroup /\ job' = job /\ phase' = "reset" /\ pos' = 1
  <1>1. job # << >> /\ phase \in {"bloom", "append"}
    BY DEF Bloomed
  <1>2. CASE Still
    BY <1>2 DEF Still, mainVars, Bloomed
  <1>3. CASE NoBloomFilter \/ DeferBloomFilter \/ WriteBloomFilter
    BY <1>1, <1>3, BloomStepIs, BloomLoop
  <1>4. CASE WriteRowGroupFails \/ AppendRowGroup
    BY <1>4 DEF WriteRowGroupFails, AppendRowGroup
  <1>5. /\ ~FlushRowGroupColumn /\ ~FlushRowGroupColumnFails /\ ~FlushFilterPagesFails /\ ~WriteHeader /\ ~WriteColumnPages
        /\ ~ResetRowGroupColumn /\ ~PutDeferredBuffer /\ ~DeferredBuffersReturned
    BY <1>1 DEF FlushRowGroupColumn, FlushRowGroupColumnFails, FlushFilterPagesFails, WriteHeader,
      WriteColumnPages,
       ResetRowGroupColumn, PutDeferredBuffer, DeferredBuffersReturned, InRowGroup
  <1> QED BY <1>1, <1>2, <1>3, <1>4, <1>5, LateSteps

\* The loop that empties the columns goes on, or ends.
LEMMA ResetMoves ==
  ASSUME TypeOK, Control, [Next]_vars, job # << >>, phase \in {"reset", "abort"}
  PROVE  \/ Still
         \/ ResetRowGroupColumn /\ UNCHANGED <<job, phase>> /\ pos < NumColumns /\ pos' = pos + 1
         \/ ResetRowGroupColumn /\ pos = NumColumns /\ phase' = "start" /\ (phase = "abort" => status' = "failed")
  <1>1. CASE ResetRowGroupColumn /\ pos < NumColumns
    BY <1>1 DEF ResetRowGroupColumn, NextColumnOr
  <1>2. CASE ResetRowGroupColumn /\ ~(pos < NumColumns)
    BY <1>2, LastColumn DEF ResetRowGroupColumn, NextColumnOr
  <1>3. /\ ~FlushRowGroupColumn /\ ~FlushRowGroupColumnFails /\ ~FlushFilterPagesFails /\ ~WriteHeader /\ ~WriteColumnPages
        /\ ~NoBloomFilter /\ ~DeferBloomFilter /\ ~WriteBloomFilter /\ ~WriteRowGroupFails /\ ~AppendRowGroup
        /\ ~PutDeferredBuffer /\ ~DeferredBuffersReturned
    BY DEF FlushRowGroupColumn, FlushRowGroupColumnFails, FlushFilterPagesFails, WriteHeader,
      WriteColumnPages, NoBloomFilter,
       DeferBloomFilter, WriteBloomFilter, WriteRowGroupFails, AppendRowGroup, PutDeferredBuffer,
       DeferredBuffersReturned, InRowGroup
  <1> QED BY <1>1, <1>2, <1>3, LateSteps

\* The pages of a column go to the file, the place of its filter stays.
LEMMA PagesKeepFilter ==
  ASSUME TypeOK, WriteColumnPages
  PROVE  \A k \in Columns : meta'[k].bloomFilterOffset = meta[k].bloomFilterOffset
  <1> DEFINE c == cw[Group][pos]
             dict == pos \in DictionaryColumns
             base == IF dict THEN offset + HeaderSize + DictionaryBytes(c) ELSE offset
             m == [meta[pos] EXCEPT !.dictionaryPageOffset = IF dict THEN offset ELSE 0,
                                    !.dataPageOffset = IF c.pages = << >> THEN 0 ELSE base,
                                    !.locations = Rebased(c.locations, base)]
  <1>1. pos \in Columns /\ meta \in [Columns -> ColumnChunk]
    BY DEF TypeOK
  <1>2. meta' = [meta EXCEPT ![pos] = m]
    BY DEF WriteColumnPages
  <1>3. m.bloomFilterOffset = meta[pos].bloomFilterOffset
    BY <1>1 DEF ColumnChunk
  <1> HIDE DEF m
  <1> QED BY <1>1, <1>2, <1>3

\* No step leaves the offset of a filter in metadata that is used again.
LEMMA MetaCleanStep ==
  ASSUME TypeOK, TypeOK', Control, [Next]_vars, MetaClean
  PROVE  MetaClean'
  <1> DEFINE Resetting(k) == job # << >> /\ phase \in {"reset", "abort"} /\ pos <= k
  <1> SUFFICES ASSUME NEW k \in Columns, meta'[k].bloomFilterOffset # 0
               PROVE  Bloomed(k)' \/ Resetting(k)'
    BY DEF MetaClean
  <1>1. /\ k \in Nat /\ pos \in Nat /\ 1 <= k /\ pos \in Columns
        /\ meta \in [Columns -> ColumnChunk]
    BY LastColumn, ColumnAssumption DEF TypeOK, Columns
  <1>2. CASE ResetRowGroupColumn
    <2>1. job # << >> /\ phase \in {"reset", "abort"} /\ meta' = [meta EXCEPT ![pos] = NoChunk]
      BY <1>2 DEF ResetRowGroupColumn
    <2>2. k # pos /\ meta'[k] = meta[k]
      BY <1>1, <2>1 DEF NoChunk
    <2>3. pos <= k
      BY <2>1, <2>2 DEF MetaClean, Bloomed
    <2>4. pos < NumColumns
      BY <1>1, <2>2, <2>3, LastColumn DEF Columns
    <2>5. job' = job /\ phase' = phase /\ pos' = pos + 1
      BY <1>2, <2>4 DEF ResetRowGroupColumn, NextColumnOr
    <2>6. pos + 1 <= k
      BY <1>1, <2>2, <2>3
    <2> QED BY <2>1, <2>5, <2>6
  <1>3. CASE WriteBloomFilter /\ k = pos
    BY <1>3, BloomStepIs, BloomLoop
  <1>4. CASE ~ResetRowGroupColumn /\ ~(WriteBloomFilter /\ k = pos)
    <2>1. meta'[k].bloomFilterOffset = meta[k].bloomFilterOffset
      <3>1. CASE UNCHANGED meta
        BY <3>1
      <3>2. CASE WriteBloomFilter
        BY <1>1, <1>4, <3>2 DEF WriteBloomFilter
      <3>3. CASE WriteColumnPages
        BY <1>1, <3>3, PagesKeepFilter
      <3> QED BY <1>4, <3>1, <3>2, <3>3, StateChanges
    <2>2. CASE Bloomed(k)
      BY <1>1, <2>2, BloomedMoves DEF Bloomed
    <2>3. CASE Resetting(k)
      BY <1>4, <2>3, ResetMoves DEF Still, mainVars
    <2> QED BY <2>1, <2>2, <2>3 DEF MetaClean
  <1> QED BY <1>2, <1>3, <1>4

\* What failed stays so until Reset.
LEMMA FailedKept ==
  ASSUME TypeOK, Control, [Next]_vars, status = "failed"
  PROVE  status' = "failed" \/ (DeferredBuffersReturned /\ job[1].op = "reset")
  BY StateChanges DEF WriteFooter, Running, Control, StatusFits, DeferredBuffersReturned

\* So a filter stays as early as it was.
LEMMA EarlyKept ==
  ASSUME TypeOK, Control, [Next]_vars, CloseOrder, NEW k \in Columns, Early(k), deferred # << >>,
         ~AppendRowGroup, ~DeferredBuffersReturned
  PROVE  Early(k)'
  <1>1. CASE Bloomed(k)
    BY <1>1, BloomedMoves DEF Early, Bloomed
  <1>2. CASE job # << >> /\ phase = "abort"
    BY <1>2, ResetMoves DEF Early, Still, mainVars
  <1>3. CASE status = "failed"
    BY <1>3, FailedKept DEF Early
  <1>4. CASE job = ResetJob
    <2>1. job # << >> /\ job[1].op = "reset" /\ phase \in {"put", "reset"}
      <3>1. ResetJob # << >> /\ ResetJob[1].op = "reset"
        BY JobOps, JobTails, Zenon
      <3> QED BY <1>4, <3>1 DEF Control, PhaseFits
    <2>2. phase = "put"
      BY <1>4, <2>1 DEF CloseOrder
    <2>3. /\ ~FlushRowGroupColumn /\ ~FlushRowGroupColumnFails /\ ~FlushFilterPagesFails /\ ~WriteHeader /\ ~WriteColumnPages
          /\ ~NoBloomFilter /\ ~DeferBloomFilter /\ ~WriteBloomFilter /\ ~WriteRowGroupFails /\ ~AppendRowGroup
          /\ ~ResetRowGroupColumn
      BY <2>1, <2>2 DEF FlushRowGroupColumn, FlushRowGroupColumnFails, FlushFilterPagesFails,
        WriteHeader, WriteColumnPages, NoBloomFilter,
         DeferBloomFilter, WriteBloomFilter, WriteRowGroupFails, AppendRowGroup, ResetRowGroupColumn,
         InRowGroup
    <2>4. job' = job
      BY <2>1, <2>2, <2>3, LateSteps DEF Still, mainVars, PutDeferredBuffer
    <2> QED BY <1>4, <2>4 DEF Early
  <1> QED BY <1>1, <1>2, <1>3, <1>4 DEF Early

\* A deferred filter is that of a row group in the file or of the one being written.
LEMMA DeferredFitsStep ==
  ASSUME TypeOK, TypeOK', Control, [Next]_vars, CloseOrder, DeferredFits
  PROVE  DeferredFits'
  <1> DEFINE Place(d) == \/ d.group \in 1 .. Len(rowGroups)
                         \/ d.group = RowGroupIndex /\ Early(d.column)
  <1>0. /\ rowGroups \in Seq(RowGroup) /\ deferred \in Seq(DeferredFilter)
        /\ Len(rowGroups) \in Nat /\ Len(deferred) \in Nat
    <2>1. rowGroups \in Seq(RowGroup) /\ deferred \in Seq(DeferredFilter)
      BY DEF TypeOK
    <2> QED BY <2>1
  <1>1. \A j \in 1 .. Len(deferred) : deferred[j].column \in Columns /\ Place(deferred[j])
    <2> TAKE j \in 1 .. Len(deferred)
    <2>1. deferred[j] \in DeferredFilter
      BY <1>0
    <2>2. deferred[j].column \in Columns
      BY <2>1 DEF DeferredFilter
    <2> QED BY <2>2 DEF DeferredFits
  <1>2. ASSUME NEW j \in 1 .. Len(deferred), ~DeferredBuffersReturned
        PROVE  \/ deferred[j].group \in 1 .. Len(rowGroups')
               \/ deferred[j].group = RowGroupIndex' /\ \E k \in Columns : k = deferred[j].column /\ Early(k)'
    <2>1. deferred # << >>
      BY <1>0
    <2>2. CASE AppendRowGroup
      BY <1>0, <1>1, <2>2 DEF AppendRowGroup, RowGroupIndex
    <2>3. CASE ~AppendRowGroup
      <3>1. Len(rowGroups') = Len(rowGroups)
        BY <1>0, <1>2, <2>3, FileGrows DEF WriteDeferredBloomFilter
      <3>2. CASE deferred[j].group \in 1 .. Len(rowGroups)
        BY <3>1, <3>2
      <3>3. CASE deferred[j].group = RowGroupIndex /\ Early(deferred[j].column)
        <4>1. PICK k \in Columns : k = deferred[j].column /\ Early(k)
          BY <1>1, <3>3
        <4>2. Early(k)'
          BY <1>2, <2>1, <2>3, <4>1, EarlyKept
        <4>3. deferred[j].group = RowGroupIndex'
          BY <3>1, <3>3 DEF RowGroupIndex
        <4> QED BY <4>1, <4>2, <4>3
      <3> QED BY <1>1, <3>2, <3>3
    <2> QED BY <2>2, <2>3
  <1>3. ASSUME NEW d, \/ d.group \in 1 .. Len(rowGroups')
                      \/ d.group = RowGroupIndex' /\ \E k \in Columns : k = d.column /\ Early(k)',
               NEW j \in 1 .. Len(deferred'), deferred'[j] = d
        PROVE  \/ deferred'[j].group \in 1 .. Len(rowGroups')
               \/ deferred'[j].group = RowGroupIndex' /\ Early(deferred[j].column)'
    BY <1>3 DEF Early, Bloomed
  <1> HIDE DEF Place
  <1>4. CASE DeferredBuffersReturned
    BY <1>4 DEF DeferredBuffersReturned, DeferredFits
  <1>5. CASE UNCHANGED deferred /\ ~DeferredBuffersReturned
    BY <1>2, <1>3, <1>5 DEF DeferredFits
  <1>6. CASE DeferBloomFilter
    <2> DEFINE d == [group |-> RowGroupIndex, column |-> pos, values |-> cw[Group][pos].filter.values,
                     buffer |-> taken[Group]]
    <2>1. deferred' = Append(deferred, d) /\ UNCHANGED rowGroups /\ ~DeferredBuffersReturned
      BY <1>6 DEF DeferBloomFilter, DeferredBuffersReturned, InRowGroup
    <2>2. d.group = RowGroupIndex' /\ d.column = pos /\ pos \in Columns
      BY <2>1 DEF RowGroupIndex, TypeOK
    <2>3. \A k \in Columns : k = pos => Early(k)'
      BY <1>6, BloomStepIs, BloomLoop DEF Early
    <2>4. \E k \in Columns : k = d.column /\ Early(k)'
      BY <2>2, <2>3
    <2> HIDE DEF d
    <2>5. \A j \in 1 .. Len(deferred') : deferred'[j] = d \/ \E i \in 1 .. Len(deferred) : deferred'[j] = deferred[i]
      BY <1>0, <2>1
    <2>6. \A j \in 1 .. Len(deferred') :
               \/ deferred'[j].group \in 1 .. Len(rowGroups')
               \/ deferred'[j].group = RowGroupIndex' /\ Early(deferred[j].column)'
      <3> TAKE j \in 1 .. Len(deferred')
      <3>1. CASE deferred'[j] = d
        BY <1>3, <2>2, <2>4, <3>1
      <3>2. CASE \E i \in 1 .. Len(deferred) : deferred'[j] = deferred[i]
        BY <1>2, <1>3, <2>1, <3>2
      <3> QED BY <2>5, <3>1, <3>2
    <2> QED BY <2>6 DEF DeferredFits
  <1>7. CASE PutDeferredBuffer
    <2>1. deferred' = Tail(deferred) /\ deferred # << >> /\ ~DeferredBuffersReturned
      BY <1>7 DEF PutDeferredBuffer, DeferredBuffersReturned
    <2>2. \A j \in 1 .. Len(deferred') : j + 1 \in 1 .. Len(deferred) /\ deferred'[j] = deferred[j + 1]
      BY <1>0, <2>1
    <2>3. \A j \in 1 .. Len(deferred') :
               \/ deferred'[j].group \in 1 .. Len(rowGroups')
               \/ deferred'[j].group = RowGroupIndex' /\ Early(deferred[j].column)'
      BY <1>2, <1>3, <2>1, <2>2
    <2> QED BY <2>3 DEF DeferredFits
  <1> QED BY <1>4, <1>5, <1>6, <1>7, StateChanges

\* The offset moves on, until Reset.
LEMMA OffsetMoves ==
  ASSUME TypeOK, [Next]_vars, offset # 0
  PROVE  offset' # 0 \/ (DeferredBuffersReturned /\ job[1].op = "reset")
  <1>1. offset \in Nat /\ offset > 0
    BY DEF TypeOK
  <1>2. CASE UNCHANGED <<file, offset>>
    BY <1>2
  <1>3. CASE WriteHeader \/ CloseHeader
    BY <1>1, <1>3 DEF WriteHeader, CloseHeader, PutMagic
  <1>4. CASE WriteColumnPages
    <2> DEFINE c == cw[Group][pos]
               base == IF pos \in DictionaryColumns THEN offset + HeaderSize + DictionaryBytes(c) ELSE offset
    <2>1. offset' = base + c.pageBytes /\ job # << >>
      BY <1>4 DEF WriteColumnPages, InRowGroup, Running
    <2>2. c \in ColumnWriterState
      BY <2>1, GroupColumn
    <2> HIDE DEF c
    <2>3. c.pageBytes \in Nat /\ DictionaryBytes(c) \in Nat /\ HeaderSize \in Nat
      BY <2>2, DictionaryBytesType, ColumnAssumption DEF ColumnWriterState
    <2> QED BY <1>1, <2>1, <2>3
  <1>5. CASE WriteBloomFilter \/ WriteDeferredBloomFilter
    <2>1. \E values : Output(BloomSegment(values, offset))
      BY <1>5 DEF WriteBloomFilter, WriteDeferredBloomFilter
    <2>2. \A values : BloomSegment(values, offset).size = HeaderSize + 1
      BY DEF BloomSegment, BloomSize
    <2>3. offset' = offset + (HeaderSize + 1)
      BY <2>1, <2>2 DEF Output
    <2> QED BY <1>1, <2>3, ColumnAssumption
  <1>6. CASE WriteFooter
    BY <1>1, <1>6, ColumnAssumption DEF WriteFooter, Output, FooterSize
  <1>7. CASE DeferredBuffersReturned
    BY <1>1, <1>7 DEF DeferredBuffersReturned
  <1> QED BY <1>2, <1>3, <1>4, <1>5, <1>6, <1>7, OutputUnchanged DEF OutputStep

\* How Close gets to the next of its jobs.
LEMMA CloseComes ==
  ASSUME TypeOK, Control, [Next]_vars, status' # "failed",
         job' \in {CloseJob, CloseJob2, CloseJob3, CloseJob4, CloseJob5}
  PROVE  \/ job' = job
         \/ job = << >> /\ job' = CloseJob
         \/ job = CloseJob /\ job' = CloseJob2
         \/ job = CloseJob2 /\ job' = CloseJob3 /\ CloseHeader
         \/ job = CloseJob3 /\ job' = CloseJob4
         \/ job = CloseJob4 /\ job' = CloseJob5 /\ DeferredBuffersReturned
  <1>1. PICK j : j = job' /\ j \in {CloseJob, CloseJob2, CloseJob3, CloseJob4, CloseJob5}
    OBVIOUS
  <1>2. /\ CloseJob[1].op = "closeColumns" /\ CloseJob2[1].op = "header" /\ CloseJob3[1].op = "rowGroup"
        /\ CloseJob4[1].op = "deferred" /\ CloseJob5[1].op = "footer" /\ ResetJob[1].op = "reset"
        /\ OnPath("copyRows")[1].op = "copyRows"
    BY JobOps
  <1>3. /\ \A g : j # RowGroupJob(g) /\ j # CommitJob(g)
        /\ \A p \in Paths \cup {"copyRows"} : j # BeforePath(p) /\ j # OnPath(p)
        /\ j # << >> /\ j # ResetJob
    <2>1. /\ CloseJob # << >> /\ CloseJob2 # << >> /\ CloseJob3 # << >> /\ CloseJob4 # << >> /\ CloseJob5 # << >>
      BY JobTails, Zenon
    <2> QED BY <1>1, <1>2, <2>1, JobsDiffer
  <1>4. ASSUME job = << >>
        PROVE  j = job \/ j = CloseJob
    BY <1>1, <1>3, <1>4, JobStarts DEF Paths
  <1>5. ASSUME job # << >>, j # job
        PROVE  NextJob
    BY <1>1, <1>3, <1>5, JobMoves
  <1>6. ASSUME NextJob
        PROVE  \/ job = CloseJob /\ j = CloseJob2
               \/ job = CloseJob2 /\ j = CloseJob3
               \/ job = CloseJob3 /\ j = CloseJob4
               \/ job = CloseJob4 /\ j = CloseJob5
    BY <1>1, <1>3, <1>6 DEF NextJob
  <1>7. ASSUME job = CloseJob2, j = CloseJob3
        PROVE  CloseHeader
    BY <1>1, <1>2, <1>7, CloseSteps
  <1>8. ASSUME job = CloseJob4, j = CloseJob5
        PROVE  DeferredBuffersReturned
    BY <1>1, <1>2, <1>8, CloseSteps
  <1> QED BY <1>1, <1>4, <1>5, <1>6, <1>7, <1>8

\* A writer that closes did not fail.
LEMMA CloseOpen ==
  ASSUME Control', job' \in {CloseJob, CloseJob2, CloseJob3, CloseJob4, CloseJob5}
  PROVE  status' # "failed"
  <1>1. /\ CloseJob[1].op = "closeColumns" /\ CloseJob2[1].op = "header" /\ CloseJob3[1].op = "rowGroup"
        /\ CloseJob5[1].op = "footer"
    BY JobOps
  <1>2. /\ CloseJob # << >> /\ CloseJob2 # << >> /\ CloseJob3 # << >> /\ CloseJob5 # << >>
    BY JobTails, Zenon
  <1>3. job' = CloseJob4 \/ (job' # << >> /\ job'[1].op \notin {"reset", "deferred"})
    BY <1>1, <1>2
  <1> QED BY <1>3 DEF Control, StatusFits

\* The header comes first.
LEMMA HeaderWrittenStep ==
  ASSUME TypeOK, Control, Control', [Next]_vars, HeaderWritten
  PROVE  HeaderWritten'
  <1> SUFFICES ASSUME job' # << >>, phase' \in {"pages", "bloom", "append"} \/ job' \in {CloseJob3, CloseJob4, CloseJob5}
               PROVE  offset' # 0
    BY DEF HeaderWritten
  <1>1. CASE offset # 0
    <2>1. ~(DeferredBuffersReturned /\ job[1].op = "reset")
      <3> SUFFICES ASSUME DeferredBuffersReturned, job[1].op = "reset"
                   PROVE  FALSE
        OBVIOUS
      <3>1. job' = job /\ phase' = "reset"
        BY DEF DeferredBuffersReturned
      <3>2. CloseJob3[1].op = "rowGroup" /\ CloseJob4[1].op = "deferred" /\ CloseJob5[1].op = "footer"
        BY JobOps
      <3> QED BY <3>1, <3>2
    <2> QED BY <1>1, <2>1, OffsetMoves
  <1>2. CASE offset = 0 /\ phase' \in {"pages", "bloom", "append"}
    <2>1. job # << >> => phase \notin {"pages", "bloom", "append"}
      BY <1>2 DEF HeaderWritten
    <2>2. WriteHeader => offset' # 0
      BY <1>2 DEF WriteHeader, PutMagic, Output, MagicSize
    <2>3. (job # << >> /\ Still) => phase' = phase
      BY DEF Still, mainVars
    <2>4. ~StartRowGroup /\ ~FlushRowGroupColumnFails /\ ~FlushFilterPagesFails /\ ~WriteRowGroupFails /\ ~AppendRowGroup
      BY <1>2 DEF StartRowGroup, FlushRowGroupColumnFails, FlushFilterPagesFails, WriteRowGroupFails,
        AppendRowGroup
    <2>5. ~DeferredBuffersReturned /\ ~ResetRowGroupColumn /\ ~FlushRowGroupColumn
      BY <1>2 DEF DeferredBuffersReturned, ResetRowGroupColumn, FlushRowGroupColumn, NextColumnOr,
        InRowGroup
    <2>6. ~WriteColumnPages /\ ~NoBloomFilter /\ ~DeferBloomFilter /\ ~WriteBloomFilter
      BY <2>1 DEF WriteColumnPages, NoBloomFilter, DeferBloomFilter, WriteBloomFilter, InRowGroup, Running
    <2> QED BY <1>2, <2>1, <2>2, <2>3, <2>4, <2>5, <2>6, PhaseMoves
  <1>3. CASE offset = 0 /\ job' \in {CloseJob3, CloseJob4, CloseJob5}
    <2>1. status' # "failed"
      BY <1>3, CloseOpen
    <2>2. job # << >> => job \notin {CloseJob3, CloseJob4, CloseJob5}
      BY <1>3 DEF HeaderWritten
    <2>3. /\ CloseJob[1].op = "closeColumns" /\ CloseJob2[1].op = "header" /\ CloseJob3[1].op = "rowGroup"
          /\ CloseJob4[1].op = "deferred" /\ CloseJob5[1].op = "footer"
      BY JobOps
    <2>4. CloseJob3 # << >> /\ CloseJob4 # << >> /\ CloseJob5 # << >>
      BY JobTails, Zenon
    <2>5. CloseHeader
      BY <1>3, <2>1, <2>2, <2>3, <2>4, CloseComes
    <2> QED BY <1>3, <2>5 DEF CloseHeader, PutMagic, Output, MagicSize
  <1> QED BY <1>1, <1>2, <1>3

\* Close begins with no deferred filter written.
LEMMA CloseBegins ==
  ASSUME TypeOK, Control, [Next]_vars, job = << >>, job' = CloseJob
  PROVE  done' = 0
  <1>1. /\ CloseJob # << >> /\ CloseJob # ResetJob /\ \A g : CloseJob # RowGroupJob(g)
        /\ CloseJob[1].op = "closeColumns"
    <2>1. CloseJob # << >>
      BY JobTails, Zenon
    <2>2. CloseJob[1].op = "closeColumns" /\ ResetJob[1].op = "reset"
      BY JobOps
    <2> QED BY <2>1, <2>2, JobsDiffer
  <1>2. CASE UNCHANGED allButPool
    BY <1>1, <1>2 DEF allButPool, mainVars
  <1>3. CASE ApplicationCall
    <2>1. ASSUME NEW g, NEW n, NEW kind, WriteRows(g, n, kind) \/ FlushGroup(g)
          PROVE  job' = job
      BY <2>1 DEF WriteRows, FlushGroup, mainVars
    <2>2. ASSUME NEW n, NEW kind, WriteRowGroup(n, kind)
          PROVE  done' = 0
      BY <2>2 DEF WriteRowGroup
    <2>3. Reset => job' = ResetJob
      BY DEF Reset, ResetJob
    <2> QED BY <1>1, <1>3, <2>1, <2>2, <2>3 DEF ApplicationCall, Commit, Flush, Close, Call
  <1>4. ASSUME NEW h \in Groups, GroupStep(h)
        PROVE  FALSE
    <2>1. CASE GroupFull(h)
      <3>1. job' = job \/ job' = <<OnRowGroup(0)>> \o job
        BY <2>1 DEF GroupFull
      <3>2. <<OnRowGroup(0)>> \o << >> = <<OnRowGroup(0)>>
        OBVIOUS
      <3>3. job' = << >> \/ job' = RowGroupJob(0)
        BY <3>1, <3>2 DEF RowGroupJob
      <3> QED BY <1>1, <3>3
    <2>2. CASE WriteColumnFails(h) \/ FlushGroupColumnFails(h)
      BY <1>1, <2>2 DEF WriteColumnFails, FlushGroupColumnFails, Fail
    <2> QED BY <1>1, <1>4, <2>1, <2>2 DEF GroupStep, NextChunk, WriteColumn, FlushGroupColumn, mainVars
  <1>5. ~MainStep
    BY DEF MainStep, SkipEmptyRowGroup, TooManyRowGroups, StartRowGroup, WriteHeader,
           WriteColumnPages, WriteBloomFilter, CloseHeader, WriteFooter, AppendRowGroup,
           FlushRowGroupColumn, FlushRowGroupColumnFails, FlushFilterPagesFails, NoBloomFilter,
           DeferBloomFilter,
           WriteRowGroupFails, ResetRowGroupColumn, CloseColumn, WriteDeferredBloomFilter,
           CloseColumnFails, DeferredBloomFiltersWritten, PutDeferredBuffer, CloseFails,
           DeferredBuffersReturned, LoadCopiedChunk, StartCopyRows, RowsCopied, CopyRowsFails, Fail,
           ReencodeBatch, ReencodeBatchFails, WriteRowGroupSourceFails, InRowGroup, Running
  <1> QED BY <1>2, <1>3, <1>4, <1>5, NextCases

\* None is written before their turn.
LEMMA CloseStarts ==
  ASSUME TypeOK, Control, Control', [Next]_vars, CloseOrder,
         job' \in {CloseJob, CloseJob2, CloseJob3} \/ (job' = CloseJob4 /\ job' # job)
  PROVE  done' = 0
  <1>1. status' # "failed"
    BY CloseOpen
  <1>2. /\ CloseJob[1].op = "closeColumns" /\ CloseJob2[1].op = "header" /\ CloseJob3[1].op = "rowGroup"
        /\ CloseJob4[1].op = "deferred" /\ CloseJob5[1].op = "footer"
    BY JobOps
  <1>3. (job = << >> /\ job' = CloseJob) \/ job \in {CloseJob, CloseJob2, CloseJob3}
    BY <1>1, <1>2, CloseComes
  <1>4. CASE job = << >> /\ job' = CloseJob
    BY <1>4, CloseBegins
  <1>5. CASE job \in {CloseJob, CloseJob2, CloseJob3}
    BY <1>2, <1>5, StateChanges DEF CloseOrder, ReencodeBatch, ReencodeBatchFails,
      WriteDeferredBloomFilter, Running
  <1> QED BY <1>3, <1>4, <1>5

\* Few steps touch the deferred filters, and none of them in a job of Close but
\* the one that writes them.
LEMMA DeferredSame ==
  ASSUME [Next]_vars, job = << >> \/ job[1].op # "rowGroup", job = << >> \/ phase # "put" \/ deferred = << >>
  PROVE  UNCHANGED deferred
  BY StateChanges DEF DeferBloomFilter, InRowGroup, Running, PutDeferredBuffer

\* Close never runs past the last deferred filter.
LEMMA CloseCounts ==
  ASSUME TypeOK, TypeOK', Control, Control', [Next]_vars, CloseOrder, job' = CloseJob4, phase' = "start"
  PROVE  done' <= Len(deferred')
  <1>0. deferred \in Seq(DeferredFilter) /\ deferred' \in Seq(DeferredFilter) /\ done \in Nat
    BY DEF TypeOK
  <1>1. CloseJob4[1].op = "deferred" /\ CloseJob4 # << >> /\ CloseJob4 # CloseJob5
    <2>1. CloseJob4 # << >>
      BY JobTails, Zenon
    <2>2. CloseJob4[1].op = "deferred" /\ CloseJob5[1].op = "footer"
      BY JobOps
    <2> QED BY <2>1, <2>2
  <1>2. CASE job' # job
    BY <1>0, <1>2, CloseStarts
  <1>3. CASE job' = job
    <2>1. phase \in {"start", "put"} /\ job[1].op = "deferred" /\ job # << >>
      BY <1>1, <1>3 DEF Control, PhaseFits
    <2>2. phase = "start"
      <3> SUFFICES ASSUME phase = "put"
                   PROVE  FALSE
        BY <2>1
      <3>1. ~Still /\ ~PutDeferredBuffer
        BY DEF Still, PutDeferredBuffer, mainVars
      <3>2. ~DeferredBuffersReturned
        <4>1. Tail(CloseJob4) = CloseJob5
          BY JobTails, Zenon
        <4> QED BY <1>1, <1>3, <2>1, <4>1 DEF DeferredBuffersReturned
      <3>3. /\ ~FlushRowGroupColumn /\ ~FlushRowGroupColumnFails /\ ~FlushFilterPagesFails /\ ~WriteHeader /\ ~WriteColumnPages
            /\ ~NoBloomFilter /\ ~DeferBloomFilter /\ ~WriteBloomFilter /\ ~WriteRowGroupFails /\ ~AppendRowGroup
            /\ ~ResetRowGroupColumn
        BY DEF FlushRowGroupColumn, FlushRowGroupColumnFails, FlushFilterPagesFails, WriteHeader,
          WriteColumnPages, NoBloomFilter,
           DeferBloomFilter, WriteBloomFilter, WriteRowGroupFails, AppendRowGroup, ResetRowGroupColumn,
           InRowGroup
      <3> QED BY <2>1, <3>1, <3>2, <3>3, LateSteps
    <2>3. deferred' = deferred /\ done <= Len(deferred)
      BY <1>3, <2>1, <2>2, DeferredSame DEF CloseOrder
    <2>4. ~ReencodeBatch
      BY <2>1 DEF ReencodeBatch, ReencodeBatchFails, Running
    <2>5. WriteDeferredBloomFilter => done' = done + 1 /\ done < Len(deferred)
      BY DEF WriteDeferredBloomFilter
    <2>6. done' = done \/ done' = 0 \/ (done' = done + 1 /\ done < Len(deferred))
      BY <2>4, <2>5, StateChanges
    <2>7. Len(deferred) \in Nat
      BY <1>0
    <2> QED BY <1>0, <2>3, <2>6, <2>7
  <1> QED BY <1>2, <1>3

\* What is left of a Close that failed is to return the buffers.
LEMMA DeferredJobFailed ==
  ASSUME TypeOK, Control, [Next]_vars, CloseOrder, job' = DeferredJob
  PROVE  status' = "failed"
  <1>1. DeferredJob # << >> /\ DeferredJob[1].op = "deferred"
    BY JobOps, JobTails, Zenon
  <1>2. CASE job' = job
    BY <1>1, <1>2, FailedKept DEF CloseOrder
  <1>3. CASE job' # job /\ status' # "failed"
    <2>1. \A g : DeferredJob # RowGroupJob(g) /\ DeferredJob # CommitJob(g)
      BY JobsDiffer
    <2>2. \A p \in Paths \cup {"copyRows"} : DeferredJob # BeforePath(p) /\ DeferredJob # OnPath(p)
      BY JobsDiffer
    <2>3. DeferredJob \notin {CloseJob2, CloseJob3, CloseJob4, CloseJob5}
      <3>1. CloseJob2[1].op = "header" /\ CloseJob3[1].op = "rowGroup" /\ CloseJob5[1].op = "footer"
        BY JobOps
      <3>2. Len(DeferredJob) = 1 /\ Len(CloseJob4) = 2
        BY JobTails, Zenon
      <3>3. 1 # 2
        OBVIOUS
      <3>4. DeferredJob # CloseJob4
        BY <3>2, <3>3, Zenon
      <3> QED BY <1>1, <3>1, <3>4
    <2>4. ~NextJob
      BY <1>1, <2>1, <2>2, <2>3 DEF NextJob
    <2> QED BY <1>1, <1>3, <2>2, <2>4, JobMoves
  <1> QED BY <1>2, <1>3

\* A writer is closed without deferred filters.
LEMMA ClosedClean ==
  ASSUME TypeOK, Control, Control', [Next]_vars, CloseOrder, job' = CloseJob5 \/ status' = "closed"
  PROVE  deferred' = << >>
  <1>1. CASE job' = CloseJob5
    <2>1. status' # "failed"
      BY <1>1, CloseOpen
    <2>2. /\ CloseJob[1].op = "closeColumns" /\ CloseJob2[1].op = "header" /\ CloseJob3[1].op = "rowGroup"
          /\ CloseJob4[1].op = "deferred" /\ CloseJob5[1].op = "footer"
      BY JobOps
    <2>3. job' = job \/ DeferredBuffersReturned
      BY <1>1, <2>1, <2>2, CloseComes
    <2>4. CASE job' = job
      BY <1>1, <2>2, <2>4, DeferredSame DEF CloseOrder
    <2>5. CASE DeferredBuffersReturned
      BY <2>5 DEF DeferredBuffersReturned
    <2> QED BY <2>3, <2>4, <2>5
  <1>2. CASE status' = "closed"
    <2>1. CASE status = "closed"
      BY <2>1, DeferredSame DEF CloseOrder, Control, StatusFits
    <2>2. CASE WriteFooter
      BY <2>2, JobFirst DEF WriteFooter, Running, Control, CloseOrder
    <2>3. DeferredBuffersReturned => status' = "open" \/ UNCHANGED status
      BY DEF DeferredBuffersReturned
    <2> QED BY <1>2, <2>1, <2>2, <2>3, StateChanges
  <1> QED BY <1>1, <1>2

\* Reset starts with an empty file.
LEMMA ResetClean ==
  ASSUME TypeOK, Control, [Next]_vars, CloseOrder, job' = ResetJob, phase' = "reset"
  PROVE  deferred' = << >> /\ rowGroups' = << >>
  <1>1. ResetJob # << >> /\ ResetJob[1].op = "reset"
    BY JobOps, JobTails, Zenon
  <1>2. CASE job # << >> /\ Still
    BY <1>2 DEF Still, mainVars, outVars, CloseOrder
  <1>3. CASE ResetRowGroupColumn
    BY <1>2, <1>3, ResetMoves DEF ResetRowGroupColumn, Still, mainVars, CloseOrder
  <1>4. CASE DeferredBuffersReturned
    BY <1>4 DEF DeferredBuffersReturned
  <1>5. \/ StartRowGroup \/ FlushRowGroupColumn \/ FlushRowGroupColumnFails \/ FlushFilterPagesFails \/ WriteHeader
        \/ WriteColumnPages \/ NoBloomFilter \/ DeferBloomFilter \/ WriteBloomFilter
        \/ WriteRowGroupFails \/ AppendRowGroup
        => job' = job /\ job[1].op = "rowGroup"
    BY DEF StartRowGroup, FlushRowGroupColumn, FlushRowGroupColumnFails, FlushFilterPagesFails,
      WriteHeader, WriteColumnPages,
       NoBloomFilter, DeferBloomFilter, WriteBloomFilter, WriteRowGroupFails, AppendRowGroup,
       InRowGroup, Running
  <1> QED BY <1>1, <1>2, <1>3, <1>4, <1>5, PhaseMoves

\* Close writes all the deferred filters before the footer.
LEMMA CloseOrderStep ==
  ASSUME TypeOK, TypeOK', Control, Control', [Next]_vars, CloseOrder
  PROVE  CloseOrder'
  <1>1. job' \in {CloseJob, CloseJob2, CloseJob3} => done' = 0
    BY CloseStarts
  <1>2. (job' = CloseJob4 /\ phase' = "start") => done' <= Len(deferred')
    BY CloseCounts
  <1>3. job' = DeferredJob => status' = "failed"
    BY DeferredJobFailed
  <1>4. (job' = CloseJob5 \/ status' = "closed") => deferred' = << >>
    BY ClosedClean
  <1>5. (job' = ResetJob /\ phase' = "reset") => deferred' = << >> /\ rowGroups' = << >>
    BY ResetClean
  <1> QED BY <1>1, <1>2, <1>3, <1>4, <1>5 DEF CloseOrder

-----------------------------------------------------------------------------
(* Every step keeps the filters where the metadata says. *)

\* What the filters have they keep while the file grows and no other filter of
\* the column is deferred.
LEMMA FiltersKept ==
  ASSUME NEW f, NEW h, f \subseteq h, NEW ds, NEW es, NEW i, NEW m, NEW n, NEW k, NEW values,
         FiltersHave(f, ds, i, m, k, values), n.bloomFilterOffset = m.bloomFilterOffset,
         \A j \in Deferred(es, i, k) : \E l \in Deferred(ds, i, k) : es[j] = ds[l]
  PROVE  FiltersHave(h, es, i, n, k, values)
  BY DEF FiltersHave, FilterAt

\* How a column comes to be passed by the loop over the filters.
LEMMA BloomedComes ==
  ASSUME TypeOK, Control, [Next]_vars, NEW k \in Columns, Bloomed(k)'
  PROVE  \/ job # << >> /\ Still /\ Bloomed(k)
         \/ (NoBloomFilter \/ DeferBloomFilter \/ WriteBloomFilter) /\ (Bloomed(k) \/ k = pos)
  <1>1. job' # << >> /\ phase' \in {"bloom", "append"} /\ (phase' = "bloom" => k < pos')
    BY DEF Bloomed
  <1>2. CASE job # << >> /\ Still
    BY <1>2 DEF Still, mainVars, Bloomed
  <1>3. CASE NoBloomFilter \/ DeferBloomFilter \/ WriteBloomFilter
    BY <1>3, BloomStepIs, BloomLoop
  <1>4. /\ ~StartRowGroup /\ ~FlushRowGroupColumn /\ ~FlushRowGroupColumnFails /\ ~FlushFilterPagesFails /\ ~WriteHeader
        /\ ~WriteRowGroupFails /\ ~AppendRowGroup /\ ~ResetRowGroupColumn /\ ~DeferredBuffersReturned
    BY <1>1 DEF StartRowGroup, FlushRowGroupColumn, FlushRowGroupColumnFails, FlushFilterPagesFails,
      WriteHeader,
       WriteRowGroupFails, AppendRowGroup, ResetRowGroupColumn, DeferredBuffersReturned, NextColumnOr,
       InRowGroup
  <1>5. ~WriteColumnPages
    <2> SUFFICES ASSUME WriteColumnPages
                 PROVE  FALSE
      OBVIOUS
    <2>1. phase' = "bloom" /\ pos' = 1
      BY <1>1 DEF WriteColumnPages, NextColumnOr, InRowGroup
    <2> QED BY <1>1, <2>1, LastColumn
  <1> QED BY <1>1, <1>2, <1>3, <1>4, <1>5, PhaseMoves

\* A column that the loop comes to has no filter in the file or kept for Close.
LEMMA NoFilterYet ==
  ASSUME TypeOK, Control, FilterControl, job # << >>, phase = "bloom", job[1].op = "rowGroup"
  PROVE  meta[pos].bloomFilterOffset = 0 /\ Deferred(deferred, RowGroupIndex, pos) = {}
  <1>1. pos \in Columns /\ pos \in Nat /\ Len(rowGroups) \in Nat
    BY LastColumn DEF TypeOK
  <1>2. ~Bloomed(pos) /\ ~Early(pos)
    <2>1. ~Bloomed(pos)
      BY <1>1 DEF Bloomed
    <2>2. status # "failed"
      BY DEF Control, StatusFits
    <2>3. job # ResetJob
      BY JobOps
    <2> QED BY <2>1, <2>2, <2>3 DEF Early
  <1>3. meta[pos].bloomFilterOffset = 0
    BY <1>1, <1>2 DEF FilterControl, MetaClean
  <1>4. ASSUME NEW j \in Deferred(deferred, RowGroupIndex, pos)
        PROVE  FALSE
    BY <1>1, <1>2 DEF Deferred, RowGroupIndex, FilterControl, DeferredFits
  <1> QED BY <1>3, <1>4

\* A filter of the row group that is being written is in the file or deferred.
LEMMA CurrentFilteredStep ==
  ASSUME TypeOK, TypeOK', Control, [Next]_vars, FiltersComplete, FilterControl, CurrentFiltered
  PROVE  CurrentFiltered'
  <1> SUFFICES ASSUME NEW k \in Columns, Bloomed(k)'
               PROVE  /\ FiltersHave(file', deferred', RowGroupIndex', meta'[k], k, ValuesOf(k, EncodedRows(cw'[Group'][k])))
                      /\ k \in FilterColumns => meta'[k].bloomFilterOffset # 0 \/ Deferred(deferred', RowGroupIndex', k) # {}
    BY DEF CurrentFiltered
  <1>0. /\ meta \in [Columns -> ColumnChunk] /\ deferred \in Seq(DeferredFilter) /\ pos \in Columns /\ pos \in Nat
        /\ offset \in Nat /\ Len(deferred) \in Nat
    <2>1. meta \in [Columns -> ColumnChunk] /\ deferred \in Seq(DeferredFilter) /\ pos \in Columns /\ offset \in Nat
      BY DEF TypeOK
    <2> QED BY <2>1, LastColumn
  <1>1. CASE job # << >> /\ Still /\ Bloomed(k)
    <2>1. UNCHANGED <<file, deferred, rowGroups, meta, job>> /\ cw'[Group] = cw[Group]
      BY <1>1 DEF Still, mainVars, outVars
    <2>2. Group' = Group /\ RowGroupIndex' = RowGroupIndex
      BY <2>1 DEF Group, RowGroupIndex
    <2>3. /\ FiltersHave(file, deferred, RowGroupIndex, meta[k], k, ValuesOf(k, EncodedRows(cw[Group][k])))
          /\ k \in FilterColumns => meta[k].bloomFilterOffset # 0 \/ Deferred(deferred, RowGroupIndex, k) # {}
      BY <1>1 DEF CurrentFiltered
    <2> QED BY <2>1, <2>2, <2>3
  <1>2. CASE (NoBloomFilter \/ DeferBloomFilter \/ WriteBloomFilter) /\ (Bloomed(k) \/ k = pos)
    <2> DEFINE i == RowGroupIndex
               c == cw[Group][k]
               values == ValuesOf(k, EncodedRows(c))
               d == [group |-> RowGroupIndex, column |-> pos, values |-> cw[Group][pos].filter.values,
                     buffer |-> taken[Group]]
    <2>1. /\ job # << >> /\ phase = "bloom" /\ UNCHANGED <<job, cw, rowGroups>> /\ job[1].op = "rowGroup"
      BY <1>2, BloomStepIs
    <2>2. RowGroupIndex' = i /\ cw'[Group'][k] = c
      BY <2>1 DEF RowGroupIndex, Group
    <2>3. /\ NoBloomFilter => UNCHANGED <<meta, file, deferred>> /\ ~cw[Group][pos].filter.allocated
          /\ DeferBloomFilter => UNCHANGED <<meta, file>> /\ deferred' = Append(deferred, d) /\ cw[Group][pos].filter.allocated
          /\ WriteBloomFilter => /\ UNCHANGED deferred /\ cw[Group][pos].filter.allocated
                                 /\ Output(BloomSegment(cw[Group][pos].filter.values, offset))
                                 /\ meta' = [meta EXCEPT ![pos] = [@ EXCEPT !.bloomFilterOffset = offset]]
      BY DEF NoBloomFilter, DeferBloomFilter, WriteBloomFilter, outVars
    <2>4. file \subseteq file'
      BY <1>2, <2>3 DEF Output
    <2>5. d.group = i /\ d.column = pos /\ d.values = cw[Group][pos].filter.values
      OBVIOUS
    <2> HIDE DEF i, c, values, d
    <2>6. deferred' = Append(deferred, d) =>
            /\ Len(deferred') = Len(deferred) + 1 /\ deferred'[Len(deferred) + 1] = d
            /\ \A j \in 1 .. Len(deferred) : deferred'[j] = deferred[j]
            /\ \A j \in 1 .. Len(deferred') : j \in 1 .. Len(deferred) \/ j = Len(deferred) + 1
      BY <1>0
    <2>7. CASE Bloomed(k) /\ k # pos
      <3>1. /\ FiltersHave(file, deferred, i, meta[k], k, values)
            /\ k \in FilterColumns => meta[k].bloomFilterOffset # 0 \/ Deferred(deferred, i, k) # {}
        BY <2>7 DEF CurrentFiltered, i, c, values
      <3>2. meta'[k] = meta[k]
        BY <1>0, <1>2, <2>3, <2>7
      <3>3. /\ \A j \in Deferred(deferred', i, k) : j \in Deferred(deferred, i, k) /\ deferred'[j] = deferred[j]
            /\ \A j \in Deferred(deferred, i, k) : j \in Deferred(deferred', i, k)
        BY <1>0, <1>2, <2>3, <2>5, <2>6, <2>7 DEF Deferred
      <3>4. FiltersHave(file', deferred', i, meta'[k], k, values)
        BY <2>4, <3>1, <3>2, <3>3, FiltersKept
      <3> QED BY <2>2, <3>1, <3>2, <3>3, <3>4 DEF c, values
    <2>8. CASE k = pos
      <3>1. meta[k].bloomFilterOffset = 0 /\ Deferred(deferred, i, k) = {}
        BY <2>1, <2>8, NoFilterYet DEF i
      <3>2. Complete(c, k)
        BY <2>1 DEF FiltersComplete, Writing, c
      <3>3. CASE NoBloomFilter
        BY <2>2, <2>3, <2>8, <3>1, <3>2, <3>3 DEF Complete, c, FiltersHave, values
      <3>4. CASE DeferBloomFilter
        <4>1. values \subseteq d.values
          BY <2>3, <2>5, <2>8, <3>2, <3>4 DEF Complete, c, values
        <4>2. \A j \in Deferred(deferred', i, k) : deferred'[j] = d
          BY <2>3, <2>6, <3>1, <3>4 DEF Deferred
        <4>3. Len(deferred) + 1 \in Deferred(deferred', i, k)
          BY <1>0, <2>3, <2>5, <2>6, <2>8, <3>4 DEF Deferred
        <4>4. FiltersHave(file', deferred', i, meta'[k], k, values)
          BY <2>3, <3>1, <3>4, <4>1, <4>2 DEF FiltersHave
        <4> QED BY <2>2, <4>3, <4>4 DEF c, values
      <3>5. CASE WriteBloomFilter
        <4> DEFINE s == BloomSegment(cw[Group][pos].filter.values, offset)
        <4>1. s \in file' /\ s.kind = "bloom" /\ s.at = offset /\ s.values = c.filter.values
          BY <2>3, <2>8, <3>5 DEF Output, BloomSegment, c
        <4> HIDE DEF s
        <4>2. values \subseteq c.filter.values
          BY <2>3, <2>8, <3>2, <3>5 DEF Complete, c, values
        <4>3. meta'[k].bloomFilterOffset = offset
          BY <1>0, <2>3, <2>8, <3>5 DEF ColumnChunk
        <4>4. offset # 0
          BY <2>1 DEF FilterControl, HeaderWritten
        <4>5. FilterAt(file', offset, values)
          BY <4>1, <4>2 DEF FilterAt
        <4>6. deferred' = deferred
          BY <2>3, <3>5
        <4>7. FiltersHave(file', deferred', i, meta'[k], k, values)
          BY <3>1, <4>3, <4>5, <4>6 DEF FiltersHave
        <4> QED BY <2>2, <4>3, <4>4, <4>7 DEF c, values
      <3> QED BY <1>2, <3>3, <3>4, <3>5
    <2> QED BY <1>2, <2>7, <2>8
  <1> QED BY <1>1, <1>2, BloomedComes

\* What Close writes of a deferred filter into the metadata.
LEMMA LocatedColumns ==
  ASSUME TypeOK, WriteDeferredBloomFilter
  PROVE  LET d == deferred[done + 1]
         IN  /\ done + 1 \in 1 .. Len(deferred) /\ Len(rowGroups') = Len(rowGroups)
             /\ \A i \in 1 .. Len(rowGroups), k \in Columns :
                  /\ rowGroups'[i].columns[k].locations = rowGroups[i].columns[k].locations
                  /\ rowGroups'[i].columns[k].dictionaryPageOffset = rowGroups[i].columns[k].dictionaryPageOffset
                  /\ rowGroups'[i].columns[k].bloomFilterOffset =
                       IF i = d.group /\ k = d.column THEN offset ELSE rowGroups[i].columns[k].bloomFilterOffset
  <1> DEFINE d == deferred[done + 1]
             located(r) == [r.columns[d.column] EXCEPT !.bloomFilterOffset = offset]
             columns(r) == [r.columns EXCEPT ![d.column] = located(r)]
             Result(i, k) ==
               /\ rowGroups'[i].columns[k].locations = rowGroups[i].columns[k].locations
               /\ rowGroups'[i].columns[k].dictionaryPageOffset = rowGroups[i].columns[k].dictionaryPageOffset
               /\ rowGroups'[i].columns[k].bloomFilterOffset =
                    IF i = d.group /\ k = d.column THEN offset ELSE rowGroups[i].columns[k].bloomFilterOffset
  <1>1. /\ rowGroups \in Seq(RowGroup) /\ deferred \in Seq(DeferredFilter) /\ done \in Nat
    BY DEF TypeOK
  <1>2. done + 1 \in 1 .. Len(deferred)
    BY <1>1 DEF WriteDeferredBloomFilter
  <1>3. rowGroups' = [rowGroups EXCEPT ![d.group] = LocateFilter(rowGroups[d.group], d.column, offset)]
    BY DEF WriteDeferredBloomFilter
  <1>4. Len(rowGroups') = Len(rowGroups)
    <2> HIDE DEF d
    <2> QED BY <1>1, <1>3
  <1>5. ASSUME NEW i \in 1 .. Len(rowGroups), NEW k \in Columns
        PROVE  Result(i, k)
    <2> DEFINE r == rowGroups[i]
    <2>1. r \in RowGroup
      BY <1>1
    <2>2. r.columns \in [Columns -> ColumnChunk]
      BY <2>1 DEF RowGroup
    <2>3. CASE i # d.group
      <3>1. rowGroups'[i] = r
        <4> HIDE DEF d
        <4> QED BY <1>1, <1>3, <2>3
      <3> HIDE DEF d
      <3> QED BY <2>3, <3>1
    <2>4. CASE i = d.group
      <3>1. rowGroups'[i] = LocateFilter(r, d.column, offset)
        <4> HIDE DEF d
        <4> QED BY <1>1, <1>3, <2>4
      <3>2. LocateFilter(r, d.column, offset) = [r EXCEPT !.columns = columns(r)]
        BY DEF LocateFilter
      <3>3. rowGroups'[i].columns = columns(r)
        <4> HIDE DEF columns, r
        <4> QED BY <2>1, <3>1, <3>2 DEF RowGroup
      <3>4. columns(r)[k] = IF k = d.column THEN located(r) ELSE r.columns[k]
        <4> HIDE DEF located, d, r
        <4> QED BY <2>2
      <3>5. k = d.column => /\ located(r).locations = r.columns[k].locations
                            /\ located(r).dictionaryPageOffset = r.columns[k].dictionaryPageOffset
                            /\ located(r).bloomFilterOffset = offset
        <4>1. r.columns[k] \in ColumnChunk
          BY <2>2
        <4> HIDE DEF d, r
        <4> QED BY <4>1 DEF ColumnChunk
      <3> HIDE DEF d, located, columns
      <3> QED BY <2>4, <3>3, <3>4, <3>5
    <2> QED BY <2>3, <2>4
  <1> HIDE DEF d
  <1> QED BY <1>2, <1>4, <1>5 DEF d

\* The deferred filters of the row groups of the file stay, or are returned.
LEMMA DeferredStay ==
  ASSUME TypeOK, [Next]_vars, NEW i \in 1 .. Len(rowGroups), NEW k
  PROVE  \A j \in Deferred(deferred', i, k) : \E l \in Deferred(deferred, i, k) : deferred'[j] = deferred[l]
  <1>1. deferred \in Seq(DeferredFilter) /\ rowGroups \in Seq(RowGroup)
    BY DEF TypeOK
  <1>2. CASE UNCHANGED deferred
    BY <1>2
  <1>3. CASE DeferBloomFilter
    <2> DEFINE d == [group |-> RowGroupIndex, column |-> pos, values |-> cw[Group][pos].filter.values,
                     buffer |-> taken[Group]]
    <2>1. deferred' = Append(deferred, d) /\ d.group = RowGroupIndex
      BY <1>3 DEF DeferBloomFilter
    <2>2. RowGroupIndex # i
      BY <1>1 DEF RowGroupIndex
    <2> HIDE DEF d
    <2> QED BY <1>1, <2>1, <2>2 DEF Deferred
  <1>4. CASE PutDeferredBuffer
    BY <1>1, <1>4 DEF PutDeferredBuffer, Deferred
  <1> QED BY <1>2, <1>3, <1>4, StateChanges

\* No step takes from the file a filter that the metadata locates.
LEMMA FileFilteredStep ==
  ASSUME TypeOK, TypeOK', Control, [Next]_vars, CurrentWritten, CurrentFiltered, FileFiltered
  PROVE  FileFiltered'
  <1> DEFINE Has(f, ds, i, m, k, pages) ==
               /\ ChunkWritten(f, m, k, pages)
               /\ FiltersHave(f, ds, i, m, k, ValuesOf(k, FlattenSeq(RowsOfPages(pages))))
  <1> SUFFICES ASSUME NEW i \in 1 .. Len(rowGroups'), NEW k \in Columns
               PROVE  \E pages \in Seq(Page) : Has(file', deferred', i, rowGroups'[i].columns[k], k, pages)
    BY DEF FileFiltered
  <1>0. rowGroups \in Seq(RowGroup)
    BY DEF TypeOK
  <1>1. ASSUME NEW l \in 1 .. Len(rowGroups)
        PROVE  \E pages \in Seq(Page) : Has(file, deferred, l, rowGroups[l].columns[k], k, pages)
    BY DEF FileFiltered
  <1>2. ASSUME i \in 1 .. Len(rowGroups), rowGroups'[i] = rowGroups[i], file \subseteq file'
        PROVE  \E pages \in Seq(Page) : Has(file', deferred', i, rowGroups'[i].columns[k], k, pages)
    <2> DEFINE m == rowGroups[i].columns[k]
    <2>1. PICK pages \in Seq(Page) : Has(file, deferred, i, m, k, pages)
      BY <1>1, <1>2
    <2>2. rowGroups'[i].columns[k] = m
      BY <1>2
    <2> HIDE DEF m
    <2>3. ChunkWritten(file', m, k, pages)
      BY <1>2, <2>1, ChunkStays
    <2>4. FiltersHave(file', deferred', i, m, k, ValuesOf(k, FlattenSeq(RowsOfPages(pages))))
      <3>1. \A j \in Deferred(deferred', i, k) : \E l \in Deferred(deferred, i, k) : deferred'[j] = deferred[l]
        BY <1>2, DeferredStay
      <3> QED BY <1>2, <2>1, <3>1, FiltersKept
    <2> QED BY <2>2, <2>3, <2>4
  <1>3. CASE rowGroups' = << >>
    BY <1>3
  <1>4. CASE AppendRowGroup
    <2> DEFINE r == [numRows |-> totalRowCount(cw[Group][1]), columns |-> meta]
               pages == cw[Group][k].pages
    <2>1. /\ rowGroups' = Append(rowGroups, r) /\ file' = file /\ deferred' = deferred /\ job # << >> /\ phase = "append"
          /\ r.columns = meta
      BY <1>4 DEF AppendRowGroup, InRowGroup, Running
    <2>2. i \in 1 .. Len(rowGroups) \/ i = RowGroupIndex
      BY <1>0, <2>1 DEF RowGroupIndex
    <2>3. /\ \A l \in 1 .. Len(rowGroups) : rowGroups'[l] = rowGroups[l]
          /\ rowGroups'[RowGroupIndex] = r
      <3> HIDE DEF r
      <3> QED BY <1>0, <2>1 DEF RowGroupIndex
    <2>4. CASE i \in 1 .. Len(rowGroups)
      BY <1>2, <2>1, <2>3, <2>4
    <2>5. CASE i = RowGroupIndex
      <3>1. rowGroups'[i].columns[k] = meta[k]
        <4> HIDE DEF r
        <4> QED BY <2>1, <2>3, <2>5
      <3>2. ChunkWritten(file, meta[k], k, pages)
        BY <2>1 DEF CurrentWritten
      <3>3. FiltersHave(file, deferred, i, meta[k], k, ValuesOf(k, EncodedRows(cw[Group][k])))
        BY <2>1, <2>5 DEF CurrentFiltered, Bloomed
      <3>4. EncodedRows(cw[Group][k]) = FlattenSeq(RowsOfPages(pages))
        BY DEF RowsOfPages, EncodedRows, PageRows
      <3>5. pages \in Seq(Page)
        BY <2>1, GroupColumn, ColumnsType DEF ColumnWriterState
      <3> HIDE DEF pages
      <3>6. Has(file, deferred, i, meta[k], k, pages)
        BY <3>2, <3>3, <3>4
      <3> HIDE DEF Has
      <3> QED BY <2>1, <3>1, <3>5, <3>6
    <2> QED BY <2>2, <2>4, <2>5
  <1>5. CASE WriteDeferredBloomFilter
    <2> DEFINE d == deferred[done + 1]
               m == rowGroups[i].columns[k]
               n == rowGroups'[i].columns[k]
               s == BloomSegment(d.values, offset)
    <2>1. /\ deferred' = deferred /\ file' = file \cup {s}
      BY <1>5 DEF WriteDeferredBloomFilter, Output
    <2>2. /\ done + 1 \in 1 .. Len(deferred) /\ i \in 1 .. Len(rowGroups)
          /\ n.locations = m.locations /\ n.dictionaryPageOffset = m.dictionaryPageOffset
          /\ n.bloomFilterOffset = IF i = d.group /\ k = d.column THEN offset ELSE m.bloomFilterOffset
      BY <1>5, LocatedColumns
    <2>3. s.kind = "bloom" /\ s.at = offset /\ s.values = d.values
      BY DEF BloomSegment
    <2>4. PICK pages \in Seq(Page) : Has(file, deferred, i, m, k, pages)
      BY <1>1, <2>2
    <2> DEFINE values == ValuesOf(k, FlattenSeq(RowsOfPages(pages)))
    <2>5. ChunkWritten(file, m, k, pages) /\ FiltersHave(file, deferred, i, m, k, values)
      BY <2>4
    <2>6. (i = d.group /\ k = d.column) => done + 1 \in Deferred(deferred, i, k)
      BY <2>2 DEF Deferred
    <2>7. (i = d.group /\ k = d.column) => values \subseteq d.values
      BY <2>5, <2>6 DEF FiltersHave
    <2> HIDE DEF s, m, n, d, values
    <2>8. ChunkWritten(file', n, k, pages)
      BY <2>1, <2>2, <2>5, ChunkStays
    <2>9. FiltersHave(file', deferred', i, n, k, values)
      BY <2>1, <2>2, <2>3, <2>5, <2>7, FiltersKept DEF FilterAt, FiltersHave
    <2> QED BY <2>8, <2>9 DEF n, values
  <1>6. CASE UNCHANGED rowGroups /\ file \subseteq file'
    BY <1>2, <1>6
  <1>7. CASE DeferredBuffersReturned
    BY <1>3, <1>6, <1>7 DEF DeferredBuffersReturned
  <1> QED BY <1>3, <1>4, <1>5, <1>6, <1>7, FileGrows

\* The file is given up until Reset, which leaves it empty.
LEMMA LiveBefore ==
  ASSUME TypeOK, Control, [Next]_vars, CloseOrder, Live'
  PROVE  Live \/ rowGroups' = << >>
  <1>1. ResetJob # << >> /\ ResetJob[1].op = "reset" /\ CloseJob5[1].op = "footer"
    BY JobOps, JobTails, Zenon
  <1>2. CASE DeferredBuffersReturned
    BY <1>1, <1>2 DEF DeferredBuffersReturned, Live
  <1>3. CASE ~DeferredBuffersReturned
    <2>1. CASE WriteFooter
      BY <1>1, <2>1 DEF WriteFooter, Running, Control, StatusFits, Live
    <2>2. CASE ~WriteFooter
      <3>1. status' = status
        BY <1>3, <2>2, StateChanges DEF Live
      <3>2. CASE status = "open" /\ job = ResetJob
        <4>1. job' # job
          BY <3>1, <3>2 DEF Live
        <4>2. phase = "reset"
          <5> SUFFICES ASSUME phase = "put"
                       PROVE  FALSE
            BY <1>1, <3>2 DEF Control, PhaseFits
          <5>1. /\ ~FlushRowGroupColumn /\ ~FlushRowGroupColumnFails /\ ~FlushFilterPagesFails /\ ~WriteHeader /\ ~WriteColumnPages
                /\ ~NoBloomFilter /\ ~DeferBloomFilter /\ ~WriteBloomFilter /\ ~WriteRowGroupFails /\ ~AppendRowGroup
                /\ ~ResetRowGroupColumn
            BY DEF FlushRowGroupColumn, FlushRowGroupColumnFails, FlushFilterPagesFails, WriteHeader,
              WriteColumnPages, NoBloomFilter,
               DeferBloomFilter, WriteBloomFilter, WriteRowGroupFails, AppendRowGroup,
               ResetRowGroupColumn, InRowGroup
          <5>2. Still \/ PutDeferredBuffer
            BY <1>1, <1>3, <3>2, <5>1, LateSteps
          <5> QED BY <4>1, <5>2 DEF Still, PutDeferredBuffer, mainVars
        <4>3. rowGroups = << >>
          BY <3>2, <4>2 DEF CloseOrder
        <4>4. ~AppendRowGroup /\ ~WriteDeferredBloomFilter
          BY <1>1, <3>2 DEF AppendRowGroup, WriteDeferredBloomFilter, InRowGroup, Running
        <4> QED BY <1>3, <4>3, <4>4, FileGrows
      <3> QED BY <3>1, <3>2 DEF Live
    <2> QED BY <2>1, <2>2
  <1> QED BY <1>2, <1>3

\* The buffers of the deferred filters go back when all of them are in the file.
LEMMA PutBegins ==
  ASSUME [Next]_vars, job # << >>, phase = "start", phase' = "put"
  PROVE  DeferredBloomFiltersWritten \/ status' = "failed"
  <1>1. ~UNCHANGED allButPool
    BY DEF allButPool, mainVars
  <1>2. ~ApplicationCall
    BY DEF WriteRows, FlushGroup, mainVars, ApplicationCall, Commit, Flush, Close, Call, Reset,
      WriteRowGroup, MainIdle
  <1>3. ASSUME NEW h \in Groups
        PROVE  ~GroupStep(h)
    BY DEF GroupStep, NextChunk, GroupFull, WriteColumn, WriteColumnFails,
       FlushGroupColumn, FlushGroupColumnFails, mainVars
  <1>4. ASSUME MainStep
        PROVE  DeferredBloomFiltersWritten \/ status' = "failed"
    BY <1>4 DEF MainStep, SkipEmptyRowGroup, TooManyRowGroups, StartRowGroup, WriteHeader,
       WriteColumnPages, WriteBloomFilter, CloseHeader, WriteFooter, AppendRowGroup,
       FlushRowGroupColumn, FlushRowGroupColumnFails, FlushFilterPagesFails, NoBloomFilter,
       DeferBloomFilter,
       WriteRowGroupFails, ResetRowGroupColumn, CloseColumn, WriteDeferredBloomFilter,
       CloseColumnFails, PutDeferredBuffer, CloseFails, DeferredBuffersReturned, LoadCopiedChunk,
       StartCopyRows, RowsCopied, CopyRowsFails, Fail, ReencodeBatch, ReencodeBatchFails,
       WriteRowGroupSourceFails, InRowGroup, mainVars
  <1> QED BY <1>1, <1>2, <1>3, <1>4, NextCases

\* While Close returns the buffers no filter is still to be located, and before
\* it writes the filters all of them are.
LEMMA LocatedMoves ==
  ASSUME TypeOK, Control, Control', [Next]_vars, CloseOrder, Live', UNCHANGED deferred,
         ~WriteDeferredBloomFilter, NEW j \in 1 .. Len(deferred), j > Located
  PROVE  j > Located'
  <1>0. j \in Nat /\ j >= 1 /\ j <= Len(deferred) /\ Len(deferred) \in Nat /\ done \in Nat
    BY DEF TypeOK
  <1>1. CASE job' # CloseJob4
    BY <1>0, <1>1 DEF Located
  <1>2. CASE job' = CloseJob4 /\ job' # job
    <2>1. done' = 0
      BY <1>2, CloseStarts
    <2>2. phase' = "start"
      <3>1. job = CloseJob3
        BY <1>2, CloseOpen, JobOps, CloseComes
      <3>2. job[1].op = "rowGroup" /\ job # << >> /\ CloseJob4[1].op = "deferred" /\ CloseJob4 # << >>
        BY <3>1, JobOps, JobTails, Zenon
      <3>3. status' # "failed"
        BY <1>2, CloseOpen
      <3>4. /\ job # OnPath("copyRows") /\ job # OnPath("opaque")
        BY <3>2, JobOps
      <3>5. RowGroupDone
        BY <1>2, <3>2, <3>3, <3>4, JobMoves
      <3>6. SkipEmptyRowGroup => phase' = "start"
        BY DEF SkipEmptyRowGroup, InRowGroup
      <3>7. (ResetRowGroupColumn /\ phase = "reset" /\ pos = NumColumns) => phase' = "start"
        BY ColumnAssumption DEF ResetRowGroupColumn, NextColumnOr
      <3> QED BY <3>5, <3>6, <3>7 DEF RowGroupDone
    <2> QED BY <1>0, <1>2, <2>1, <2>2 DEF Located
  <1>3. CASE job' = CloseJob4 /\ job' = job
    <2>1. CloseJob4[1].op = "deferred" /\ CloseJob4 # << >>
      BY JobOps, JobTails, Zenon
    <2>2. phase = "start" /\ j > done
      BY <1>0, <1>3, <2>1 DEF Control, PhaseFits, Located
    <2>3. done' = done \/ done' = 0
      BY <1>3, <2>1, StateChanges DEF ReencodeBatch, ReencodeBatchFails, Running
    <2>4. phase' \in {"start", "put"}
      BY <1>3, <2>1 DEF Control, PhaseFits
    <2>5. phase' = "start"
      <3> SUFFICES ASSUME phase' = "put"
                   PROVE  FALSE
        BY <2>4
      <3>1. DeferredBloomFiltersWritten
        BY <1>3, <2>1, <2>2, PutBegins DEF Live
      <3> QED BY <1>0, <2>2, <3>1 DEF DeferredBloomFiltersWritten
    <2> QED BY <1>0, <1>3, <2>2, <2>3, <2>5 DEF Located
  <1> QED BY <1>1, <1>2, <1>3

\* No step leaves a chunk without a filter that is neither located nor deferred.
LEMMA FileLocatedStep ==
  ASSUME TypeOK, TypeOK', Control, Control', [Next]_vars, FilterControl, CurrentFiltered, FileLocated
  PROVE  FileLocated'
  <1> DEFINE There(i, k) == rowGroups[i].columns[k].bloomFilterOffset # 0
             Kept4(i, k) == \E j \in Deferred(deferred, i, k) : j > Located
  <1> SUFFICES ASSUME Live', NEW i \in 1 .. Len(rowGroups'), NEW k \in FilterColumns
               PROVE  \/ rowGroups'[i].columns[k].bloomFilterOffset # 0
                      \/ \E j \in Deferred(deferred', i, k) : j > Located'
    BY DEF FileLocated
  <1>0. /\ rowGroups \in Seq(RowGroup) /\ deferred \in Seq(DeferredFilter) /\ done \in Nat
        /\ Len(rowGroups) \in Nat /\ Len(deferred) \in Nat /\ k \in Columns
    <2>1. rowGroups \in Seq(RowGroup) /\ deferred \in Seq(DeferredFilter) /\ done \in Nat
      BY DEF TypeOK
    <2> QED BY <2>1, ColumnAssumption
  <1>1. CloseOrder
    BY DEF FilterControl
  <1>2. CASE rowGroups' = << >>
    BY <1>2
  <1>3. CASE Live /\ rowGroups' # << >>
    <2>1. \A l \in 1 .. Len(rowGroups) : There(l, k) \/ Kept4(l, k)
      BY <1>3 DEF FileLocated
    <2>2. /\ CloseJob4[1].op = "deferred" /\ CloseJob4 # << >>
      BY JobOps, JobTails, Zenon
    <2>3. CASE AppendRowGroup
      <3> DEFINE r == [numRows |-> totalRowCount(cw[Group][1]), columns |-> meta]
      <3>1. /\ rowGroups' = Append(rowGroups, r) /\ deferred' = deferred /\ job' = job
            /\ job # << >> /\ phase = "append" /\ job[1].op = "rowGroup" /\ r.columns = meta
        BY <2>3 DEF AppendRowGroup, InRowGroup, Running
      <3> HIDE DEF r
      <3>2. /\ i \in 1 .. Len(rowGroups) \/ i = RowGroupIndex
            /\ \A l \in 1 .. Len(rowGroups) : rowGroups'[l] = rowGroups[l]
            /\ rowGroups'[RowGroupIndex] = r
        BY <1>0, <3>1 DEF RowGroupIndex
      <3>3. Located = 0 /\ Located' = 0
        BY <2>2, <3>1 DEF Located
      <3>4. CASE i \in 1 .. Len(rowGroups)
        BY <2>1, <3>1, <3>2, <3>3, <3>4
      <3>5. CASE i = RowGroupIndex
        BY <1>0, <3>1, <3>2, <3>3, <3>5 DEF CurrentFiltered, Bloomed, Deferred
      <3> QED BY <3>2, <3>4, <3>5
    <2>4. CASE WriteDeferredBloomFilter
      <3> DEFINE d == deferred[done + 1]
      <3>1. /\ job # << >> /\ job[1].op = "deferred" /\ phase = "start" /\ UNCHANGED <<job, phase, deferred, status>>
            /\ done' = done + 1
        BY <2>4 DEF WriteDeferredBloomFilter, Running
      <3>2. job = CloseJob4
        BY <1>1, <1>3, <3>1, JobFirst DEF Control, CloseOrder, Live
      <3>3. Located = done /\ Located' = done + 1
        BY <3>1, <3>2 DEF Located
      <3>4. offset # 0
        BY <3>1, <3>2 DEF FilterControl, HeaderWritten
      <3>5. /\ i \in 1 .. Len(rowGroups)
            /\ rowGroups'[i].columns[k].bloomFilterOffset =
                 IF i = d.group /\ k = d.column THEN offset ELSE rowGroups[i].columns[k].bloomFilterOffset
        BY <1>0, <2>4, LocatedColumns
      <3>6. CASE There(i, k)
        BY <3>4, <3>5, <3>6
      <3>7. CASE Kept4(i, k)
        <4>1. PICK j \in Deferred(deferred, i, k) : j > done
          BY <3>3, <3>7
        <4>2. j \in Nat
          BY DEF Deferred
        <4>3. CASE j = done + 1
          BY <3>4, <3>5, <4>3 DEF Deferred
        <4>4. CASE j > done + 1
          BY <3>1, <3>3, <4>1, <4>4
        <4>5. j = done + 1 \/ j > done + 1
          BY <1>0, <4>1, <4>2
        <4> QED BY <4>3, <4>4, <4>5
      <3> QED BY <2>1, <3>5, <3>6, <3>7
    <2>5. CASE UNCHANGED rowGroups /\ ~WriteDeferredBloomFilter
      <3>1. CASE There(i, k)
        BY <2>5, <3>1
      <3>2. CASE Kept4(i, k) /\ ~There(i, k)
        <4>1. PICK j \in Deferred(deferred, i, k) : j > Located
          BY <3>2
        <4>2. j \in 1 .. Len(deferred) /\ deferred[j].group = i /\ deferred[j].column = k
          BY DEF Deferred
        <4>3. CASE UNCHANGED deferred
          BY <1>1, <2>5, <4>1, <4>2, <4>3, LocatedMoves
        <4>4. CASE DeferBloomFilter
          <5> DEFINE d == [group |-> RowGroupIndex, column |-> pos, values |-> cw[Group][pos].filter.values,
                           buffer |-> taken[Group]]
          <5>1. deferred' = Append(deferred, d) /\ job' = job /\ job[1].op = "rowGroup"
            BY <4>4 DEF DeferBloomFilter, InRowGroup, Running
          <5> HIDE DEF d
          <5>2. j \in Deferred(deferred', i, k)
            BY <1>0, <4>2, <5>1 DEF Deferred
          <5>3. Located' = 0 /\ j > 0
            BY <2>2, <4>2, <5>1 DEF Located
          <5> QED BY <5>2, <5>3
        <4>5. CASE PutDeferredBuffer
          <5>1. job # << >> /\ phase = "put" /\ UNCHANGED <<job, status>>
            BY <4>5 DEF PutDeferredBuffer, mainVars
          <5>2. job[1].op \in {"reset", "deferred"}
            BY <5>1 DEF Control, PhaseFits
          <5>3. job \in {ResetJob, CloseJob4, DeferredJob}
            BY <5>1, <5>2, JobFirst DEF Control
          <5>4. job # ResetJob
            BY <1>1, <1>3, <4>5 DEF CloseOrder, PutDeferredBuffer, Live
          <5>5. job # DeferredJob
            BY <1>1, <1>3 DEF CloseOrder, Live
          <5>6. Located = Len(deferred)
            BY <5>1, <5>3, <5>4, <5>5 DEF Located
          <5> QED BY <1>0, <4>1, <4>2, <5>6
        <4> QED BY <4>3, <4>4, <4>5, StateChanges
      <3> QED BY <2>1, <2>5, <3>1, <3>2
    <2>6. DeferredBuffersReturned => UNCHANGED rowGroups \/ rowGroups' = << >>
      BY DEF DeferredBuffersReturned
    <2> QED BY <1>3, <2>3, <2>4, <2>5, <2>6, FileGrows
  <1> QED BY <1>1, <1>2, <1>3, LiveBefore

\* A new writer has neither filters nor chunks.
LEMMA FilterInvInit ==
  ASSUME Init
  PROVE  FilterInv
  <1>1. \A g \in Groups, k \in Columns : Filtered(cw[g][k], k) /\ Rows(g, k) = << >>
    <2> TAKE g \in Groups, k \in Columns
    <2>1. cw[g][k] = NewColumnWriter
      BY DEF Init
    <2>2. NewColumnWriter \in ColumnWriterState /\ Blank(NewColumnWriter)
      BY ResetColumnRows, ResetColumnType, Zenon
    <2>3. Filtered(NewColumnWriter, k) /\ ColumnRows(NewColumnWriter) = << >>
      BY <2>2, BlankFiltered, BlankRows
    <2> QED BY <2>1, <2>3 DEF Rows
  <1>2. (\A g \in Groups : GroupFiltered(g)) /\ OpaqueEmpty
    BY <1>1 DEF Groups, GroupFiltered, OpaqueEmpty
  <1>3. /\ job = << >> /\ status = "open" /\ deferred = << >> /\ rowGroups = << >> /\ done = 0
        /\ \A k \in Columns : meta[k] = NoChunk
    BY DEF Init
  <1>4. /\ << >> \notin {CloseJob, CloseJob2, CloseJob3, CloseJob4, CloseJob5}
        /\ << >> # DeferredJob /\ << >> # ResetJob
    BY JobTails, Zenon
  <1>5. MetaClean
    BY <1>3 DEF MetaClean, NoChunk
  <1>6. DeferredFits /\ HeaderWritten /\ CloseOrder
    BY <1>3, <1>4 DEF DeferredFits, HeaderWritten, CloseOrder
  <1>7. FiltersComplete /\ CurrentFiltered
    BY <1>3 DEF FiltersComplete, Writing, CurrentFiltered, Bloomed
  <1>8. FileFiltered /\ FileLocated
    BY <1>3 DEF FileFiltered, FileLocated
  <1> QED BY <1>2, <1>5, <1>6, <1>7, <1>8 DEF FilterInv, FilterControl

\* No step breaks the invariant of the filters.
LEMMA FilterInvStep ==
  ASSUME FallbackOrReset, OneKindOfWrite, NoFilterFallback, ContentInv, FilterInv, [Next]_vars
  PROVE  FilterInv'
  <1>1. /\ TypeOK /\ Control /\ RowInv /\ \A g \in Groups : GroupKept(g)
        /\ CurrentWritten
    BY DEF ContentInv
  <1>2. TypeOK' /\ Control'
    BY <1>1, TypeStep, ControlStep
  <1>3. \A g \in Groups : GroupFiltered(g)'
    BY <1>1, <1>2, GroupFilteredStep DEF FilterInv
  <1>4. OpaqueEmpty' /\ FiltersComplete'
    BY <1>1, <1>2, OpaqueEmptyStep, FiltersCompleteStep DEF FilterInv
  <1>5. FilterControl'
    BY <1>1, <1>2, MetaCleanStep, DeferredFitsStep, HeaderWrittenStep, CloseOrderStep DEF FilterInv,
      FilterControl
  <1>6. CurrentFiltered' /\ FileFiltered'
    BY <1>1, <1>2, CurrentFilteredStep, FileFilteredStep DEF FilterInv
  <1>7. FileLocated'
    BY <1>1, <1>2, FileLocatedStep DEF FilterInv, FilterControl
  <1> QED BY <1>3, <1>4, <1>5, <1>6, <1>7 DEF FilterInv

\* What the metadata says of the filters is so.
LEMMA FiltersCorrect ==
  ASSUME ContentInv, FilterInv
  PROVE  BloomFilterComplete
  <1> SUFFICES ASSUME NEW i \in 1 .. Len(rowGroups), NEW k \in Columns
               PROVE  /\ Chunk(i, k).bloomFilterOffset # 0 =>
                           /\ \E s \in file : s.kind = "bloom" /\ s.at = Chunk(i, k).bloomFilterOffset
                           /\ ValuesOf(k, RowsOf(i, k))
                                \subseteq SegmentAt(Chunk(i, k).bloomFilterOffset, "bloom").values
                      /\ (status = "closed" /\ k \in FilterColumns) => Chunk(i, k).bloomFilterOffset # 0
    BY DEF BloomFilterComplete
  <1> DEFINE m == Chunk(i, k)
  <1>1. m = rowGroups[i].columns[k] /\ TypeOK /\ FileInv
    BY DEF Chunk, ContentInv
  <1>2. PICK pages \in Seq(Page) :
          /\ ChunkWritten(file, m, k, pages)
          /\ FiltersHave(file, deferred, i, m, k, ValuesOf(k, FlattenSeq(RowsOfPages(pages))))
    BY <1>1 DEF FilterInv, FileFiltered
  <1>3. RowsOf(i, k) = FlattenSeq(RowsOfPages(pages))
    BY <1>1, <1>2, PagesFound
  <1>4. ASSUME m.bloomFilterOffset # 0
        PROVE  /\ \E s \in file : s.kind = "bloom" /\ s.at = m.bloomFilterOffset
               /\ ValuesOf(k, RowsOf(i, k)) \subseteq SegmentAt(m.bloomFilterOffset, "bloom").values
    <2>1. PICK s \in file : /\ s.kind = "bloom" /\ s.at = m.bloomFilterOffset
                            /\ ValuesOf(k, RowsOf(i, k)) \subseteq s.values
      BY <1>2, <1>3, <1>4 DEF FiltersHave, FilterAt
    <2>2. SegmentAt(s.at, s.kind) = s
      BY <1>1, SegmentFound
    <2> HIDE DEF m
    <2> QED BY <2>1, <2>2
  <1>5. ASSUME status = "closed", k \in FilterColumns
        PROVE  m.bloomFilterOffset # 0
    BY <1>1, <1>5 DEF FilterInv, FilterControl, CloseOrder, Live, Deferred, FileLocated
  <1> QED BY <1>4, <1>5

\* In every behaviour in which no dictionary column with a filter falls back to
\* PLAIN, a filter that the metadata locates is in the file and has the values of
\* all the rows of its column, and when the file is closed every column that
\* should have a filter has one, whether it was written with its row group or
\* deferred to Close, and whatever was copied, failed or was reset.
THEOREM BloomFiltersCorrect ==
  ASSUME FallbackOrReset, OneKindOfWrite, NoFilterFallback
  PROVE  Spec => []BloomFilterComplete
  <1>1. Init => ContentInv /\ FilterInv
    BY ContentInit, FilterInvInit
  <1>2. ContentInv /\ FilterInv /\ [Next]_vars => (ContentInv /\ FilterInv)'
    BY ContentStep, FilterInvStep
  <1>3. ContentInv /\ FilterInv => BloomFilterComplete
    BY FiltersCorrect
  <1> QED BY <1>1, <1>2, <1>3, PTL DEF Spec


-----------------------------------------------------------------------------
(* What the refinement assumes. *)

\* When writeRowGroup fails on one column, its deferred reset leaves the rows of
\* another that had fallen back to PLAIN in the buffer of the fallback, and they
\* come back with it.
FallbackOrFaults == DictionaryMaxBytes = 0 \/ ~Faults

\* The first call of Write replaces the column buffers, with the rows in them
\* of a WriteRowGroup that was refused (ErrTooManyRowGroups).
WriteAlone == "Write" \in CallKinds => CallKinds = {"Write"}

-----------------------------------------------------------------------------
(* The steps of RowLog, one row group at a time. *)

\* RowLog for any column.
Log(k) == INSTANCE RowLog WITH pending <- Pending(k), held <- Held(k),
                               log <- FileRows(k), broken <- Broken

\* A step of it, or none.
LogStep(k) == [Log(k)!Next]_<<Pending(k), Held(k), FileRows(k), Broken>>

\* Nothing happens to the rows of the other row groups.
OthersSame(g, k) ==
  \A h \in Groups \ {g} : /\ PendingRows(h, k)' = PendingRows(h, k)
                          /\ HeldRows(h, k)' = HeldRows(h, k)

\* Nor to those of the file, and nothing fails.
OutsideSame(k) == FileRows(k)' = FileRows(k) /\ Broken' = Broken

\* Rows only move to a page, or do not move at all.
LEMMA LogStutters ==
  ASSUME NEW k, OutsideSame(k),
         \A h \in Groups : /\ PendingRows(h, k)' = PendingRows(h, k)
                           /\ HeldRows(h, k)' = HeldRows(h, k)
  PROVE  LogStep(k)
  BY DEF Pending, Held, OutsideSame, LogStep

\* A call brings rows.
LEMMA LogCalls ==
  ASSUME NEW k, OutsideSame(k), NEW g \in Groups, PendingRows(g, k) = << >>,
         HeldRows(g, k)' = HeldRows(g, k), OthersSame(g, k)
  PROVE  LogStep(k)
  BY DEF Held, OthersSame, Log!Call, Log!OnlyAt, Pending, OutsideSame, LogStep, Log!Next

\* Rows of the call in progress come to the column.
LEMMA LogAccepts ==
  ASSUME NEW k, OutsideSame(k), NEW g \in Groups, NEW rows \in Seq(Row),
         PendingRows(g, k)' \in Seq(Row), HeldRows(g, k) \in Seq(Row),
         PendingRows(g, k) = rows \o PendingRows(g, k)',
         HeldRows(g, k)' = HeldRows(g, k) \o rows, OthersSame(g, k)
  PROVE  LogStep(k)
  <1>1. CASE rows = << >>
    BY <1>1, LogStutters DEF OthersSame
  <1>2. CASE rows # << >>
    <2> DEFINE rest == PendingRows(g, k)'
               all == PendingRows(g, k)
               n == Len(rows)
    <2>1. /\ n \in 1 .. Len(all) /\ SubSeq(all, 1, n) = rows /\ SubSeq(all, n + 1, Len(all)) = rest
      <3>1. rest \in Seq(Row) /\ all = rows \o rest
        OBVIOUS
      <3> HIDE DEF rest, all
      <3>2. Len(all) = Len(rows) + Len(rest) /\ Len(rows) \in Nat \ {0} /\ Len(rest) \in Nat
        BY <1>2, <3>1
      <3>3. SubSeq(all, 1, n) = rows
        BY <3>1, <3>2
      <3>4. SubSeq(all, n + 1, Len(all)) = rest
        BY <3>1, <3>2
      <3> QED BY <3>2, <3>3, <3>4
    <2>2. /\ Pending(k)[g] = all /\ Pending(k)'[g] = rest
          /\ Held(k)'[g] = Held(k)[g] \o rows
      BY DEF Pending, Held
    <2>3. Log(k)!OnlyAt(Pending(k), g) /\ Log(k)!OnlyAt(Held(k), g)
      BY DEF Log!OnlyAt, Pending, Held, OthersSame
    <2> HIDE DEF rest, all
    <2>4. Log(k)!Accept(g)
      BY <2>1, <2>2, <2>3 DEF Log!Accept, OutsideSame
    <2> QED BY <2>4 DEF LogStep, Log!Next
  <1> QED BY <1>1, <1>2

\* The rest of a call is refused.
LEMMA LogRejects ==
  ASSUME NEW k, OutsideSame(k), NEW g \in Groups, PendingRows(g, k)' = << >>,
         HeldRows(g, k)' = HeldRows(g, k), OthersSame(g, k)
  PROVE  LogStep(k)
  BY DEF Held, OthersSame, Log!Reject, Log!OnlyAt, Pending, OutsideSame, LogStep, Log!Next

\* A row group joins the file.
LEMMA LogPublishes ==
  ASSUME NEW k, NEW g \in Groups, FileRows(k) \in Seq(Row), HeldRows(g, k) \in Seq(Row),
         FileRows(k)' = FileRows(k) \o HeldRows(g, k), HeldRows(g, k)' = << >>,
         Broken' = Broken, PendingRows(g, k)' = PendingRows(g, k), OthersSame(g, k)
  PROVE  LogStep(k)
  <1>1. Pending(k)' = Pending(k)
    BY DEF Pending, OthersSame
  <1>2. CASE HeldRows(g, k) = << >>
    BY <1>2, LogStutters DEF OthersSame, OutsideSame
  <1>3. CASE HeldRows(g, k) # << >>
    BY <1>1, <1>3 DEF Log!Publish, Log!OnlyAt, Held, OthersSame, LogStep, Log!Next
  <1> QED BY <1>2, <1>3

\* A call fails.
LEMMA LogLoses ==
  ASSUME NEW k, NEW g \in Groups, FileRows(k)' = FileRows(k),
         Broken \subseteq Broken', 0 \in Broken' \/ g \in Broken',
         Len(HeldRows(g, k)') <= Len(HeldRows(g, k)),
         HeldRows(g, k)' = SubSeq(HeldRows(g, k), 1, Len(HeldRows(g, k)')),
         \A h \in Groups \ {g} : HeldRows(h, k)' = HeldRows(h, k),
         \A h \in Groups : \/ PendingRows(h, k)' = PendingRows(h, k)
                           \/ h \in {0, g} /\ PendingRows(h, k)' = << >>
  PROVE  LogStep(k)
  <1>1. Log(k)!Prefix(Held(k)'[g], Held(k)[g]) /\ Log(k)!OnlyAt(Held(k), g)
    BY DEF Log!Prefix, Log!OnlyAt, Held
  <1>2. \A h \in Groups : \/ Pending(k)'[h] = Pending(k)[h]
                          \/ h \in {0, g} /\ Pending(k)'[h] = << >>
    BY DEF Pending
  <1>3. Log(k)!Lose(g)
    BY <1>1, <1>2 DEF Log!Lose
  <1> QED BY <1>3 DEF LogStep, Log!Next

\* The writer starts again.
LEMMA LogResets ==
  ASSUME NEW k, FileRows(k)' = << >>, HeldRows(0, k)' = << >>, Broken' = Broken \ {0},
         \A h \in Groups : PendingRows(h, k)' = PendingRows(h, k),
         \A h \in Groups \ {0} : HeldRows(h, k)' = HeldRows(h, k)
  PROVE  LogStep(k)
  <1>0. 0 \in Groups
    BY DEF Groups
  <1>1. Pending(k)' = Pending(k)
    BY DEF Pending
  <1>2. Log(k)!Reset
    BY <1>0, <1>1 DEF Log!Reset, Log!OnlyAt, Held
  <1> QED BY <1>2 DEF LogStep, Log!Next

-----------------------------------------------------------------------------
(* The invariant. *)

\* The buffers of all columns are fine, those of a row group that failed too.
AllFine == \A g \in Groups, k \in Columns : Fine(cw[g][k])

\* Without faults nothing is aborted.
NeverAborts == ~Faults => phase # "abort"

\* A writer that Write is used on takes no other path.
NoPath == "Write" \in CallKinds => \A p \in Paths \cup {"copyRows"} : ~PathLeft(p)

\* The buffers that the first call of Write replaces are empty.
Unwritten == ("Write" \in CallKinds /\ ~resolved) => \A k \in Columns : Rows(0, k) = << >>

\* What the refinement needs, beyond what the content of the file does.
LogInv == ContentInv /\ AllFine /\ NeverAborts /\ NoPath /\ Unwritten

\* A writer that only Write is used on stays on its path.
LEMMA NoPathStep ==
  ASSUME WriteAlone, TypeOK, Control, Control', [Next]_vars, NoPath
  PROVE  NoPath'
  <1> SUFFICES ASSUME "Write" \in CallKinds, NEW p \in Paths \cup {"copyRows"},
                      NEW j, j = job', j = BeforePath(p) \/ j = OnPath(p)
               PROVE  FALSE
    BY DEF NoPath, PathLeft
  <1>0. j # << >> /\ j[1].op \in {"rowGroup", p} /\ \A q \in Paths \cup {"copyRows"} : ~PathLeft(q)
    <2>1. BeforePath(p) # << >> /\ OnPath(p) # << >>
      BY JobTails, Zenon
    <2>2. BeforePath(p)[1].op = "rowGroup" /\ OnPath(p)[1].op = p
      BY JobOps
    <2> QED BY <2>1, <2>2 DEF NoPath
  <1>1. job' # job
    BY <1>0 DEF PathLeft
  <1>2. status' = "open"
    BY <1>0 DEF Paths, Control, StatusFits
  <1>3. CASE job = << >>
    <2>1. ASSUME NEW g
          PROVE  j # RowGroupJob(g) /\ j # CommitJob(g)
      BY <1>0, JobsDiffer
    <2>2. j # CloseJob /\ j # ResetJob
      BY <1>0, JobsDiffer
    <2>3. CallKinds \cap Paths = {}
      BY DEF WriteAlone, Paths
    <2> QED BY <1>1, <1>3, <2>1, <2>2, <2>3, JobStarts
  <1>4. CASE job # << >>
    <2>1. \/ job = OnPath("copyRows") \/ job = OnPath("opaque") \/ NextJob
      BY <1>0, <1>1, <1>2, <1>4, JobMoves
    <2>2. NextJob
      BY <1>0, <2>1 DEF PathLeft, Paths
    <2>3. \A g : j # RowGroupJob(g)
      BY <1>0, JobsDiffer
    <2>4. j \notin {CloseJob2, CloseJob3, CloseJob4, CloseJob5}
      BY <1>0, JobsDiffer
    <2>5. PICK q \in Paths \cup {"copyRows"} : job = BeforePath(q)
      BY <1>0, <2>2, <2>3, <2>4 DEF NextJob
    <2> QED BY <1>0, <2>5 DEF PathLeft
  <1> QED BY <1>3, <1>4

\* Nothing is aborted but by a fault.
LEMMA NeverAbortsStep ==
  ASSUME TypeOK, Control, [Next]_vars, NeverAborts
  PROVE  NeverAborts'
  <1> SUFFICES ASSUME phase' = "abort", phase # "abort", ~Faults
               PROVE  FALSE
    BY DEF NeverAborts
  <1>1. job' # << >> => FALSE
    <2>1. ASSUME job' # << >>
          PROVE  FALSE
      <3>1. ~Still
        BY DEF Still, mainVars
      <3>2. ~FlushRowGroupColumnFails /\ ~FlushFilterPagesFails /\ ~WriteRowGroupFails
        BY DEF FlushRowGroupColumnFails, FlushFilterPagesFails, WriteRowGroupFails
      <3>3. ~ResetRowGroupColumn
        BY DEF ResetRowGroupColumn, NextColumnOr
      <3> QED BY <2>1, <3>1, <3>2, <3>3, PhaseMoves
            DEF StartRowGroup, FlushRowGroupColumn, WriteHeader, WriteColumnPages, NoBloomFilter,
                DeferBloomFilter, WriteBloomFilter, AppendRowGroup, DeferredBuffersReturned,
                NextColumnOr
    <2> QED BY <2>1
  <1>2. Control'
    BY ControlStep
  <1>3. phase' = "start"
    BY <1>1, <1>2 DEF Control, PhaseFits
  <1> QED BY <1>3

\* An empty column has no rows in its buffer.
LEMMA NoRowsBuffered ==
  ASSUME NEW c \in ColumnWriterState, ColumnRows(c) = << >>
  PROVE  Buffered(c) = << >> /\ EncodedRows(c) = << >>
  BY PageRowsType, BufferedType, EmptySeq

\* The buffers stay fine.
LEMMA AllFineStep ==
  ASSUME FallbackOrReset, FallbackOrFaults, LogInv, [Next]_vars
  PROVE  AllFine'
  <1> USE DEF LogInv, ContentInv
  <1> SUFFICES ASSUME NEW g \in Groups
               PROVE  \A k \in Columns : Fine(cw'[g][k])
    BY DEF AllFine
  <1>1. ASSUME NextChunk(g), Generic(g)
        PROVE  resolved \/ \A m \in Columns : Buffered(cw[g][m]) = << >>
    <2>1. g = 0 /\ generic
      BY <1>1 DEF Generic
    <2>2. "Write" \in CallKinds
      BY <1>1, <2>1, FirstChunk
    <2>3. ASSUME ~resolved, NEW m \in Columns
          PROVE  Buffered(cw[g][m]) = << >>
      BY <2>1, <2>2, <2>3, NoRowsBuffered DEF Unwritten, Rows, TypeOK
    <2> QED BY <2>3
  <1>2. ASSUME ResetRowGroupColumn, Group = g
        PROVE  DictionaryMaxBytes = 0 \/ Buffered(cw[g][pos]) = << >>
    BY <1>2, ResetFine DEF FallbackOrFaults, NeverAborts
  <1> QED BY <1>1, <1>2, FineKept DEF AllFine

\* A failed flush of a column drops rows from the end.
LEMMA DroppedRows ==
  ASSUME NEW c \in ColumnWriterState, NEW k \in Columns, NEW id, Fine(c)
  PROVE  /\ ColumnRows(FlushColumnFails(c, k, id)) = EncodedRows(c)
         /\ Len(EncodedRows(c)) <= Len(ColumnRows(c))
         /\ EncodedRows(c) = SubSeq(ColumnRows(c), 1, Len(EncodedRows(c)))
  <1>1. ColumnRows(FlushColumnFails(c, k, id)) = EncodedRows(c)
    BY FlushColumnFailsRows DEF Fine
  <1>2. EncodedRows(c) \in Seq(Row) /\ Buffered(c) \in Seq(Row)
    BY PageRowsType, BufferedType
  <1>3. ASSUME NEW s \in Seq(Row), NEW t \in Seq(Row)
        PROVE  Len(s) <= Len(s \o t) /\ s = SubSeq(s \o t, 1, Len(s))
    OBVIOUS
  <1> QED BY <1>1, <1>2, <1>3 DEF ColumnRows

\* The rows of the call in progress that a failed flush drops were not held.
LEMMA DroppedChunk ==
  ASSUME NEW c \in ColumnWriterState, NEW k \in Columns, NEW id, NEW rows \in Seq(Row),
         Fine(c)
  PROVE  ColumnRows(FlushColumnFails(WriteValues(c, k, rows), k, id)) = EncodedRows(c)
  <1> DEFINE d == WriteValues(c, k, rows)
  <1>1. d \in ColumnWriterState
    BY WriteValuesType
  <1>2. BuffersFit(d) /\ EncodedRows(d) = EncodedRows(c)
    BY WriteValuesRows DEF Fine
  <1> HIDE DEF d
  <1>3. ColumnRows(FlushColumnFails(d, k, id)) = EncodedRows(d)
    BY <1>1, <1>2, FlushColumnFailsRows
  <1> QED BY <1>2, <1>3 DEF d

\* What is left of the rows of a column when a flush fails.
LEMMA RowsDropped ==
  ASSUME TypeOK, Control, AllFine, NEW g \in Groups, Dropping(g), NEW k \in Columns
  PROVE  Rows(g, k)' = Rows(g, k) \/ Rows(g, k)' = EncodedRows(cw[g][k])
  <1>1. cw[g][k] \in ColumnWriterState /\ Fine(cw[g][k])
    BY DEF AllFine, TypeOK
  <1>2. 0 \in Groups /\ pos \in Columns /\ col[g] \in Columns /\ chunk[g] \in Seq(Row)
    BY DEF Groups, TypeOK
  <1>3. ASSUME NEW m \in Columns, NEW d, SetColumn(g, m, d),
               m = k => ColumnRows(d) = EncodedRows(cw[g][k])
        PROVE  Rows(g, k)' = Rows(g, k) \/ Rows(g, k)' = EncodedRows(cw[g][k])
    BY <1>3, SetColumnIs DEF OnlyColumn, Rows
  <1>4. ColumnRows(FlushColumnFails(cw[g][k], k, taken[g])) = EncodedRows(cw[g][k])
    BY <1>1, DroppedRows
  <1>5. CASE WriteColumnFails(g)
    <2>1. SetColumn(g, col[g], FlushColumnFails(WithChunk(g, col[g]), col[g], taken[g]))
      BY <1>5 DEF WriteColumnFails
    <2>2. ColumnRows(FlushColumnFails(WriteValues(cw[g][k], k, chunk[g]), k, taken[g]))
           = EncodedRows(cw[g][k])
      BY <1>1, <1>2, DroppedChunk
    <2>3. ColumnRows(FlushColumnFails(WithChunk(g, k), k, taken[g])) = EncodedRows(cw[g][k])
      BY <1>4, <2>2 DEF WithChunk
    <2> QED BY <1>2, <1>3, <2>1, <2>3
  <1>6. CASE FlushGroupColumnFails(g)
    BY <1>2, <1>3, <1>4, <1>6 DEF FlushGroupColumnFails
  <1>7. CASE FlushRowGroupColumnFails /\ Group = g
    BY <1>2, <1>3, <1>4, <1>7 DEF FlushRowGroupColumnFails
  <1>8. CASE CloseColumnFails /\ g = 0
    BY <1>2, <1>3, <1>4, <1>8 DEF CloseColumnFails
  <1>9. CASE FlushFilterPagesFails /\ Group = g
    <2>1. ColumnRows(FlushColumn(cw[g][k], k, taken[g])) = ColumnRows(cw[g][k])
      BY <1>1, PoolType, FlushColumnRows DEF Fine
    <2>2. OnlyColumn(g, pos, FlushColumn(cw[g][pos], pos, taken[g]))
      BY <1>2, <1>9, SetColumnIs DEF FlushFilterPagesFails
    <2> QED BY <2>1, <2>2 DEF OnlyColumn, Rows
  <1>10. CASE ReencodeBatchFails /\ g = 0
    <2> DEFINE rows == SubSeq(source, done + 1, BatchEnd)
    <2>1. /\ BatchColumns[k] \in ColumnWriterState /\ rows \in Seq(Row)
          /\ SameButFilter(cw[0][k], BatchColumns[k])
      BY <1>10, ReencodeBatchIs
    <2>2. /\ Fine(BatchColumns[k]) /\ ColumnRows(BatchColumns[k]) = ColumnRows(cw[0][k])
          /\ EncodedRows(BatchColumns[k]) = EncodedRows(cw[0][k])
      BY <1>1, <1>10, <2>1, SameButFilterSame DEF Fine
    <2> HIDE DEF rows
    <2>3. ColumnRows(FlushColumnFails(WriteValues(BatchColumns[k], k, rows), k, taken[0]))
            = EncodedRows(cw[0][k])
      BY <2>1, <2>2, DroppedChunk
    <2>4. cw'[0][k] = IF k = pos THEN FlushColumnFails(BatchColumn, k, taken[0]) ELSE BatchColumns[k]
      BY <1>2, <1>10, ReencodeBatchIs DEF ReencodeBatchFails, SetBatchColumn, TypeOK
    <2> QED BY <1>10, <2>2, <2>3, <2>4 DEF BatchColumn, Rows, rows
  <1> QED BY <1>5, <1>6, <1>7, <1>8, <1>9, <1>10 DEF Dropping


LEMMA RowsReset ==
  ASSUME TypeOK, ResetRowGroupColumn, NEW g \in Groups, g = Group
  PROVE  /\ pos \in Columns
         /\ \A k \in Columns : Rows(g, k)' = IF k = pos THEN << >> ELSE Rows(g, k)
         /\ \A h \in Groups, k \in Columns : h # g => cw'[h][k] = cw[h][k]
  <1>1. pos \in Columns /\ cw[g][pos] \in ColumnWriterState
    BY GroupColumn DEF ResetRowGroupColumn
  <1>2. SetColumn(g, pos, resetColumn(cw[g][pos]))
    BY DEF ResetRowGroupColumn
  <1>3. OnlyColumn(g, pos, resetColumn(cw[g][pos]))
    BY <1>1, <1>2, SetColumnIs
  <1>4. ColumnRows(resetColumn(cw[g][pos])) = << >>
    BY <1>1, ResetColumnType, ResetColumnRows, BlankRows
  <1>5. ASSUME NEW k \in Columns
        PROVE  Rows(g, k)' = IF k = pos THEN << >> ELSE Rows(g, k)
    BY <1>3, <1>4 DEF OnlyColumn, Rows
  <1> QED BY <1>1, <1>3, <1>5 DEF OnlyColumn

\* Without a path of WriteRowGroup a chunk on the current row group is one of Write.
LEMMA WriteIsGeneric ==
  ASSUME WriteAlone, TypeOK, Control, NoPath, "Write" \in CallKinds, pc[0] = "write", chunk[0] # << >>
  PROVE  generic /\ resolved
  <1>1. job = << >> \/ job = OnPath("copyRows")
    BY DEF Control, CallFits
  <1>2. job = << >>
    BY <1>1 DEF NoPath, PathLeft
  <1>3. Len(job) = 0
    BY <1>2
  <1>4. generic
    BY <1>3 DEF Control, CallFits, WriteAlone
  <1> QED BY <1>4 DEF Control, CallFits

\* What Write has installed stays.
LEMMA ResolvedStep ==
  ASSUME [Next]_vars
  PROVE  resolved => resolved'
  <1>1. CASE UNCHANGED allButPool
    BY <1>1 DEF allButPool, callVars
  <1>2. CASE ApplicationCall
    BY <1>2 DEF ApplicationCall, WriteRows, WriteRowGroup, FlushGroup, Commit, Flush, Close,
                Reset, Call, callVars
  <1>3. CASE MainStep
    BY <1>3 DEF MainStep, SkipEmptyRowGroup, TooManyRowGroups, StartRowGroup, FlushRowGroupColumn,
                FlushRowGroupColumnFails, FlushFilterPagesFails, WriteHeader, WriteColumnPages,
                NoBloomFilter,
                DeferBloomFilter, WriteBloomFilter, WriteRowGroupFails, AppendRowGroup,
                ResetRowGroupColumn, CloseColumn, CloseColumnFails, CloseHeader,
                WriteDeferredBloomFilter, DeferredBloomFiltersWritten, PutDeferredBuffer,
                DeferredBuffersReturned, WriteFooter, CloseFails, LoadCopiedChunk, StartCopyRows,
                RowsCopied, CopyRowsFails, Fail, ReencodeBatch, ReencodeBatchFails,
                WriteRowGroupSourceFails, callVars
  <1>4. ASSUME NEW g \in Groups, GroupStep(g)
        PROVE  resolved => resolved'
    BY <1>4 DEF GroupStep, NextChunk, GroupFull, WriteColumn, WriteColumnFails, FlushGroupColumn,
                FlushGroupColumnFails
  <1> QED BY <1>1, <1>2, <1>3, <1>4, NextCases

\* No rows come to the buffers that the first call of Write replaces.
LEMMA UnwrittenStep ==
  ASSUME WriteAlone, LogInv, [Next]_vars
  PROVE  Unwritten'
  <1> USE DEF LogInv, ContentInv
  <1>0. 0 \in Groups
    BY DEF Groups
  <1> SUFFICES ASSUME "Write" \in CallKinds, ~resolved', NEW k \in Columns
               PROVE  Rows(0, k)' = << >>
    BY DEF Unwritten
  <1>1. ~NextChunk(0) \/ ~Generic(0)
    BY DEF NextChunk
  <1>2. CASE Changing(0)
    <2>1. ~LoadCopiedChunk /\ ~ReencodeBatch
      <3>1. ASSUME LoadCopiedChunk \/ ReencodeBatch
            PROVE  FALSE
        <4>1. PICK p \in {"copyable", "columnar"} : job # << >> /\ job[1].op = p
          BY <3>1 DEF LoadCopiedChunk, ReencodeBatch, ReencodeBatchFails, Running
        <4>2. job = OnPath(p)
          BY <4>1, JobFirst DEF Control, Paths
        <4> QED BY <4>2 DEF NoPath, PathLeft, Paths
      <3> QED BY <3>1
    <2>2. ~(WriteColumn(0) /\ ~Generic(0))
      BY <1>0, WriteIsGeneric DEF WriteColumn, Generic
    <2>3. ResetRowGroupColumn /\ Group = 0
      BY <1>1, <1>2, <2>1, <2>2 DEF Changing
    <2>4. resolved' = resolved
      BY <2>3 DEF ResetRowGroupColumn
    <2>5. Rows(0, k)' = IF k = pos THEN << >> ELSE Rows(0, k)
      BY <1>0, <2>3, RowsReset
    <2> QED BY <2>4, <2>5 DEF Unwritten
  <1>3. CASE ~Changing(0)
    <2>1. ~resolved
      BY ResolvedStep
    <2>2. Rows(0, k) = << >>
      BY <2>1 DEF Unwritten
    <2>3. CASE Dropping(0)
      BY <1>0, <2>2, <2>3, NoRowsBuffered, RowsDropped DEF TypeOK, Rows
    <2>4. CASE ~Dropping(0)
      BY <1>0, <1>3, <2>2, <2>4, RowsStay DEF AllFine
    <2> QED BY <2>3, <2>4
  <1> QED BY <1>2, <1>3

\* A new writer.
LEMMA LogInvInit ==
  ASSUME Init
  PROVE  LogInv
  <1>1. ContentInv
    BY ContentInit
  <1>2. AllFine /\ \A k \in Columns : Rows(0, k) = << >>
    <2>1. ASSUME NEW g \in Groups, NEW k \in Columns
          PROVE  Fine(cw[g][k]) /\ Rows(g, k) = << >>
      <3>1. cw[g][k] = NewColumnWriter
        BY DEF Init
      <3>2. NewColumnWriter \in ColumnWriterState /\ Blank(NewColumnWriter) /\ NewColumnWriter.plain = << >>
        BY ResetColumnType, ResetColumnRows
      <3>3. BuffersFit(NewColumnWriter) /\ ColumnRows(NewColumnWriter) = << >>
        BY <3>2, BlankRows
      <3> QED BY <3>1, <3>2, <3>3 DEF Fine, PlainFits, Rows
    <2>2. 0 \in Groups
      BY DEF Groups
    <2> QED BY <2>1, <2>2 DEF AllFine
  <1>3. NoPath
    <2>1. \A p : BeforePath(p) # << >> /\ OnPath(p) # << >>
      BY JobTails, Zenon
    <2> QED BY <2>1 DEF NoPath, PathLeft, Init
  <1>4. NeverAborts
    BY DEF NeverAborts, Init
  <1> QED BY <1>1, <1>2, <1>3, <1>4 DEF LogInv, Unwritten

\* No step breaks the invariant.
LEMMA LogInvStep ==
  ASSUME FallbackOrReset, FallbackOrFaults, WriteAlone, LogInv, [Next]_vars
  PROVE  LogInv'
  <1>1. OneKindOfWrite
    BY DEF WriteAlone, OneKindOfWrite
  <1>2. ContentInv'
    BY <1>1, ContentStep DEF LogInv
  <1>3. AllFine' /\ Unwritten'
    BY AllFineStep, UnwrittenStep
  <1>4. NeverAborts' /\ NoPath'
    BY <1>2, NeverAbortsStep, NoPathStep DEF LogInv, ContentInv
  <1> QED BY <1>2, <1>3, <1>4 DEF LogInv

-----------------------------------------------------------------------------
(* The rows of the file. *)

\* The rows that a reader finds in the segments f at the locations of metadata m.
RowsIn(f, m) ==
  FlattenSeq([j \in 1 .. Len(m.locations) |->
                (CHOOSE s \in f : s.at = m.locations[j].offset /\ s.kind = "data").rows])

\* At a position there is one segment.
OneSegment(f) == \A s \in f, t \in f : (s.at = t.at /\ s.kind = t.kind) => s = t

\* It is so before and after a step.
LEMMA SegmentsDiffer ==
  /\ TypeOK /\ FileInv => OneSegment(file)
  /\ TypeOK' /\ FileInv' => OneSegment(file')
  <1>1. ASSUME TypeOK, FileInv
        PROVE  OneSegment(file)
    <2>1. \A s \in file : s.at \in Nat /\ s.size \in Nat /\ s.size > 0
      BY <1>1 DEF TypeOK, Segment, FileInv
    <2>2. \A s, t \in file : s = t \/ s.at + s.size <= t.at \/ t.at + t.size <= s.at
      BY <1>1 DEF FileInv, SegmentsDisjoint
    <2> QED BY <2>1, <2>2 DEF OneSegment
  <1>2. ASSUME TypeOK', FileInv'
        PROVE  OneSegment(file')
    <2>1. \A s \in file' : s.at \in Nat /\ s.size \in Nat /\ s.size > 0
      BY <1>2 DEF TypeOK, Segment, FileInv
    <2>2. \A s, t \in file' : s = t \/ s.at + s.size <= t.at \/ t.at + t.size <= s.at
      BY <1>2 DEF FileInv, SegmentsDisjoint
    <2> QED BY <2>1, <2>2 DEF OneSegment
  <1> QED BY <1>1, <1>2

\* A reader finds the rows of the pages that were written.
LEMMA RowsInFound ==
  ASSUME NEW f, OneSegment(f), NEW m, NEW k, NEW pages \in Seq(Page), ChunkWritten(f, m, k, pages)
  PROVE  RowsIn(f, m) = FlattenSeq(RowsOfPages(pages)) /\ RowsIn(f, m) \in Seq(Row)
  <1>1. Len(m.locations) = Len(pages) /\ Len(pages) \in Nat
    BY DEF ChunkWritten
  <1>2. ASSUME NEW j \in 1 .. Len(pages)
        PROVE  (CHOOSE s \in f : s.at = m.locations[j].offset /\ s.kind = "data").rows = pages[j].rows
    <2> DEFINE t == CHOOSE s \in f : s.at = m.locations[j].offset /\ s.kind = "data"
    <2>1. PICK s \in f : s.kind = "data" /\ s.at = m.locations[j].offset /\ s.rows = pages[j].rows
      BY DEF ChunkWritten, DataAt
    <2>2. t \in f /\ t.at = m.locations[j].offset /\ t.kind = "data"
      BY <2>1
    <2> HIDE DEF t
    <2>3. t = s
      BY <2>1, <2>2 DEF OneSegment
    <2> QED BY <2>1, <2>3 DEF t
  <1>3. RowsIn(f, m) = FlattenSeq(RowsOfPages(pages))
    BY <1>1, <1>2 DEF RowsIn, RowsOfPages
  <1>4. RowsOfPages(pages) \in Seq(Seq(Row))
    <2>1. \A j \in 1 .. Len(pages) : pages[j] \in Page
      OBVIOUS
    <2>2. \A j \in 1 .. Len(pages) : pages[j].rows \in Seq(Row)
      BY <2>1 DEF Page
    <2> QED BY <1>1, <2>2 DEF RowsOfPages
  <1>5. FlattenSeq(RowsOfPages(pages)) \in Seq(Row)
    BY <1>4, FlattenSeqRecursion
  <1> QED BY <1>3, <1>5

\* The rows of the file, from its segments and its metadata.
FoundRows(f, r, k) == [i \in 1 .. Len(r) |-> RowsIn(f, r[i].columns[k])]

\* They are what RowLog calls the log.
LEMMA FileRowsAre ==
  ASSUME NEW k
  PROVE  /\ FileRows(k) = FlattenSeq(FoundRows(file, rowGroups, k))
         /\ FileRows(k)' = FlattenSeq(FoundRows(file', rowGroups', k))
  <1>1. \A i : RowsOf(i, k) = RowsIn(file, rowGroups[i].columns[k])
    <2> TAKE i
    <2>1. DOMAIN PagesOf(i, k) = 1 .. Len(Chunk(i, k).locations)
      BY DEF PagesOf
    <2>2. \A j \in 1 .. Len(Chunk(i, k).locations) :
            PagesOf(i, k)[j] = SegmentAt(Chunk(i, k).locations[j].offset, "data")
      BY DEF PagesOf
    <2>3. [j \in DOMAIN PagesOf(i, k) |-> PagesOf(i, k)[j].rows]
            = [j \in 1 .. Len(Chunk(i, k).locations) |->
                 SegmentAt(Chunk(i, k).locations[j].offset, "data").rows]
      BY <2>1, <2>2
    <2> QED BY <2>3 DEF RowsOf, RowsIn, Chunk, SegmentAt
  <1>2. \A i : RowsOf(i, k)' = RowsIn(file', rowGroups'[i].columns[k])
    <2> TAKE i
    <2>1. DOMAIN PagesOf(i, k)' = 1 .. Len(Chunk(i, k)'.locations)
      BY DEF PagesOf
    <2>2. \A j \in 1 .. Len(Chunk(i, k)'.locations) :
            PagesOf(i, k)'[j] = (CHOOSE s \in file' : s.at = Chunk(i, k)'.locations[j].offset /\ s.kind = "data")
      BY DEF PagesOf, SegmentAt
    <2>3. [j \in DOMAIN PagesOf(i, k)' |-> PagesOf(i, k)'[j].rows]
            = [j \in 1 .. Len(Chunk(i, k)'.locations) |->
                 (CHOOSE s \in file' : s.at = Chunk(i, k)'.locations[j].offset /\ s.kind = "data").rows]
      BY <2>1, <2>2
    <2> QED BY <2>3 DEF RowsOf, RowsIn, Chunk
  <1> QED BY <1>1, <1>2 DEF FileRows, FoundRows

\* Every row group of the file has its rows.
LEMMA FoundRowsType ==
  ASSUME TypeOK, FileInv, FileWritten, NEW k \in Columns
  PROVE  /\ FoundRows(file, rowGroups, k) \in Seq(Seq(Row)) /\ FileRows(k) \in Seq(Row)
         /\ Len(rowGroups) \in Nat
         /\ \A i \in 1 .. Len(rowGroups) :
              \E pages \in Seq(Page) : ChunkWritten(file, rowGroups[i].columns[k], k, pages)
  <1>1. Len(rowGroups) \in Nat
    BY DEF TypeOK
  <1>2. ASSUME NEW i \in 1 .. Len(rowGroups)
        PROVE  \E pages \in Seq(Page) : ChunkWritten(file, rowGroups[i].columns[k], k, pages)
    <2>1. PICK pages \in [Columns -> Seq(Page)] :
            \A m \in Columns : ChunkWritten(file, rowGroups[i].columns[m], m, pages[m])
      BY DEF FileWritten, RowGroupWritten
    <2> QED BY <2>1
  <1>3. OneSegment(file)
    BY SegmentsDiffer
  <1>4. \A i \in 1 .. Len(rowGroups) : RowsIn(file, rowGroups[i].columns[k]) \in Seq(Row)
    BY <1>2, <1>3, RowsInFound
  <1>5. FoundRows(file, rowGroups, k) \in Seq(Seq(Row))
    BY <1>1, <1>4 DEF FoundRows
  <1>6. FileRows(k) \in Seq(Row)
    BY <1>5, FileRowsAre, FlattenSeqRecursion
  <1> QED BY <1>1, <1>2, <1>5, <1>6

\* As long as the file grows and the row groups are the same, so are their rows.
LEMMA FileRowsStay ==
  ASSUME TypeOK, TypeOK', FileInv, FileInv', FileWritten, NEW k \in Columns,
         file \subseteq file', Len(rowGroups') = Len(rowGroups),
         \A i \in 1 .. Len(rowGroups) :
           /\ rowGroups'[i].columns[k].locations = rowGroups[i].columns[k].locations
           /\ rowGroups'[i].columns[k].dictionaryPageOffset = rowGroups[i].columns[k].dictionaryPageOffset
  PROVE  FileRows(k)' = FileRows(k)
  <1>1. OneSegment(file) /\ OneSegment(file')
    BY SegmentsDiffer
  <1>2. ASSUME NEW i \in 1 .. Len(rowGroups)
        PROVE  RowsIn(file', rowGroups'[i].columns[k]) = RowsIn(file, rowGroups[i].columns[k])
    <2>1. PICK pages \in Seq(Page) : ChunkWritten(file, rowGroups[i].columns[k], k, pages)
      BY FoundRowsType
    <2>2. ChunkWritten(file', rowGroups'[i].columns[k], k, pages)
      BY <2>1, ChunkStays
    <2> QED BY <1>1, <2>1, <2>2, RowsInFound
  <1>3. FoundRows(file', rowGroups', k) = FoundRows(file, rowGroups, k)
    BY <1>2 DEF FoundRows
  <1> QED BY <1>3, FileRowsAre

\* Append as a function.
LEMMA AppendIs ==
  ASSUME NEW T, NEW s \in Seq(T), NEW x \in T
  PROVE  Append(s, x) = [i \in 1 .. Len(s) + 1 |-> IF i = Len(s) + 1 THEN x ELSE s[i]]
  <1> DEFINE a == Append(s, x)
             b == [i \in 1 .. Len(s) + 1 |-> IF i = Len(s) + 1 THEN x ELSE s[i]]
  <1>1. a \in Seq(T) /\ Len(a) = Len(s) + 1 /\ Len(s) \in Nat
    OBVIOUS
  <1>2. \A i \in 1 .. Len(s) + 1 : a[i] = IF i = Len(s) + 1 THEN x ELSE s[i]
    BY <1>1
  <1>3. b \in Seq(T) /\ Len(b) = Len(s) + 1
    BY <1>1
  <1>4. \A i \in 1 .. Len(s) + 1 : a[i] = b[i]
    BY <1>2
  <1> HIDE DEF a, b
  <1>5. a = b
    BY <1>1, <1>3, <1>4
  <1> QED BY <1>5 DEF a, b

\* A row group that joins the file adds its rows.
LEMMA FileRowsJoin ==
  ASSUME TypeOK, FileInv, FileWritten, NEW k \in Columns, NEW r,
         UNCHANGED file, rowGroups' = Append(rowGroups, r),
         NEW pages \in Seq(Page), ChunkWritten(file, r.columns[k], k, pages)
  PROVE  FileRows(k)' = FileRows(k) \o FlattenSeq(RowsOfPages(pages))
  <1> DEFINE x == RowsIn(file, r.columns[k])
             old == FoundRows(file, rowGroups, k)
             new == FoundRows(file', rowGroups', k)
  <1>1. x = FlattenSeq(RowsOfPages(pages)) /\ x \in Seq(Row)
    BY RowsInFound, SegmentsDiffer
  <1>2. old \in Seq(Seq(Row)) /\ Len(rowGroups) \in Nat
    BY FoundRowsType
  <1>3. new = Append(old, x)
    <2>1. Len(rowGroups') = Len(rowGroups) + 1 /\ rowGroups \in Seq(RowGroup)
      BY DEF TypeOK
    <2>2. \A i \in 1 .. Len(rowGroups) : rowGroups'[i] = rowGroups[i]
      BY <2>1
    <2>3. rowGroups'[Len(rowGroups) + 1] = r
      BY <2>1
    <2>4. new = [i \in 1 .. Len(rowGroups) + 1 |-> RowsIn(file, rowGroups'[i].columns[k])]
      BY <2>1 DEF FoundRows
    <2>5. Len(old) = Len(rowGroups) /\ \A i \in 1 .. Len(rowGroups) : old[i] = RowsIn(file, rowGroups[i].columns[k])
      BY <1>2 DEF FoundRows
    <2> HIDE DEF old, x
    <2>6. Append(old, x) = [i \in 1 .. Len(rowGroups) + 1 |-> IF i = Len(rowGroups) + 1 THEN x ELSE old[i]]
      BY <1>1, <1>2, <2>5, AppendIs
    <2>7. \A i \in 1 .. Len(rowGroups) + 1 :
            RowsIn(file, rowGroups'[i].columns[k]) = IF i = Len(rowGroups) + 1 THEN x ELSE old[i]
      BY <1>2, <2>2, <2>3, <2>5 DEF x
    <2> QED BY <2>4, <2>6, <2>7
  <1>4. FlattenSeq(Append(old, x)) = FlattenSeq(old) \o x
    BY <1>1, <1>2, FlattenSeqRecursion
  <1> QED BY <1>1, <1>3, <1>4, FileRowsAre

-----------------------------------------------------------------------------
(* What the steps leave alone. *)

\* The rows that a reader of the file does not see.
LEMMA HeldIs ==
  ASSUME NEW g, NEW k
  PROVE  /\ HeldRows(g, k) = IF InReset(g) THEN << >> ELSE Rows(g, k)
         /\ HeldRows(g, k)' = IF InReset(g)' THEN << >> ELSE Rows(g, k)'
  BY DEF HeldRows, InReset, Rows, ColumnRows, EncodedRows, PageRows

\* They are rows.
LEMMA HeldType ==
  ASSUME NEW g \in Groups, NEW k \in Columns
  PROVE  /\ TypeOK => HeldRows(g, k) \in Seq(Row) /\ Rows(g, k) \in Seq(Row)
         /\ TypeOK' => HeldRows(g, k)' \in Seq(Row) /\ Rows(g, k)' \in Seq(Row)
  <1>1. << >> \in Seq(Row)
    OBVIOUS
  <1>2. ASSUME TypeOK PROVE HeldRows(g, k) \in Seq(Row) /\ Rows(g, k) \in Seq(Row)
    <2>1. cw[g][k] \in ColumnWriterState
      BY <1>2 DEF TypeOK
    <2>2. Rows(g, k) \in Seq(Row)
      BY <2>1, PageRowsType DEF Rows
    <2> QED BY <1>1, <2>2, HeldIs
  <1>3. ASSUME TypeOK' PROVE HeldRows(g, k)' \in Seq(Row) /\ Rows(g, k)' \in Seq(Row)
    <2>1. cw'[g][k] \in ColumnWriterState
      BY <1>3 DEF TypeOK
    <2>2. Rows(g, k)' \in Seq(Row)
      BY <2>1, PageRowsType DEF Rows
    <2> QED BY <1>1, <2>2, HeldIs
  <1> QED BY <1>2, <1>3

\* Row group g begins to be emptied.
Begins(g) == (AppendRowGroup \/ (DeferredBuffersReturned /\ Running("reset"))) /\ Group = g

\* No other step starts to empty a row group.
LEMMA ResetBegins ==
  ASSUME TypeOK, Control, [Next]_vars, NEW g \in Groups, InReset(g)', ~InReset(g)
  PROVE  Begins(g)
  <1>0. phase' = "reset" /\ job' # << >> /\ job'[1].group = g
    BY DEF InReset, Group
  <1>1. \/ job # << >> /\ Still
        \/ StartRowGroup \/ FlushRowGroupColumn \/ FlushRowGroupColumnFails \/ FlushFilterPagesFails \/ WriteHeader
        \/ WriteColumnPages \/ NoBloomFilter \/ DeferBloomFilter \/ WriteBloomFilter
        \/ WriteRowGroupFails \/ AppendRowGroup \/ ResetRowGroupColumn \/ DeferredBuffersReturned
    BY <1>0, PhaseMoves
  <1>2. CASE job # << >> /\ Still
    BY <1>0, <1>2 DEF Still, mainVars, InReset, Group
  <1>3. CASE StartRowGroup \/ FlushRowGroupColumnFails \/ FlushFilterPagesFails \/ WriteHeader \/ WriteRowGroupFails
    BY <1>0, <1>3 DEF StartRowGroup, FlushRowGroupColumnFails, FlushFilterPagesFails, WriteHeader,
      WriteRowGroupFails
  <1>4. CASE FlushRowGroupColumn \/ WriteColumnPages \/ NoBloomFilter \/ DeferBloomFilter \/ WriteBloomFilter
    BY <1>0, <1>4 DEF FlushRowGroupColumn, WriteColumnPages, NoBloomFilter, DeferBloomFilter,
                      WriteBloomFilter, NextColumnOr, InRowGroup
  <1>5. CASE AppendRowGroup
    BY <1>0, <1>5 DEF AppendRowGroup, Begins, Group
  <1>6. CASE ResetRowGroupColumn
    BY <1>0, <1>6 DEF ResetRowGroupColumn, NextColumnOr, InReset, Group
  <1>7. CASE DeferredBuffersReturned
    BY <1>0, <1>7 DEF DeferredBuffersReturned, Begins, Group, Running
  <1> QED BY <1>1, <1>2, <1>3, <1>4, <1>5, <1>6, <1>7

\* A row group holds its rows until it is written or a call on it fails.
LEMMA HeldSame ==
  ASSUME LogInv, [Next]_vars, NEW g \in Groups, ~Changing(g), ~Dropping(g), ~Begins(g)
  PROVE  \A k \in Columns : HeldRows(g, k)' = HeldRows(g, k)
  <1>1. TypeOK /\ Control /\ \A k \in Columns : Fine(cw[g][k])
    BY DEF LogInv, ContentInv, AllFine
  <1>2. \A k \in Columns : Rows(g, k)' = Rows(g, k)
    BY <1>1, RowsStay
  <1>3. InReset(g)' <=> InReset(g)
    BY <1>1, ResetKept, ResetBegins
  <1> QED BY <1>2, <1>3, HeldIs

\* A row group whose columns stay as they are.
LEMMA HeldElsewhere ==
  ASSUME NEW g \in Groups, NEW k, cw'[g][k] = cw[g][k], InReset(g)' <=> InReset(g)
  PROVE  HeldRows(g, k)' = HeldRows(g, k)
  BY HeldIs DEF Rows

\* The rows of the file stay the same.
LEMMA FileRowsSame ==
  ASSUME LogInv, LogInv', [Next]_vars, UNCHANGED rowGroups \/ WriteDeferredBloomFilter, NEW k \in Columns
  PROVE  FileRows(k)' = FileRows(k)
  <1>1. TypeOK /\ TypeOK' /\ FileInv /\ FileInv' /\ FileWritten
    BY DEF LogInv, ContentInv
  <1>2. /\ Len(rowGroups') = Len(rowGroups)
        /\ \A i \in 1 .. Len(rowGroups) :
             /\ rowGroups'[i].columns[k].locations = rowGroups[i].columns[k].locations
             /\ rowGroups'[i].columns[k].dictionaryPageOffset = rowGroups[i].columns[k].dictionaryPageOffset
    BY <1>1, LocatedColumns
  <1>3. CASE file \subseteq file'
    BY <1>1, <1>2, <1>3, FileRowsStay
  <1>4. CASE rowGroups' = << >>
    BY <1>2, <1>4, FileRowsAre DEF FoundRows
  <1> QED BY <1>3, <1>4, FileGrows

\* Neither the file nor what has failed changes.
LEMMA OutsideKept ==
  ASSUME LogInv, LogInv', [Next]_vars, UNCHANGED rowGroups \/ WriteDeferredBloomFilter,
         status' = "failed" <=> status = "failed", phase' = "abort" <=> phase = "abort",
         \A g \in Groups \ {0} : pc'[g] = "failed" <=> pc[g] = "failed"
  PROVE  \A k \in Columns : OutsideSame(k)
  BY FileRowsSame DEF Broken, OutsideSame

\* What is left of the rows of a call.
CallPart(g, k) == IF col[g] <= k /\ ~Generic(g) THEN chunk[g] \o todo[g] ELSE todo[g]

\* What is left of the rows given to WriteRowGroup.
SourcePart(k) ==
  IF ~(Running("copyable") \/ Running("columnar")) \/ pos < k THEN source
  ELSE IF pos = k THEN SubSeq(source, done + 1, Len(source)) ELSE << >>

\* The rows of a call or of a row group that a column has not got.
LEMMA PendingIs ==
  ASSUME NEW g, NEW k
  PROVE  /\ PendingRows(g, k) = IF g = 0 /\ source # << >> THEN SourcePart(k) ELSE CallPart(g, k)
         /\ PendingRows(g, k)' = IF g = 0 /\ source' # << >> THEN SourcePart(k)' ELSE CallPart(g, k)'
  BY DEF PendingRows, SourcePart, CallPart

\* The rows of a call on another row group.
LEMMA PendingElsewhere ==
  ASSUME NEW g \in Groups, NEW k, g # 0 \/ UNCHANGED <<job, pos, source, done, generic>>,
         UNCHANGED <<chunk[g], todo[g], col[g]>>
  PROVE  PendingRows(g, k)' = PendingRows(g, k)
  <1>1. CallPart(g, k)' = CallPart(g, k)
    BY DEF CallPart, Generic
  <1>2. g = 0 => SourcePart(k)' = SourcePart(k) /\ source' = source
    BY DEF SourcePart, Running
  <1> QED BY <1>1, <1>2, PendingIs

\* No rows are pending without a call.
LEMMA NothingPending ==
  ASSUME TypeOK, Control, NEW g \in Groups, NEW k, pc[g] # "write", g = 0 => source = << >>
  PROVE  PendingRows(g, k) = << >>
  <1>1. chunk[g] = << >> /\ todo[g] = << >>
    BY DEF Control, CallFits
  <1>2. << >> \o << >> = << >>
    OBVIOUS
  <1>3. CallPart(g, k) = << >>
    BY <1>1, <1>2 DEF CallPart
  <1> QED BY <1>3, PendingIs

\* The main thread goes on, and the rows of calls and of WriteRowGroup stay.
LEMMA PendingKept ==
  ASSUME TypeOK, Control, UNCHANGED <<callVars, source>>,
         \/ source = << >>
         \/ UNCHANGED <<job, pos, done>>
         \/ job # << >> /\ UNCHANGED job /\ job[1].op \notin {"copyable", "columnar"}
         \/ job # << >> /\ job[1].op = "rowGroup" /\ job' = Tail(job) /\ pos' = 1 /\ UNCHANGED done
  PROVE  \A g \in Groups, k \in Columns : PendingRows(g, k)' = PendingRows(g, k)
  <1> SUFFICES ASSUME NEW g \in Groups, NEW k \in Columns
               PROVE  PendingRows(g, k)' = PendingRows(g, k)
    OBVIOUS
  <1>1. CallPart(g, k)' = CallPart(g, k)
    BY DEF CallPart, Generic, callVars
  <1>2. SourcePart(k)' = SourcePart(k) \/ source = << >>
    <2>1. CASE UNCHANGED <<job, pos, done>>
      BY <2>1 DEF SourcePart, Running
    <2>2. CASE job # << >> /\ UNCHANGED job /\ job[1].op \notin {"copyable", "columnar"}
      BY <2>2 DEF SourcePart, Running
    <2>3. CASE /\ source # << >>
               /\ job # << >> /\ job[1].op = "rowGroup" /\ job' = Tail(job) /\ pos' = 1 /\ UNCHANGED done
      <3>1. PICK p \in Paths : PathLeft(p)
        BY <2>3 DEF Control, SourceFits
      <3>2. job = BeforePath(p) /\ done = 0
        BY <2>3, <3>1, JobOps DEF PathLeft, Control, SourceFits, Paths
      <3>3. SourcePart(k) = source
        BY <2>3 DEF SourcePart, Running
      <3>4. source \in Seq(Row) /\ k \in Nat /\ 1 <= k
        BY DEF TypeOK, Columns
      <3>5. SubSeq(source, 1, Len(source)) = source
        BY <3>4
      <3>6. pos' < k \/ pos' = k
        BY <2>3, <3>4
      <3>7. done' + 1 = 1
        BY <2>3, <3>2
      <3> QED BY <2>3, <3>3, <3>5, <3>6, <3>7 DEF SourcePart
    <2> QED BY <2>1, <2>2, <2>3
  <1> QED BY <1>1, <1>2, PendingIs

-----------------------------------------------------------------------------
(* The steps that bring rows to the columns. *)

\* A goroutine runs while its row group is not being emptied.
LEMMA CallNotReset ==
  ASSUME TypeOK, Control, NEW g \in Groups, pc[g] = "write" \/ pc[g] = "flush",
         g = 0 => chunk[0] # << >> \/ BetweenChunks(0)
  PROVE  ~InReset(g) /\ ~InAbort(g) /\ (g = 0 => source = << >>)
  BY ChunkJob, JobOps, NoSource, JobFirst DEF Control, CallFits, BetweenChunks, PhaseFits, InReset,
    InAbort

\* The main thread stands still while a goroutine writes.
LEMMA WritesElsewhere ==
  ASSUME LogInv, LogInv', [Next]_vars, NEW g \in Groups, NextChunk(g) \/ WriteColumn(g), NEW k \in Columns
  PROVE  OutsideSame(k) /\ OthersSame(g, k) /\ (InReset(g)' <=> InReset(g))
  <1>1. UNCHANGED <<mainVars, outVars, generic>>
    BY DEF NextChunk, WriteColumn
  <1>2. \A h : InReset(h)' <=> InReset(h)
    BY <1>1 DEF InReset, Group, mainVars
  <1>3. TypeOK /\ Control
    BY DEF LogInv, ContentInv
  <1>4. \A h \in Groups \ {0} : pc'[h] = "failed" <=> pc[h] = "failed"
    BY <1>3 DEF TypeOK, NextChunk, WriteColumn
  <1>5. OutsideSame(k)
    BY <1>1, <1>4, OutsideKept DEF mainVars, outVars
  <1>6. ASSUME NEW h \in Groups \ {g}
        PROVE  PendingRows(h, k)' = PendingRows(h, k) /\ HeldRows(h, k)' = HeldRows(h, k)
    <2>1. cw'[h] = cw[h]
      BY <1>3, OtherColumns DEF GroupStep
    <2>2. UNCHANGED <<chunk[h], todo[h], col[h]>>
      BY <1>3 DEF TypeOK, NextChunk, WriteColumn
    <2>3. PendingRows(h, k)' = PendingRows(h, k)
      BY <1>1, <2>2, PendingElsewhere DEF mainVars
    <2> QED BY <1>2, <2>1, <2>3, HeldElsewhere
  <1> QED BY <1>2, <1>5, <1>6 DEF OthersSame

\* A chunk of a call and what is left of it.
LEMMA ChunkSplit ==
  ASSUME TypeOK, NEW g \in Groups, NextChunk(g)
  PROVE  /\ todo[g] = chunk'[g] \o todo'[g]
         /\ col'[g] = 1
         /\ chunk[g] = << >>
         /\ pc[g] = "write"
         /\ chunk'[g] \in Seq(Row) /\ todo'[g] \in Seq(Row)
  BY ChunkParts DEF NextChunk, TypeOK, BetweenChunks

\* A chunk of Write goes to all the columns.
LEMMA WriteLogs ==
  ASSUME WriteAlone, LogInv, LogInv', [Next]_vars, NEW g \in Groups, NextChunk(g), Generic(g), NEW k \in Columns
  PROVE  LogStep(k)
  <1>1. TypeOK /\ TypeOK' /\ Control /\ g = 0 /\ generic /\ generic'
    BY DEF LogInv, ContentInv, Generic, NextChunk
  <1>2. /\ todo[g] = chunk'[g] \o todo'[g] /\ pc[g] = "write" /\ chunk'[g] \in Seq(Row) /\ todo'[g] \in Seq(Row)
    BY <1>1, ChunkSplit
  <1>3. "Write" \in CallKinds /\ BetweenChunks(0)
    BY <1>1, <1>2 DEF Control, CallFits, NextChunk
  <1>4. ~InReset(g) /\ source = << >> /\ source' = << >>
    BY <1>1, <1>2, <1>3, CallNotReset DEF NextChunk, mainVars
  <1>5. ~resolved => \A m \in Columns : Buffered(cw[0][m]) = << >>
    BY <1>1, <1>3, NoRowsBuffered DEF TypeOK, LogInv, Unwritten, Rows
  <1>6. PICK rows \in Seq(Row) :
          /\ chunk' = [chunk EXCEPT ![0] = rows]
          /\ \A m \in Columns : Rows(0, m) \in Seq(Row) /\ Rows(0, m)' = Rows(0, m) \o rows
    BY <1>1, <1>5, GenericChunk DEF LogInv, AllFine
  <1>7. chunk'[0] = rows
    BY <1>1, <1>6 DEF TypeOK
  <1>8. OutsideSame(k) /\ OthersSame(g, k) /\ ~InReset(g)'
    BY <1>4, WritesElsewhere
  <1>9. HeldRows(g, k)' = HeldRows(g, k) \o rows /\ HeldRows(g, k) \in Seq(Row)
    BY <1>1, <1>4, <1>6, <1>8, HeldIs
  <1>10. PendingRows(g, k) = todo[g] /\ PendingRows(g, k)' = todo'[g]
    BY <1>1, <1>4, PendingIs DEF CallPart, Generic
  <1> QED BY <1>1, <1>2, <1>7, <1>8, <1>9, <1>10, LogAccepts

\* A column gets a chunk of WriteRows.
LEMMA WriteRowsLogs ==
  ASSUME LogInv, LogInv', [Next]_vars, NEW g \in Groups, WriteColumn(g), ~Generic(g), NEW k \in Columns
  PROVE  LogStep(k)
  <1>1. TypeOK /\ TypeOK' /\ Control /\ AllFine /\ ~Generic(g)'
    BY DEF LogInv, ContentInv, Generic, WriteColumn
  <1>2. pc[g] = "write" /\ chunk[g] # << >> /\ chunk[g] \in Seq(Row) /\ todo[g] \in Seq(Row) /\ todo'[g] = todo[g]
    BY <1>1 DEF WriteColumn, TypeOK
  <1>3. ~InReset(g) /\ (g = 0 => source = << >>) /\ source' = source
    BY <1>1, <1>2, CallNotReset DEF WriteColumn, mainVars
  <1>4. \A m \in Columns : Rows(g, m)' = IF m = col[g] THEN Rows(g, m) \o chunk[g] ELSE Rows(g, m)
    BY <1>1, ColumnChunkRows DEF AllFine
  <1>5. OutsideSame(k) /\ OthersSame(g, k) /\ ~InReset(g)'
    BY <1>3, WritesElsewhere
  <1>6. /\ HeldRows(g, k)' = IF k = col[g] THEN HeldRows(g, k) \o chunk[g] ELSE HeldRows(g, k)
        /\ HeldRows(g, k) \in Seq(Row)
    BY <1>1, <1>3, <1>4, <1>5, HeldIs, HeldType
  <1>7. PendingRows(g, k) = CallPart(g, k) /\ PendingRows(g, k)' = CallPart(g, k)'
    BY <1>3, PendingIs
  <1>8. << >> \o todo[g] = todo[g]
    BY <1>2
  <1>9. col[g] \in Nat /\ k \in Nat /\ NumColumns \in Nat /\ col[g] <= NumColumns /\ k <= NumColumns
    <2>1. col[g] \in Columns
      BY <1>1 DEF TypeOK
    <2> QED BY <2>1, ColumnAssumption DEF Columns
  <1>10. \/ col'[g] = col[g] + 1 /\ chunk'[g] = chunk[g] /\ col[g] < NumColumns
         \/ col'[g] = col[g] /\ chunk'[g] = << >> /\ ~(col[g] < NumColumns)
    BY <1>1 DEF WriteColumn, TypeOK
  <1>11. CASE k = col[g]
    <2>1. CallPart(g, k) = chunk[g] \o todo[g]
      <3>1. col[g] <= k
        BY <1>9, <1>11
      <3> QED BY <3>1, Zenon DEF CallPart
    <2>2. CallPart(g, k)' = todo[g]
      <3>1. CASE col'[g] = col[g] + 1 /\ chunk'[g] = chunk[g]
        <4>1. ~(col'[g] <= k)
          BY <1>9, <1>11, <3>1
        <4> QED BY <1>2, <4>1, Zenon DEF CallPart
      <3>2. CASE chunk'[g] = << >>
        BY <1>2, <1>8, <3>2, Zenon DEF CallPart
      <3> QED BY <1>10, <3>1, <3>2
    <2> QED BY <1>2, <1>5, <1>6, <1>7, <1>11, <2>1, <2>2, LogAccepts
  <1>12. CASE k # col[g]
    <2>1. CallPart(g, k)' = CallPart(g, k)
      BY <1>1, <1>2, <1>8, <1>9, <1>10, <1>12 DEF CallPart
    <2> QED BY <1>5, <1>6, <1>7, <1>12, <2>1, LogStutters DEF OthersSame
  <1> QED BY <1>11, <1>12

-----------------------------------------------------------------------------
(* The steps that empty the columns. *)

\* The call in progress on the current row group ends with the main thread's.
LEMMA AbortPending ==
  ASSUME TypeOK, Control, job # << >>, job[1].op # "copyRows", AbortCall,
         UNCHANGED <<chunk, col, generic>>, NEW k \in Columns
  PROVE  /\ PendingRows(0, k)' = << >>
         /\ \A h \in Groups \ {0} : PendingRows(h, k)' = PendingRows(h, k)
  <1>1. chunk[0] = << >>
    BY JobOps DEF Control, CallFits
  <1>2. 0 \in Groups /\ todo'[0] = << >> /\ source' = << >>
    BY DEF Groups, TypeOK, AbortCall
  <1>3. << >> \o << >> = << >>
    OBVIOUS
  <1>4. CallPart(0, k)' = << >>
    BY <1>1, <1>2, <1>3 DEF CallPart
  <1>5. PendingRows(0, k)' = << >>
    BY <1>2, <1>4, PendingIs
  <1>6. ASSUME NEW h \in Groups \ {0} PROVE PendingRows(h, k)' = PendingRows(h, k)
    BY PendingElsewhere DEF TypeOK, AbortCall
  <1> QED BY <1>5, <1>6

\* After the row group is written its columns are emptied, which no reader sees.
LEMMA WrittenResets ==
  ASSUME LogInv, LogInv', [Next]_vars, ResetRowGroupColumn, phase = "reset", NEW k \in Columns
  PROVE  LogStep(k)
  <1>0. TypeOK /\ TypeOK' /\ Control /\ RowInv
    BY DEF LogInv, ContentInv
  <1>1. PICK g \in Groups : g = Group
    BY <1>0, GroupColumn DEF ResetRowGroupColumn
  <1>2. job # << >> /\ UNCHANGED <<callVars, source, done, rowGroups, status>>
    BY DEF ResetRowGroupColumn, callVars
  <1>3. job[1].op = "rowGroup" \/ job[1].op = "reset"
    BY <1>0, <1>2 DEF Control, PhaseFits
  <1>4. InReset(g) /\ \A h \in Groups \ {g} : ~InReset(h)
    BY <1>1, <1>2 DEF InReset
  <1>5. \/ pos < NumColumns /\ UNCHANGED <<job, phase>>
        \/ pos = NumColumns /\ job' = Tail(job) /\ phase' = "start" /\ pos' = 1
    BY <1>0, LastColumn DEF ResetRowGroupColumn, NextColumnOr
  <1>6. OutsideSame(k)
    BY <1>2, <1>5, OutsideKept DEF callVars
  <1>7. \A h \in Groups : PendingRows(h, k)' = PendingRows(h, k)
    <2>1. CASE UNCHANGED job
      BY <1>0, <1>2, <1>3, <2>1, PendingKept
    <2>2. CASE job' = Tail(job) /\ pos' = 1 /\ job[1].op = "rowGroup"
      BY <1>0, <1>2, <2>2, PendingKept
    <2>3. CASE job[1].op = "reset"
      BY <1>0, <1>2, <2>3, JobFirst, NoSource, PendingKept DEF Control
    <2> QED BY <1>3, <1>5, <2>1, <2>2, <2>3
  <1>8. ASSUME NEW h \in Groups \ {g} PROVE HeldRows(h, k)' = HeldRows(h, k)
    BY <1>0, <1>1, <1>4, <1>5, RowsReset, HeldElsewhere DEF InReset, Group
  <1>9. HeldRows(g, k)' = HeldRows(g, k)
    <2>1. HeldRows(g, k) = << >>
      BY <1>4, HeldIs
    <2>2. CASE UNCHANGED <<job, phase>>
      BY <1>4, <2>1, <2>2, HeldIs DEF InReset, Group
    <2>3. CASE pos = NumColumns /\ phase' = "start"
      BY <1>0, <1>1, <2>1, <2>3, ResetEnds, HeldIs DEF Rows
    <2> QED BY <1>5, <2>2, <2>3
  <1> QED BY <1>6, <1>7, <1>8, <1>9, LogStutters

\* Nothing, and everything, is a prefix.
LEMMA EmptyOrAll ==
  ASSUME NEW s \in Seq(Row), NEW t, t = << >> \/ t = s
  PROVE  Len(t) <= Len(s) /\ t = SubSeq(s, 1, Len(t))
  <1>1. Len(s) \in Nat /\ SubSeq(s, 1, Len(s)) = s /\ SubSeq(s, 1, 0) = << >> /\ Len(<< >>) = 0
    OBVIOUS
  <1>2. CASE t = s
    BY <1>1, <1>2
  <1>3. CASE t = << >>
    BY <1>1, <1>3
  <1> QED BY <1>2, <1>3

\* After a failure the row group loses its rows.
LEMMA AbortResets ==
  ASSUME LogInv, LogInv', [Next]_vars, ResetRowGroupColumn, phase # "reset", NEW k \in Columns
  PROVE  LogStep(k)
  <1>0. TypeOK /\ TypeOK' /\ Control /\ RowInv
    BY DEF LogInv, ContentInv
  <1>1. PICK g \in Groups : g = Group
    BY <1>0, GroupColumn DEF ResetRowGroupColumn
  <1>2. job # << >> /\ phase = "abort" /\ UNCHANGED <<chunk, col, generic, resolved, nextRow, done, rowGroups>>
    BY DEF ResetRowGroupColumn
  <1>3. job[1].op = "rowGroup"
    BY <1>0, <1>2 DEF Control, PhaseFits
  <1>4. \A h \in Groups : ~InReset(h)
    BY <1>2 DEF InReset
  <1>5. \/ UNCHANGED <<job, phase, pc, todo, source, status>>
        \/ AbortCall /\ phase' = "start" /\ status' = "failed"
    BY <1>0, <1>2 DEF ResetRowGroupColumn, NextColumnOr
  <1>6. FileRows(k)' = FileRows(k)
    BY <1>2, FileRowsSame
  <1>7. 0 \in Broken'
    BY <1>2, <1>5 DEF Broken, Groups
  <1>8. Broken \subseteq Broken'
    BY <1>0, <1>5, <1>7 DEF TypeOK, AbortCall, Broken
  <1>9. \A h \in Groups : ~InReset(h)'
    BY <1>2, <1>5 DEF InReset
  <1>10. \A h \in Groups \ {g} : HeldRows(h, k)' = HeldRows(h, k)
    BY <1>0, <1>1, <1>4, <1>9, RowsReset, HeldElsewhere
  <1>11. /\ Len(HeldRows(g, k)') <= Len(HeldRows(g, k))
         /\ HeldRows(g, k)' = SubSeq(HeldRows(g, k), 1, Len(HeldRows(g, k)'))
    BY <1>0, <1>1, <1>4, <1>9, HeldType, RowsReset, HeldIs, EmptyOrAll
  <1>12. \A h \in Groups : \/ PendingRows(h, k)' = PendingRows(h, k)
                           \/ h \in {0, g} /\ PendingRows(h, k)' = << >>
    BY <1>0, <1>2, <1>3, <1>5, PendingKept, AbortPending DEF callVars
  <1> QED BY <1>6, <1>7, <1>8, <1>10, <1>11, <1>12, LogLoses

-----------------------------------------------------------------------------
(* WriteRowGroup brings rows to one column after the other. *)

\* Parts of the rows of a row group.
LEMMA SourceParts ==
  ASSUME NEW s \in Seq(Row), NEW a \in Nat, NEW b \in Nat, a <= b, b <= Len(s)
  PROVE  /\ SubSeq(s, 1, b) = SubSeq(s, 1, a) \o SubSeq(s, a + 1, b)
         /\ SubSeq(s, a + 1, Len(s)) = SubSeq(s, a + 1, b) \o SubSeq(s, b + 1, Len(s))
         /\ SubSeq(s, a + 1, b) \in Seq(Row) /\ SubSeq(s, b + 1, Len(s)) \in Seq(Row)
         /\ SubSeq(s, 1, Len(s)) = s /\ SubSeq(s, Len(s) + 1, Len(s)) = << >>
         /\ SubSeq(s, 1, 0) = << >>
  <1> DEFINE n == Len(s)
             p == SubSeq(s, a + 1, b)
             q == SubSeq(s, b + 1, n)
             r == SubSeq(s, a + 1, n)
  <1>1. n \in Nat /\ n <= n
    OBVIOUS
  <1>2. p \in Seq(Row) /\ Len(p) = b - a /\ SubSeq(s, 1, a) \o p = SubSeq(s, 1, b)
        /\ \A i \in 1 .. b - a : p[i] = s[a + i]
    BY RowsJoin
  <1>3. q \in Seq(Row) /\ Len(q) = n - b /\ \A i \in 1 .. n - b : q[i] = s[b + i]
    BY <1>1, RowsJoin
  <1>4. p \o q = r
    <2>1. a + 1 \in 1 .. Len(s) + 1 /\ b \in (a + 1) - 1 .. Len(s) /\ Len(s) \in b .. Len(s)
      BY <1>1
    <2>2. \A m \in 1 .. Len(s) + 1 : \A j \in m - 1 .. Len(s) : \A i \in j .. Len(s) :
            SubSeq(s, m, j) \o SubSeq(s, j + 1, i) = SubSeq(s, m, i)
      BY ConcatAdjacentSubSeq, Zenon
    <2>3. SubSeq(s, a + 1, b) \o SubSeq(s, b + 1, Len(s)) = SubSeq(s, a + 1, Len(s))
      BY <2>1, <2>2, Zenon
    <2> QED BY <2>3
  <1>5. SubSeq(s, 1, n) = s /\ SubSeq(s, n + 1, n) = << >> /\ SubSeq(s, 1, 0) = << >>
    OBVIOUS
  <1> QED BY <1>2, <1>3, <1>4, <1>5

\* How far a batch gets.
LEMMA BatchMoves ==
  ASSUME TypeOK, Control, LoadCopiedChunk \/ ReencodeBatch
  PROVE  /\ job # << >> /\ (job[1].op = "copyable" \/ job[1].op = "columnar")
         /\ UNCHANGED <<numRows, callVars, phase, outVars>>
         /\ \/ /\ UNCHANGED <<job, pos, source>> /\ done < done' /\ done' <= Len(source) /\ done' \in Nat
            \/ /\ UNCHANGED <<job, source>> /\ pos' = pos + 1 /\ pos < NumColumns /\ done' = 0
            \/ /\ job' = RowGroupJob(0) /\ source' = << >> /\ pos = NumColumns
  <1>1. /\ job # << >> /\ (job[1].op = "copyable" \/ job[1].op = "columnar")
        /\ UNCHANGED <<numRows, callVars, phase, outVars>>
    BY DEF LoadCopiedChunk, ReencodeBatch, Running
  <1>2. Tail(job) = RowGroupJob(0)
    <2>1. PICK p \in {"copyable", "columnar"} : job = OnPath(p)
      BY <1>1, JobFirst DEF Control, Paths
    <2> QED BY <2>1, JobTails
  <1>3. ~(pos < NumColumns) => pos = NumColumns
    BY LastColumn
  <1>4. CASE LoadCopiedChunk
    BY <1>1, <1>2, <1>3, <1>4, JobFirst DEF Control, LoadCopiedChunk, Running, Paths, SourceFits
  <1>5. CASE ReencodeBatch
    <2>1. done < BatchEnd /\ BatchEnd \in Nat
      BY <1>5, ReencodeBatchIs
    <2>2. \/ BatchEnd < Len(source) /\ done' = BatchEnd /\ UNCHANGED <<job, pos, source>>
          \/ done' = 0 /\ pos < NumColumns /\ pos' = pos + 1 /\ UNCHANGED <<job, source>>
          \/ ~(pos < NumColumns) /\ job' = Tail(job) /\ source' = << >>
      BY <1>5 DEF ReencodeBatch, BatchEnd
    <2>3. Len(source) \in Nat
      BY DEF TypeOK
    <2>4. BatchEnd < Len(source) => BatchEnd <= Len(source)
      BY <2>1, <2>3
    <2> QED BY <1>1, <1>2, <1>3, <2>1, <2>2, <2>4
  <1> QED BY <1>4, <1>5

\* A chunk is copied or a batch re-encoded.
LEMMA PathLogs ==
  ASSUME WriteAlone, LogInv, LogInv', [Next]_vars, LoadCopiedChunk \/ ReencodeBatch, NEW k \in Columns
  PROVE  LogStep(k)
  <1>0. TypeOK /\ TypeOK' /\ Control /\ Control' /\ RowInv /\ 0 \in Groups /\ phase # "reset"
    BY BatchMoves DEF LogInv, ContentInv, Control, PhaseFits, Groups
  <1>1. /\ job # << >> /\ (job[1].op = "copyable" \/ job[1].op = "columnar")
        /\ UNCHANGED <<callVars, phase, rowGroups, status>>
    BY <1>0, BatchMoves DEF outVars
  <1>2. Sound(0)
    <2>1. PICK p \in Paths : job = OnPath(p)
      BY <1>0, <1>1, JobFirst DEF Control, Paths
    <2>2. "Write" \notin CallKinds
      BY <2>1 DEF LogInv, NoPath, PathLeft
    <2>3. phase = "start" /\ status = "open" /\ pc[0] # "failed"
      BY <1>0, <1>1 DEF Control, PhaseFits, StatusFits, CallFits
    <2> QED BY <2>2, <2>3 DEF Sound, InAbort
  <1>3. OnColumnPath(0) /\ \A m \in Columns : Rows(0, m) = Taken(m)
    BY <1>0, <1>2, SourceTaken DEF RowInv, FromSource
  <1>4. OutsideSame(k)
    BY <1>1, OutsideKept DEF callVars
  <1>5. \A h : ~InReset(h) /\ ~InReset(h)'
    BY <1>0, <1>1 DEF InReset
  <1>6. HeldRows(0, k) = Taken(k) /\ HeldRows(0, k)' = Rows(0, k)'
    BY <1>3, <1>5, HeldIs
  <1>7. ASSUME NEW h \in Groups \ {0}
        PROVE  PendingRows(h, k)' = PendingRows(h, k) /\ HeldRows(h, k)' = HeldRows(h, k)
    BY <1>0, <1>1, <1>5, HeldElsewhere, PendingElsewhere DEF LoadCopiedChunk, SetColumn,
      ReencodeBatch, SetBatchColumn, TypeOK, callVars
  <1>8. OthersSame(0, k)
    BY <1>7 DEF OthersSame
  <1>9. source \in Seq(Row) /\ Len(source) \in Nat /\ done \in Nat /\ source # << >> /\ done <= Len(source)
    <2>1. source \in Seq(Row) /\ Len(source) \in Nat /\ done \in Nat
      BY <1>0 DEF TypeOK
    <2>2. source # << >>
      BY <1>0, <1>3 DEF Control, SourceFits, PathLeft, OnColumnPath, Paths
    <2>3. done = 0 \/ done < Len(source)
      BY <1>0, <1>3 DEF Control, SourceFits, OnColumnPath
    <2> QED BY <2>1, <2>2, <2>3
  <1>10. PendingRows(0, k) = IF pos < k THEN source
                             ELSE IF pos = k THEN SubSeq(source, done + 1, Len(source)) ELSE << >>
    BY <1>1, <1>9, PendingIs DEF SourcePart, Running
  <1>11. k \in Nat /\ pos \in Nat /\ NumColumns \in Nat /\ k <= NumColumns
    BY <1>0, ColumnAssumption DEF TypeOK, Columns
  <1>12. CASE UNCHANGED <<job, pos, source>> /\ done < done' /\ done' <= Len(source) /\ done' \in Nat
    <2>1. Rows(0, k)' = IF k < pos THEN source ELSE IF k = pos THEN SubSeq(source, 1, done') ELSE << >>
      <3>1. TakenTo(done') \/ done' = 0
        BY <1>0, <1>12, <1>2, <1>3, ColumnPathJob, SourceTaken DEF OnColumnPath
      <3>2. done' # 0
        BY <1>9, <1>12
      <3> QED BY <3>1, <3>2 DEF TakenTo
    <2>2. PendingRows(0, k)' = IF pos < k THEN source
                               ELSE IF pos = k THEN SubSeq(source, done' + 1, Len(source)) ELSE << >>
      BY <1>1, <1>9, <1>12, PendingIs DEF SourcePart, Running
    <2>3. CASE k = pos
      <3> DEFINE rows == SubSeq(source, done + 1, done')
      <3>1. /\ SubSeq(source, 1, done') = SubSeq(source, 1, done) \o rows
            /\ SubSeq(source, done + 1, Len(source)) = rows \o SubSeq(source, done' + 1, Len(source))
            /\ rows \in Seq(Row) /\ SubSeq(source, done' + 1, Len(source)) \in Seq(Row)
        <4>1. done <= done'
          BY <1>9, <1>12
        <4> QED BY <1>9, <1>12, <4>1, SourceParts
      <3> HIDE DEF rows
      <3>2. ~(k < pos) /\ ~(pos < k)
        BY <1>11, <2>3
      <3>3. HeldRows(0, k)' = HeldRows(0, k) \o rows
        BY <1>6, <2>1, <2>3, <3>1, <3>2 DEF Taken
      <3>4. PendingRows(0, k) = rows \o PendingRows(0, k)' /\ PendingRows(0, k)' \in Seq(Row)
        BY <1>10, <2>2, <2>3, <3>1, <3>2
      <3>5. HeldRows(0, k) \in Seq(Row)
        BY <1>0, HeldType
      <3> QED BY <1>0, <1>4, <1>8, <3>1, <3>3, <3>4, <3>5, LogAccepts
    <2>4. CASE k # pos
      BY <1>10, <1>4, <1>6, <1>8, <2>1, <2>2, <2>4, LogStutters DEF Taken, OthersSame
    <2> QED BY <2>3, <2>4
  <1>13. CASE \/ UNCHANGED <<job, source>> /\ pos' = pos + 1 /\ pos < NumColumns /\ done' = 0
              \/ job' = RowGroupJob(0) /\ source' = << >> /\ pos = NumColumns
    <2>0. SubSeq(source, 1, Len(source)) = source /\ SubSeq(source, 0 + 1, Len(source)) = source
          /\ SubSeq(source, 1, 0) = << >>
      BY <1>9
    <2>1. Rows(0, k)' = IF k < pos \/ k = pos THEN source ELSE << >>
      <3>1. TakenTo(Len(source))
        BY <1>0, <1>11, <1>13, <1>2, <1>3, ColumnPathJob, SourceTaken DEF OnColumnPath
      <3> QED BY <2>0, <3>1 DEF TakenTo
    <2>2. PendingRows(0, k)' = IF pos < k THEN source ELSE << >>
      <3>1. CASE UNCHANGED <<job, source>> /\ pos' = pos + 1 /\ pos < NumColumns /\ done' = 0
        <4>1. PendingRows(0, k)' = IF pos' < k THEN source
                                   ELSE IF pos' = k THEN SubSeq(source, done' + 1, Len(source)) ELSE << >>
          BY <1>1, <1>9, <3>1, PendingIs DEF SourcePart, Running
        <4>2. pos < k <=> (pos' < k \/ pos' = k)
          BY <1>11, <3>1
        <4>3. SubSeq(source, done' + 1, Len(source)) = source
          BY <2>0, <3>1
        <4> QED BY <4>1, <4>2, <4>3
      <3>2. CASE job' = RowGroupJob(0) /\ source' = << >> /\ pos = NumColumns
        <4>1. chunk'[0] = << >> /\ todo'[0] = << >>
          BY <1>0, <1>1, <1>3, ColumnPathIdle DEF Control, CallFits, callVars
        <4>2. << >> \o << >> = << >>
          OBVIOUS
        <4>3. CallPart(0, k)' = << >>
          BY <4>1, <4>2 DEF CallPart
        <4>4. ~(pos < k)
          BY <1>11, <3>2
        <4> QED BY <3>2, <4>3, <4>4, PendingIs
      <3> QED BY <1>13, <3>1, <3>2
    <2>3. CASE k = pos
      <3> DEFINE rows == SubSeq(source, done + 1, Len(source))
      <3>1. /\ source = SubSeq(source, 1, done) \o rows /\ rows \in Seq(Row)
        <4>1. Len(source) <= Len(source)
          BY <1>9
        <4>2. SubSeq(source, 1, Len(source)) = SubSeq(source, 1, done) \o rows /\ rows \in Seq(Row)
          BY <1>9, <4>1, SourceParts
        <4> QED BY <2>0, <4>2
      <3>2. rows = rows \o << >> /\ << >> \in Seq(Row)
        BY <3>1
      <3> HIDE DEF rows
      <3>3. ~(k < pos) /\ ~(pos < k)
        BY <1>11, <2>3
      <3>4. HeldRows(0, k)' = HeldRows(0, k) \o rows
        BY <1>6, <2>1, <2>3, <3>1, <3>3 DEF Taken
      <3>5. PendingRows(0, k) = rows \o PendingRows(0, k)' /\ PendingRows(0, k)' \in Seq(Row)
        BY <1>10, <2>2, <2>3, <3>2, <3>3 DEF rows
      <3>6. HeldRows(0, k) \in Seq(Row)
        BY <1>0, HeldType
      <3> QED BY <1>0, <1>4, <1>8, <3>1, <3>4, <3>5, <3>6, LogAccepts
    <2>4. CASE k # pos
      BY <1>10, <1>11, <1>4, <1>6, <1>8, <2>1, <2>2, <2>4, LogStutters DEF Taken, OthersSame
    <2> QED BY <2>3, <2>4
  <1> QED BY <1>0, <1>12, <1>13, BatchMoves

-----------------------------------------------------------------------------
(* A page buffer fails, and a column loses the rows in its buffer. *)

\* What is left are the rows in pages, the first ones.
LEMMA HeldDropped ==
  ASSUME LogInv, NEW g \in Groups, Dropping(g), ~InReset(g), ~InReset(g)', NEW k \in Columns
  PROVE  /\ Len(HeldRows(g, k)') <= Len(HeldRows(g, k))
         /\ HeldRows(g, k)' = SubSeq(HeldRows(g, k), 1, Len(HeldRows(g, k)'))
  <1>1. TypeOK /\ Control /\ AllFine
    BY DEF LogInv, ContentInv
  <1>2. cw[g][k] \in ColumnWriterState /\ Fine(cw[g][k])
    BY <1>1 DEF TypeOK, AllFine
  <1>3. Rows(g, k) \in Seq(Row)
    BY <1>1, HeldType
  <1>4. Rows(g, k)' = Rows(g, k) \/ Rows(g, k)' = EncodedRows(cw[g][k])
    BY <1>1, RowsDropped
  <1>5. /\ Len(EncodedRows(cw[g][k])) <= Len(Rows(g, k))
        /\ EncodedRows(cw[g][k]) = SubSeq(Rows(g, k), 1, Len(EncodedRows(cw[g][k])))
    BY <1>2, DroppedRows DEF Rows
  <1>6. Len(Rows(g, k)') <= Len(Rows(g, k)) /\ Rows(g, k)' = SubSeq(Rows(g, k), 1, Len(Rows(g, k)'))
    BY <1>3, <1>4, <1>5, EmptyOrAll
  <1> QED BY <1>6, HeldIs

\* It fails in a call on the row group.
LEMMA CallFailsLogs ==
  ASSUME LogInv, LogInv', [Next]_vars, NEW g \in Groups, WriteColumnFails(g) \/ FlushGroupColumnFails(g),
         NEW k \in Columns
  PROVE  LogStep(k)
  <1>0. TypeOK /\ TypeOK' /\ Control /\ 0 \in Groups
    BY DEF LogInv, ContentInv, Groups
  <1>1. /\ Fail(g) /\ UNCHANGED <<phase, rowGroups, col, generic, source, pos, done>>
        /\ \E d : SetColumn(g, col[g], d)
        /\ (pc[g] = "write" /\ chunk[g] # << >>) \/ pc[g] = "flush"
    BY DEF WriteColumnFails, FlushGroupColumnFails
  <1>2. g = 0 => chunk[0] # << >> /\ phase = "start" /\ source = << >>
    BY <1>0, <1>1, JobOps, NoSource DEF Control, CallFits, PhaseFits
  <1>3. ~InReset(g)
    BY <1>0, <1>1, <1>2, CallNotReset
  <1>4. \A h : InReset(h)' <=> InReset(h)
    BY <1>1, <1>2 DEF Fail, InReset, Group
  <1>5. /\ chunk'[g] = << >> /\ todo'[g] = << >>
        /\ \A h \in Groups \ {g} : chunk'[h] = chunk[h] /\ todo'[h] = todo[h] /\ pc'[h] = pc[h]
        /\ g = 0 => status' = "failed"
        /\ g # 0 => pc'[g] = "failed" /\ UNCHANGED <<status, job>>
    BY <1>0, <1>1 DEF Fail, TypeOK
  <1>6. Broken \subseteq Broken' /\ (0 \in Broken' \/ g \in Broken')
    <2>1. g \in Broken'
      BY <1>5 DEF Broken
    <2>2. ASSUME NEW h \in Broken PROVE h \in Broken'
      <3>1. CASE h = g
        BY <2>1, <3>1
      <3>2. CASE h # g /\ h # 0
        BY <1>5, <3>2 DEF Broken
      <3>3. CASE h # g /\ h = 0
        BY <1>1, <1>5, <3>3 DEF Broken
      <3> QED BY <3>1, <3>2, <3>3
    <2> QED BY <2>1, <2>2
  <1>7. FileRows(k)' = FileRows(k)
    BY <1>1, FileRowsSame
  <1>8. \A h \in Groups \ {g} : HeldRows(h, k)' = HeldRows(h, k)
    <2>1. col[g] \in Columns
      BY <1>0 DEF TypeOK
    <2>2. \A h \in Groups \ {g} : cw'[h][k] = cw[h][k]
      BY <1>0, <1>1, <2>1, SetColumnIs DEF OnlyColumn
    <2> QED BY <1>4, <2>2, HeldElsewhere
  <1>9. /\ Len(HeldRows(g, k)') <= Len(HeldRows(g, k))
        /\ HeldRows(g, k)' = SubSeq(HeldRows(g, k), 1, Len(HeldRows(g, k)'))
    BY <1>3, <1>4, HeldDropped DEF Dropping
  <1>10. PendingRows(g, k)' = << >>
    <2>1. << >> \o << >> = << >>
      OBVIOUS
    <2>2. CallPart(g, k)' = << >>
      BY <1>5, <2>1 DEF CallPart
    <2>3. g = 0 => source' = << >>
      BY <1>1, <1>2
    <2> QED BY <2>2, <2>3, PendingIs
  <1>11. ASSUME NEW h \in Groups \ {g} PROVE PendingRows(h, k)' = PendingRows(h, k)
    BY <1>1, <1>5, PendingElsewhere
  <1> QED BY <1>6, <1>7, <1>8, <1>9, <1>10, <1>11, LogLoses

\* It fails in a call of the main thread.
LEMMA MainFailsLogs ==
  ASSUME LogInv, LogInv', [Next]_vars, NEW k \in Columns,
         FlushRowGroupColumnFails \/ FlushFilterPagesFails \/ CloseColumnFails
  PROVE  LogStep(k)
  <1>0. TypeOK /\ TypeOK' /\ Control
    BY DEF LogInv, ContentInv
  <1>1. /\ job # << >> /\ UNCHANGED <<callVars, rowGroups, source, done>>
        /\ job[1].op = "rowGroup" \/ job[1].op = "closeColumns"
        /\ phase # "reset" /\ phase # "abort"
    BY <1>0 DEF FlushRowGroupColumnFails, FlushFilterPagesFails, InRowGroup, Running, outVars,
      CloseColumnFails, Control,
      PhaseFits
  <1>2. PICK g \in Groups : Dropping(g) /\ \E d : SetColumn(g, pos, d)
    <2>1. CASE FlushRowGroupColumnFails \/ FlushFilterPagesFails
      <3>1. PICK h \in Groups : h = Group
        BY <1>0, <1>1, GroupColumn
      <3> QED BY <2>1, <3>1 DEF FlushRowGroupColumnFails, FlushFilterPagesFails, Dropping
    <2>2. CASE CloseColumnFails
      BY <2>2 DEF CloseColumnFails, Dropping, Groups
    <2> QED BY <2>1, <2>2
  <1>3. \A h : ~InReset(h) /\ ~InReset(h)'
    BY <1>1 DEF InReset, FlushRowGroupColumnFails, FlushFilterPagesFails, CloseColumnFails
  <1>4. 0 \in Broken' /\ Broken \subseteq Broken'
    BY <1>1 DEF Broken, FlushRowGroupColumnFails, FlushFilterPagesFails, CloseColumnFails, outVars,
      callVars, Groups
  <1>5. FileRows(k)' = FileRows(k)
    BY <1>1, FileRowsSame
  <1>6. \A h \in Groups \ {g} : HeldRows(h, k)' = HeldRows(h, k)
    <2>1. pos \in Columns
      BY <1>0 DEF TypeOK
    <2>2. \A h \in Groups \ {g} : cw'[h][k] = cw[h][k]
      BY <1>0, <1>2, <2>1, SetColumnIs DEF OnlyColumn
    <2> QED BY <1>3, <2>2, HeldElsewhere
  <1>7. /\ Len(HeldRows(g, k)') <= Len(HeldRows(g, k))
        /\ HeldRows(g, k)' = SubSeq(HeldRows(g, k), 1, Len(HeldRows(g, k)'))
    BY <1>2, <1>3, HeldDropped
  <1>8. \A h \in Groups : PendingRows(h, k)' = PendingRows(h, k)
    <2>1. CASE job[1].op = "rowGroup" /\ UNCHANGED job
      BY <1>0, <1>1, <2>1, PendingKept
    <2>2. CASE job[1].op = "closeColumns"
      BY <1>0, <1>1, <2>2, JobFirst, NoSource, PendingKept DEF Control
    <2>3. UNCHANGED job \/ job[1].op = "closeColumns"
      BY DEF FlushRowGroupColumnFails, FlushFilterPagesFails, CloseColumnFails, Running
    <2> QED BY <1>1, <2>1, <2>2, <2>3
  <1> QED BY <1>4, <1>5, <1>6, <1>7, <1>8, LogLoses

\* It fails in a batch of a row group given to the writer.
LEMMA BatchFailsLogs ==
  ASSUME LogInv, LogInv', [Next]_vars, ReencodeBatchFails, NEW k \in Columns
  PROVE  LogStep(k)
  <1>0. TypeOK /\ TypeOK' /\ Control /\ 0 \in Groups
    BY DEF LogInv, ContentInv, Groups
  <1>1. /\ job # << >> /\ job[1].op = "columnar" /\ phase = "start"
        /\ UNCHANGED <<callVars, phase, rowGroups>> /\ status' = "failed" /\ source' = << >>
        /\ \A h \in Groups \ {0} : cw'[h] = cw[h]
    BY <1>0 DEF ReencodeBatchFails, Running, SetBatchColumn, TypeOK, Control, PhaseFits
  <1>2. \A h : ~InReset(h) /\ ~InReset(h)'
    BY <1>1 DEF InReset
  <1>3. PendingRows(0, k)' = << >>
    <2>1. chunk[0] = << >> /\ todo[0] = << >>
      BY <1>0, <1>1, JobOps DEF Control, CallFits
    <2>2. << >> \o << >> = << >>
      OBVIOUS
    <2>3. CallPart(0, k)' = << >>
      BY <1>1, <2>1, <2>2 DEF CallPart, callVars
    <2> QED BY <1>1, <2>3, PendingIs
  <1>4. \A h \in Groups \ {0} : PendingRows(h, k)' = PendingRows(h, k)
    BY <1>1, PendingElsewhere DEF callVars
  <1>5. FileRows(k)' = FileRows(k)
    BY <1>1, FileRowsSame
  <1>6. Broken \subseteq Broken' /\ 0 \in Broken'
    BY <1>0, <1>1 DEF Broken, callVars
  <1>7. \A h \in Groups \ {0} : HeldRows(h, k)' = HeldRows(h, k)
    BY <1>1, <1>2, HeldElsewhere
  <1>8. /\ Len(HeldRows(0, k)') <= Len(HeldRows(0, k))
        /\ HeldRows(0, k)' = SubSeq(HeldRows(0, k), 1, Len(HeldRows(0, k)'))
    BY <1>0, <1>2, HeldDropped DEF Dropping
  <1> QED BY <1>0, <1>3, <1>4, <1>5, <1>6, <1>7, <1>8, LogLoses


-----------------------------------------------------------------------------
(* A row group joins the file, or the writer starts again. *)

\* The rows of the row group are in the file, and it begins to be emptied.
LEMMA AppendLogs ==
  ASSUME LogInv, LogInv', [Next]_vars, AppendRowGroup, NEW k \in Columns
  PROVE  LogStep(k)
  <1>0. TypeOK /\ TypeOK' /\ Control /\ RowInv /\ FileInv /\ FileWritten /\ CurrentWritten
    BY DEF LogInv, ContentInv
  <1>1. PICK g \in Groups : g = Group
    BY <1>0, GroupColumn DEF AppendRowGroup, InRowGroup, Running
  <1>2. /\ job # << >> /\ job[1].op = "rowGroup" /\ phase = "append" /\ phase' = "reset" /\ pos' = 1
        /\ UNCHANGED <<rgVars, callVars, job, source, done, file, status>>
    BY DEF AppendRowGroup, InRowGroup, Running
  <1>3. \A h : ~InReset(h)
    BY <1>2 DEF InReset
  <1>4. InReset(g)' /\ \A h \in Groups \ {g} : ~InReset(h)'
    BY <1>1, <1>2 DEF InReset, Group
  <1>5. HeldRows(g, k)' = << >>
    BY <1>4, HeldIs
  <1>6. \A h \in Groups \ {g} : HeldRows(h, k)' = HeldRows(h, k)
    BY <1>2, <1>3, <1>4, HeldElsewhere DEF rgVars
  <1>7. \A h \in Groups : PendingRows(h, k)' = PendingRows(h, k)
    BY <1>0, <1>2, PendingKept
  <1>8. Broken' = Broken
    BY <1>2 DEF Broken, callVars
  <1>9. cw[g][k] \in ColumnWriterState /\ cw[g][k].pages \in Seq(Page)
    <2>1. \A c \in ColumnWriterState : c.pages \in Seq(Page)
      BY DEF ColumnWriterState
    <2>2. cw[g][k] \in ColumnWriterState
      BY <1>0 DEF TypeOK
    <2> QED BY <2>1, <2>2
  <1>10. HeldRows(g, k) = FlattenSeq(RowsOfPages(cw[g][k].pages)) /\ HeldRows(g, k) \in Seq(Row)
    <2>1. Buffered(cw[g][k]) = << >>
      BY <1>0, <1>1, <1>2 DEF RowInv, Flushed
    <2>2. EncodedRows(cw[g][k]) \in Seq(Row)
      BY <1>9, PageRowsType
    <2>3. EncodedRows(cw[g][k]) \o << >> = EncodedRows(cw[g][k])
      BY <2>2
    <2>4. HeldRows(g, k) = EncodedRows(cw[g][k])
      BY <1>3, <2>1, <2>3, HeldIs DEF Rows, ColumnRows
    <2> QED BY <2>2, <2>4 DEF EncodedRows, PageRows, RowsOfPages
  <1>11. FileRows(k)' = FileRows(k) \o HeldRows(g, k)
    <2> DEFINE r == [numRows |-> totalRowCount(cw[Group][1]), columns |-> meta]
    <2>1. rowGroups' = Append(rowGroups, r) /\ UNCHANGED file
      BY DEF AppendRowGroup
    <2>2. ChunkWritten(file, r.columns[k], k, cw[g][k].pages)
      BY <1>0, <1>1, <1>2 DEF CurrentWritten
    <2> HIDE DEF r
    <2> QED BY <1>0, <1>9, <1>10, <2>1, <2>2, FileRowsJoin
  <1>12. FileRows(k) \in Seq(Row)
    BY <1>0, FoundRowsType
  <1> QED BY <1>5, <1>6, <1>7, <1>8, <1>10, <1>11, <1>12, LogPublishes DEF OthersSame

\* Reset leaves the current row group and the file without rows.
LEMMA ResetLogs ==
  ASSUME LogInv, LogInv', [Next]_vars, DeferredBuffersReturned, Running("reset"), NEW k \in Columns
  PROVE  LogStep(k)
  <1>0. TypeOK /\ TypeOK' /\ Control
    BY DEF LogInv, ContentInv
  <1>1. /\ job # << >> /\ job[1].op = "reset" /\ phase = "put" /\ phase' = "reset"
        /\ rowGroups' = << >> /\ status' = "open"
        /\ UNCHANGED <<rgVars, callVars, job, pos, source, done>>
    BY DEF DeferredBuffersReturned, Running, mainVars
  <1>2. Group = 0 /\ source = << >> /\ 0 \in Groups
    BY <1>0, <1>1, JobFirst, NoSource DEF Control, Groups
  <1>3. \A h : ~InReset(h)
    BY <1>1 DEF InReset
  <1>4. InReset(0)' /\ \A h \in Groups \ {0} : ~InReset(h)'
    BY <1>1, <1>2 DEF InReset, Group
  <1>5. HeldRows(0, k)' = << >>
    BY <1>4, HeldIs
  <1>6. \A h \in Groups \ {0} : HeldRows(h, k)' = HeldRows(h, k)
    BY <1>1, <1>3, <1>4, HeldElsewhere DEF rgVars
  <1>7. \A h \in Groups : PendingRows(h, k)' = PendingRows(h, k)
    BY <1>0, <1>1, <1>2, PendingKept
  <1>8. Broken' = Broken \ {0}
    BY <1>1 DEF Broken, callVars
  <1>9. FileRows(k)' = << >>
    <2>1. Len(rowGroups') = 0
      BY <1>1
    <2>2. FoundRows(file', rowGroups', k) = << >>
      BY <2>1 DEF FoundRows
    <2>3. FlattenSeq(<< >>) = << >>
      BY FlattenSeqRecursion
    <2> QED BY <2>2, <2>3, FileRowsAre
  <1> QED BY <1>5, <1>6, <1>7, <1>8, <1>9, LogResets

-----------------------------------------------------------------------------
(* The steps that move no rows between calls, columns and the file. *)

\* No row group gets, drops, or begins to lose rows.
Quiet == \A g \in Groups : ~Changing(g) /\ ~Dropping(g) /\ ~Begins(g)

\* Then every row group holds what it held.
LEMMA QuietHolds ==
  ASSUME LogInv, [Next]_vars, Quiet, NEW k \in Columns
  PROVE  \A g \in Groups : HeldRows(g, k)' = HeldRows(g, k)
  BY HeldSame DEF Quiet

\* What has failed and the row groups of the file are the same.
Steady ==
  /\ UNCHANGED rowGroups \/ WriteDeferredBloomFilter
  /\ status' = "failed" <=> status = "failed"
  /\ phase' = "abort" <=> phase = "abort"
  /\ \A g \in Groups \ {0} : pc'[g] = "failed" <=> pc[g] = "failed"

\* A step inside a call that moves no rows.
LEMMA StandsStill ==
  ASSUME LogInv, LogInv', [Next]_vars, Quiet, Steady, NEW k \in Columns,
         \A g \in Groups : PendingRows(g, k)' = PendingRows(g, k)
  PROVE  LogStep(k)
  BY QuietHolds, OutsideKept, LogStutters DEF Steady

\* The application gives rows to a row group that no call works on.
LEMMA GroupCallLogs ==
  ASSUME LogInv, LogInv', [Next]_vars, Quiet, NEW k \in Columns, NEW g \in Groups,
         \E n \in 1 .. MaxCall : \E kind \in CallKinds : WriteRows(g, n, kind)
  PROVE  LogStep(k)
  <1>0. TypeOK /\ Control
    BY DEF LogInv, ContentInv
  <1>1. PICK n \in 1 .. MaxCall, kind \in CallKinds : WriteRows(g, n, kind)
    OBVIOUS
  <1>2. /\ Idle(g) /\ UNCHANGED <<rgVars, chunk, col, mainVars, outVars>>
        /\ g # 0 => UNCHANGED generic
        /\ \A h \in Groups \ {g} : pc'[h] = pc[h] /\ todo'[h] = todo[h]
        /\ pc[g] = "idle" /\ pc'[g] = "write"
    BY <1>0, <1>1 DEF WriteRows, Idle, TypeOK
  <1>3. PendingRows(g, k) = << >>
    BY <1>0, <1>2, NoJob, NothingPending DEF Idle, MainIdle
  <1>4. \A h \in Groups \ {g} : PendingRows(h, k)' = PendingRows(h, k)
    BY <1>2, PendingElsewhere DEF mainVars
  <1>5. OutsideSame(k)
    BY <1>2, OutsideKept DEF outVars, mainVars
  <1>6. \A h \in Groups : HeldRows(h, k)' = HeldRows(h, k)
    BY QuietHolds
  <1> QED BY <1>3, <1>4, <1>5, <1>6, LogCalls DEF OthersSame

\* A row group is given to the writer.
LEMMA RowGroupCallLogs ==
  ASSUME LogInv, LogInv', [Next]_vars, Quiet, NEW k \in Columns,
         \E n \in 1 .. MaxCall : \E kind \in CallKinds : WriteRowGroup(n, kind)
  PROVE  LogStep(k)
  <1>0. TypeOK /\ Control /\ 0 \in Groups
    BY DEF LogInv, ContentInv, Groups
  <1>1. /\ MainIdle /\ UNCHANGED <<rgVars, pc, todo, chunk, col, generic, resolved, outVars>>
        /\ phase' = "start"
    BY DEF WriteRowGroup
  <1>2. source = << >> /\ phase = "start" /\ pc[0] = "idle"
    BY <1>0, <1>1, NoJob DEF MainIdle
  <1>3. PendingRows(0, k) = << >>
    BY <1>0, <1>2, NothingPending
  <1>4. \A h \in Groups \ {0} : PendingRows(h, k)' = PendingRows(h, k)
    BY <1>1, PendingElsewhere
  <1>5. OutsideSame(k)
    BY <1>1, <1>2, OutsideKept DEF outVars
  <1>6. \A h \in Groups : HeldRows(h, k)' = HeldRows(h, k)
    BY QuietHolds
  <1> QED BY <1>0, <1>3, <1>4, <1>5, <1>6, LogCalls DEF OthersSame

\* A row group of BeginRowGroup is flushed.
LEMMA FlushCallLogs ==
  ASSUME LogInv, LogInv', [Next]_vars, Quiet, NEW k \in Columns, NEW g \in Groups,
         FlushGroup(g) \/ FlushGroupColumn(g)
  PROVE  LogStep(k)
  <1>0. TypeOK /\ Control
    BY DEF LogInv, ContentInv
  <1>1. /\ pc[g] # "write" /\ pc[g] # "failed" /\ g # 0
        /\ UNCHANGED <<todo, chunk, generic, mainVars, outVars>>
        /\ pc'[g] # "write" /\ pc'[g] # "failed"
        /\ \A h \in Groups \ {g} : pc'[h] = pc[h] /\ col'[h] = col[h]
    BY <1>0 DEF FlushGroup, Idle, TypeOK, FlushGroupColumn, Control, CallFits
  <1>2. chunk[g] = << >> /\ todo[g] = << >> /\ chunk'[g] = << >> /\ todo'[g] = << >>
    BY <1>0, <1>1 DEF Control, CallFits
  <1>3. PendingRows(g, k)' = PendingRows(g, k)
    <2>1. << >> \o << >> = << >>
      OBVIOUS
    <2>2. CallPart(g, k) = << >> /\ CallPart(g, k)' = << >>
      BY <1>2, <2>1 DEF CallPart
    <2> QED BY <1>1, <2>2, PendingIs
  <1>4. \A h \in Groups \ {g} : PendingRows(h, k)' = PendingRows(h, k)
    BY <1>1, PendingElsewhere DEF mainVars
  <1>5. Steady
    BY <1>1 DEF Steady, outVars, mainVars
  <1> QED BY <1>3, <1>4, <1>5, StandsStill

\* The other calls bring no rows.
LEMMA OtherCallLogs ==
  ASSUME LogInv, LogInv', [Next]_vars, Quiet, NEW k \in Columns,
         Flush \/ Close \/ Reset \/ \E g \in Groups : Commit(g)
  PROVE  LogStep(k)
  <1>0. TypeOK /\ Control
    BY DEF LogInv, ContentInv
  <1>1. job = << >> /\ phase' # "abort" /\ UNCHANGED <<callVars, source, rowGroups, status>>
    BY DEF Reset, Call, MainIdle, outVars, Flush, Close, Commit
  <1>2. source = << >> /\ phase = "start"
    BY <1>0, <1>1, NoJob
  <1>3. \A g \in Groups : PendingRows(g, k)' = PendingRows(g, k)
    BY <1>0, <1>1, <1>2, PendingKept
  <1>4. Steady
    BY <1>1, <1>2 DEF Steady, callVars
  <1> QED BY <1>3, <1>4, StandsStill

\* A chunk is cut off the rows of a call, and is still to be written.
LEMMA ChunkCutLogs ==
  ASSUME LogInv, LogInv', [Next]_vars, Quiet, NEW k \in Columns, NEW g \in Groups,
         NextChunk(g), ~Generic(g)
  PROVE  LogStep(k)
  <1>0. TypeOK /\ Control
    BY DEF LogInv, ContentInv
  <1>1. OutsideSame(k) /\ OthersSame(g, k)
    BY WritesElsewhere
  <1>2. /\ todo[g] = chunk'[g] \o todo'[g] /\ col'[g] = 1 /\ chunk[g] = << >>
        /\ UNCHANGED <<generic, job, source, pos, done>>
    BY <1>0, ChunkSplit DEF NextChunk, mainVars
  <1>3. ~Generic(g)' /\ 1 <= k
    BY <1>2 DEF Generic, Columns
  <1>4. CallPart(g, k)' = todo[g]
    BY <1>2, <1>3 DEF CallPart
  <1>5. CallPart(g, k) = todo[g]
    BY <1>0, <1>2 DEF TypeOK, CallPart
  <1>6. SourcePart(k)' = SourcePart(k)
    BY <1>2 DEF SourcePart, Running
  <1>7. PendingRows(g, k)' = PendingRows(g, k)
    BY <1>2, <1>4, <1>5, <1>6, PendingIs
  <1>8. \A h \in Groups : HeldRows(h, k)' = HeldRows(h, k)
    BY QuietHolds
  <1> QED BY <1>1, <1>7, <1>8, LogStutters DEF OthersSame

\* A column that has its chunk of Write is looked at, and flushed if it is full.
LEMMA WrittenColumnLogs ==
  ASSUME LogInv, LogInv', [Next]_vars, Quiet, NEW k \in Columns, NEW g \in Groups,
         WriteColumn(g), Generic(g)
  PROVE  LogStep(k)
  <1>1. OutsideSame(k) /\ OthersSame(g, k)
    BY WritesElsewhere
  <1>2. UNCHANGED <<todo, generic, job, source, pos, done>>
    BY DEF WriteColumn, mainVars
  <1>3. CallPart(g, k)' = CallPart(g, k)
    BY <1>2 DEF CallPart, Generic
  <1>4. SourcePart(k)' = SourcePart(k)
    BY <1>2 DEF SourcePart, Running
  <1>5. PendingRows(g, k)' = PendingRows(g, k)
    BY <1>2, <1>3, <1>4, PendingIs
  <1>6. \A h \in Groups : HeldRows(h, k)' = HeldRows(h, k)
    BY QuietHolds
  <1> QED BY <1>1, <1>5, <1>6, LogStutters DEF OthersSame

\* A full row group is flushed by the writer, or the rest of the call refused.
LEMMA GroupFullLogs ==
  ASSUME LogInv, LogInv', [Next]_vars, Quiet, NEW k \in Columns, NEW g \in Groups, GroupFull(g)
  PROVE  LogStep(k)
  <1>0. TypeOK /\ Control
    BY DEF LogInv, ContentInv
  <1>1. /\ pc[g] = "write" /\ chunk[g] = << >>
        /\ UNCHANGED <<chunk, col, generic, resolved, nextRow, phase, pos, source, done, outVars>>
        /\ g # 0 => UNCHANGED job
        /\ g = 0 => UNCHANGED <<pc, todo>>
        /\ \A h \in Groups \ {g} : pc'[h] = pc[h] /\ todo'[h] = todo[h]
        /\ g # 0 => pc'[g] = "idle" /\ todo'[g] = << >>
    BY <1>0 DEF GroupFull, BetweenChunks, TypeOK
  <1>2. Steady
    BY <1>1 DEF Steady, outVars
  <1>3. CASE g = 0
    <2>1. job = << >> \/ job = OnPath("copyRows")
      BY <1>0, <1>3, GroupFullJob
    <2>2. source = << >>
      BY <1>0, <2>1, NoSource
    <2>3. \A h \in Groups : PendingRows(h, k)' = PendingRows(h, k)
      BY <1>0, <1>1, <1>3, <2>2, PendingKept DEF callVars
    <2> QED BY <1>2, <2>3, StandsStill
  <1>4. CASE g # 0
    <2>1. PendingRows(g, k)' = << >>
      <3>1. << >> \o << >> = << >>
        OBVIOUS
      <3>2. CallPart(g, k)' = << >>
        BY <1>1, <1>4, <3>1 DEF CallPart
      <3> QED BY <1>4, <3>2, PendingIs
    <2>2. \A h \in Groups \ {g} : PendingRows(h, k)' = PendingRows(h, k)
      BY <1>1, <1>4, PendingElsewhere
    <2>3. OutsideSame(k)
      BY <1>2, OutsideKept DEF Steady
    <2>4. \A h \in Groups : HeldRows(h, k)' = HeldRows(h, k)
      BY QuietHolds
    <2> QED BY <2>1, <2>2, <2>3, <2>4, LogRejects DEF OthersSame
  <1> QED BY <1>3, <1>4

-----------------------------------------------------------------------------
(* The main thread. *)

\* It refuses the row group, and the call in progress.
LEMMA RefusedLogs ==
  ASSUME LogInv, LogInv', [Next]_vars, Quiet, NEW k \in Columns, TooManyRowGroups
  PROVE  LogStep(k)
  <1>0. TypeOK /\ Control /\ 0 \in Groups
    BY DEF LogInv, ContentInv, Groups
  <1>1. /\ job # << >> /\ job[1].op = "rowGroup" /\ AbortCall
        /\ UNCHANGED <<chunk, col, generic, phase, outVars>>
    BY DEF TooManyRowGroups, InRowGroup, Running
  <1>2. /\ PendingRows(0, k)' = << >>
        /\ \A h \in Groups \ {0} : PendingRows(h, k)' = PendingRows(h, k)
    BY <1>0, <1>1, AbortPending
  <1>3. \A h \in Groups \ {0} : pc'[h] = pc[h]
    BY <1>0, <1>1 DEF AbortCall, TypeOK
  <1>4. OutsideSame(k)
    BY <1>1, <1>3, OutsideKept DEF outVars
  <1>5. \A h \in Groups : HeldRows(h, k)' = HeldRows(h, k)
    BY QuietHolds
  <1> QED BY <1>0, <1>2, <1>4, <1>5, LogRejects DEF OthersSame

\* It goes on with a row group.
LEMMA RowGroupLogs ==
  ASSUME LogInv, LogInv', [Next]_vars, Quiet, NEW k \in Columns,
         \/ SkipEmptyRowGroup \/ StartRowGroup \/ FlushRowGroupColumn \/ WriteHeader
         \/ WriteColumnPages \/ NoBloomFilter \/ DeferBloomFilter \/ WriteBloomFilter
  PROVE  LogStep(k)
  <1>0. TypeOK /\ Control
    BY DEF LogInv, ContentInv
  <1>1. \A next \in {"header", "bloom", "append"} : NextColumnOr(next) /\ phase # "abort" => phase' # "abort"
    BY DEF NextColumnOr
  <1>2. /\ job # << >> /\ job[1].op = "rowGroup" /\ phase # "abort" /\ phase' # "abort"
        /\ UNCHANGED <<callVars, source, done, rowGroups, status>>
        /\ UNCHANGED job \/ (SkipEmptyRowGroup /\ job' = Tail(job) /\ pos' = pos)
    <2>1. CASE SkipEmptyRowGroup \/ StartRowGroup
      BY <2>1 DEF SkipEmptyRowGroup, StartRowGroup, InRowGroup, Running, outVars
    <2>2. CASE FlushRowGroupColumn
      BY <1>1, <2>2 DEF FlushRowGroupColumn, InRowGroup, Running, outVars
    <2>3. CASE WriteHeader \/ WriteColumnPages
      BY <1>1, <2>3 DEF WriteHeader, WriteColumnPages, InRowGroup, Running
    <2>4. CASE NoBloomFilter \/ DeferBloomFilter \/ WriteBloomFilter
      BY <1>1, <2>4 DEF NoBloomFilter, DeferBloomFilter, WriteBloomFilter, InRowGroup, Running, outVars
    <2> QED BY <2>1, <2>2, <2>3, <2>4
  <1>3. SkipEmptyRowGroup => source = << >> \/ pos = 1
    <2>1. ASSUME SkipEmptyRowGroup, source # << >> PROVE pos = 1
      <3>1. PICK p \in Paths : PathLeft(p)
        BY <1>0, <2>1 DEF Control, SourceFits
      <3>2. job = BeforePath(p)
        BY <1>2, <3>1, JobOps DEF PathLeft, Paths
      <3> QED BY <1>0, <2>1, <3>2 DEF Control, SourceFits, SkipEmptyRowGroup, InRowGroup
    <2> QED BY <2>1
  <1>4. \A h \in Groups : PendingRows(h, k)' = PendingRows(h, k)
    BY <1>0, <1>2, <1>3, PendingKept
  <1>5. Steady
    BY <1>2 DEF Steady, callVars
  <1> QED BY <1>4, <1>5, StandsStill

\* It fails to write one, which will lose its rows.
LEMMA RowGroupFailsLogs ==
  ASSUME LogInv, LogInv', [Next]_vars, Quiet, NEW k \in Columns, WriteRowGroupFails
  PROVE  LogStep(k)
  <1>0. TypeOK /\ Control /\ 0 \in Groups
    BY DEF LogInv, ContentInv, Groups
  <1>1. /\ job # << >> /\ job[1].op = "rowGroup" /\ phase' = "abort"
        /\ UNCHANGED <<callVars, job, source, done, rowGroups, status>>
    BY DEF WriteRowGroupFails, Running, outVars
  <1>2. \A h \in Groups : PendingRows(h, k)' = PendingRows(h, k)
    BY <1>0, <1>1, PendingKept
  <1>3. FileRows(k)' = FileRows(k)
    BY <1>1, FileRowsSame
  <1>4. Broken \subseteq Broken' /\ 0 \in Broken'
    BY <1>0, <1>1 DEF Broken, callVars
  <1>5. \A h \in Groups : HeldRows(h, k)' = HeldRows(h, k)
    BY QuietHolds
  <1>6. /\ Len(HeldRows(0, k)') <= Len(HeldRows(0, k))
        /\ HeldRows(0, k)' = SubSeq(HeldRows(0, k), 1, Len(HeldRows(0, k)'))
    BY <1>0, <1>5, HeldType, EmptyOrAll
  <1> QED BY <1>0, <1>2, <1>3, <1>4, <1>5, <1>6, LogLoses

\* No row group is given to the writer in the jobs of Close, Reset and CopyRows.
LEMMA NoSourceLeft ==
  ASSUME Control, job # << >>,
         job[1].op \in {"closeColumns", "header", "deferred", "footer", "reset", "copyRows"}
  PROVE  source = << >> /\ phase # "abort"
  <1>1. job \in {CloseJob, CloseJob2, CloseJob4, CloseJob5, DeferredJob, ResetJob} \/ job = OnPath("copyRows")
    BY JobFirst DEF Control
  <1>2. source = << >>
    BY <1>1, NoSource
  <1>3. phase # "abort"
    BY DEF Control, PhaseFits
  <1> QED BY <1>2, <1>3

\* It closes the writer, or goes on with the copying of rows.
LEMMA CloseLogs ==
  ASSUME LogInv, LogInv', [Next]_vars, Quiet, NEW k \in Columns,
         \/ CloseColumn \/ CloseHeader \/ WriteDeferredBloomFilter \/ DeferredBloomFiltersWritten
         \/ PutDeferredBuffer \/ (DeferredBuffersReturned /\ ~Running("reset"))
         \/ WriteFooter \/ RowsCopied
  PROVE  LogStep(k)
  <1>0. TypeOK /\ Control
    BY DEF LogInv, ContentInv
  <1>1. (job # << >> /\ phase = "put") => job[1].op \in {"deferred", "reset"}
    BY <1>0 DEF Control, PhaseFits
  <1>2. /\ job # << >>
        /\ job[1].op \in {"closeColumns", "header", "deferred", "footer", "reset", "copyRows"}
        /\ UNCHANGED <<callVars, source>>
        /\ phase' = phase \/ phase' \in {"start", "put"}
        /\ UNCHANGED rowGroups \/ WriteDeferredBloomFilter
        /\ UNCHANGED status \/ (job[1].op = "footer" /\ status' = "closed")
    <2>1. CASE CloseColumn \/ RowsCopied
      BY <2>1 DEF CloseColumn, RowsCopied, Running, outVars
    <2>2. CASE CloseHeader \/ WriteFooter
      BY <2>2 DEF CloseHeader, WriteFooter, Running
    <2>3. CASE WriteDeferredBloomFilter \/ DeferredBloomFiltersWritten
      BY <2>3 DEF WriteDeferredBloomFilter, DeferredBloomFiltersWritten, Running, outVars
    <2>4. CASE PutDeferredBuffer
      BY <1>1, <2>4 DEF PutDeferredBuffer, mainVars
    <2>5. CASE DeferredBuffersReturned /\ ~Running("reset")
      BY <1>1, <2>5 DEF DeferredBuffersReturned, Running
    <2> QED BY <2>1, <2>2, <2>3, <2>4, <2>5
  <1>3. source = << >> /\ phase # "abort"
    BY <1>0, <1>2, NoSourceLeft
  <1>4. job[1].op = "footer" => status = "open"
    BY <1>0, <1>2 DEF Control, StatusFits
  <1>5. \A h \in Groups : PendingRows(h, k)' = PendingRows(h, k)
    BY <1>0, <1>2, <1>3, PendingKept
  <1>6. Steady
    BY <1>2, <1>3, <1>4 DEF Steady, callVars
  <1> QED BY <1>5, <1>6, StandsStill

\* The rows of a row group given to the writer become those of a call.
LEMMA CopyRowsLogs ==
  ASSUME LogInv, LogInv', [Next]_vars, Quiet, NEW k \in Columns, StartCopyRows
  PROVE  LogStep(k)
  <1>0. TypeOK /\ Control /\ 0 \in Groups
    BY DEF LogInv, ContentInv, Groups
  <1>1. /\ job # << >> /\ job[1].op = "opaque" /\ source' = << >> /\ generic' = FALSE
        /\ UNCHANGED <<chunk, col, phase, rowGroups, status>>
        /\ todo'[0] = source /\ pc'[0] = "write"
        /\ \A h \in Groups \ {0} : todo'[h] = todo[h] /\ pc'[h] = pc[h]
    BY <1>0 DEF StartCopyRows, Running, outVars, TypeOK
  <1>2. job = OnPath("opaque")
    BY <1>0, <1>1, JobFirst DEF Control, Paths
  <1>3. source # << >> /\ source \in Seq(Row) /\ chunk[0] = << >>
    BY <1>0, <1>1, <1>2, NoChunk0 DEF Control, SourceFits, PathLeft, Paths, TypeOK
  <1>4. PendingRows(0, k) = source
    BY <1>1, <1>3, PendingIs DEF SourcePart, Running
  <1>5. PendingRows(0, k)' = source
    <2>1. << >> \o source = source
      BY <1>3
    <2>2. CallPart(0, k)' = source
      BY <1>1, <1>3, <2>1 DEF CallPart
    <2> QED BY <1>1, <2>2, PendingIs
  <1>6. \A h \in Groups \ {0} : PendingRows(h, k)' = PendingRows(h, k)
    BY <1>1, PendingElsewhere
  <1>7. Steady
    BY <1>1 DEF Steady
  <1> QED BY <1>4, <1>5, <1>6, <1>7, StandsStill

\* A call of the main thread fails, and what is left of it is dropped.
LEMMA CallLostLogs ==
  ASSUME LogInv, LogInv', [Next]_vars, Quiet, NEW k \in Columns, CloseFails \/ WriteRowGroupSourceFails
  PROVE  LogStep(k)
  <1>0. TypeOK /\ Control /\ 0 \in Groups
    BY DEF LogInv, ContentInv, Groups
  <1>1. /\ job # << >> /\ job[1].op \in {"header", "footer", "deferred", "copyable", "columnar"}
        /\ UNCHANGED <<callVars, rowGroups>> /\ status' = "failed"
        /\ source' = source \/ source' = << >>
        /\ job[1].op \in {"copyable", "columnar"} => source' = << >>
    BY DEF CloseFails, Running, WriteRowGroupSourceFails
  <1>2. source' = << >>
    BY <1>0, <1>1, NoSourceLeft
  <1>3. PendingRows(0, k)' = << >>
    <2>1. pc[0] # "write"
      BY <1>0, <1>1, JobOps DEF Control, CallFits
    <2>2. chunk[0] = << >> /\ todo[0] = << >>
      BY <1>0, <2>1 DEF Control, CallFits
    <2>3. << >> \o << >> = << >>
      OBVIOUS
    <2>4. CallPart(0, k)' = << >>
      BY <1>1, <2>2, <2>3 DEF CallPart, callVars
    <2> QED BY <1>2, <2>4, PendingIs
  <1>4. \A h \in Groups \ {0} : PendingRows(h, k)' = PendingRows(h, k)
    BY <1>1, PendingElsewhere DEF callVars
  <1>5. FileRows(k)' = FileRows(k)
    BY <1>1, FileRowsSame
  <1>6. Broken \subseteq Broken' /\ 0 \in Broken'
    BY <1>0, <1>1 DEF Broken, callVars
  <1>7. \A h \in Groups : HeldRows(h, k)' = HeldRows(h, k)
    BY QuietHolds
  <1>8. /\ Len(HeldRows(0, k)') <= Len(HeldRows(0, k))
        /\ HeldRows(0, k)' = SubSeq(HeldRows(0, k), 1, Len(HeldRows(0, k)'))
    BY <1>0, <1>7, HeldType, EmptyOrAll
  <1> QED BY <1>0, <1>3, <1>4, <1>5, <1>6, <1>7, <1>8, LogLoses

\* The source of CopyRows fails, and what is left of its rows is dropped.
LEMMA CopyFailsLogs ==
  ASSUME LogInv, LogInv', [Next]_vars, Quiet, NEW k \in Columns, CopyRowsFails
  PROVE  LogStep(k)
  <1>0. TypeOK /\ Control /\ 0 \in Groups
    BY DEF LogInv, ContentInv, Groups
  <1>1. /\ job # << >> /\ job[1].op = "copyRows" /\ status' = "failed"
        /\ UNCHANGED <<col, generic, rowGroups, source, pos, done>>
        /\ chunk'[0] = << >> /\ todo'[0] = << >>
        /\ \A h \in Groups \ {0} : chunk'[h] = chunk[h] /\ todo'[h] = todo[h] /\ pc'[h] = pc[h]
    BY <1>0 DEF CopyRowsFails, Running, Fail, TypeOK
  <1>2. source' = << >>
    BY <1>0, <1>1, NoSourceLeft
  <1>3. PendingRows(0, k)' = << >>
    <2>1. << >> \o << >> = << >>
      OBVIOUS
    <2>2. CallPart(0, k)' = << >>
      BY <1>1, <2>1 DEF CallPart
    <2> QED BY <1>2, <2>2, PendingIs
  <1>4. \A h \in Groups \ {0} : PendingRows(h, k)' = PendingRows(h, k)
    BY <1>1, PendingElsewhere
  <1>5. FileRows(k)' = FileRows(k)
    BY <1>1, FileRowsSame
  <1>6. Broken \subseteq Broken' /\ 0 \in Broken'
    BY <1>0, <1>1 DEF Broken
  <1>7. \A h \in Groups : HeldRows(h, k)' = HeldRows(h, k)
    BY QuietHolds
  <1>8. /\ Len(HeldRows(0, k)') <= Len(HeldRows(0, k))
        /\ HeldRows(0, k)' = SubSeq(HeldRows(0, k), 1, Len(HeldRows(0, k)'))
    BY <1>0, <1>7, HeldType, EmptyOrAll
  <1> QED BY <1>0, <1>3, <1>4, <1>5, <1>6, <1>7, <1>8, LogLoses

-----------------------------------------------------------------------------
(* Every step of the writer is one of RowLog, or none. *)

\* The other steps inside a call on a row group.
LEMMA QuietGroupLogs ==
  ASSUME LogInv, LogInv', [Next]_vars, Quiet, NEW k \in Columns, NEW g \in Groups, GroupStep(g)
  PROVE  LogStep(k)
  <1>1. CASE NextChunk(g) \/ WriteColumn(g)
    BY <1>1, ChunkCutLogs, WrittenColumnLogs DEF Quiet, Changing
  <1>2. CASE GroupFull(g)
    BY <1>2, GroupFullLogs
  <1>3. CASE FlushGroupColumn(g)
    BY <1>3, FlushCallLogs
  <1>4. ~WriteColumnFails(g) /\ ~FlushGroupColumnFails(g)
    BY DEF Quiet, Dropping
  <1> QED BY <1>1, <1>2, <1>3, <1>4 DEF GroupStep

\* The other steps of the main thread.
LEMMA QuietMainLogs ==
  ASSUME LogInv, LogInv', [Next]_vars, Quiet, NEW k \in Columns, MainStep
  PROVE  LogStep(k)
  <1>0. TypeOK /\ 0 \in Groups
    BY DEF LogInv, ContentInv, Groups
  <1>1. job # << >> => \E g \in Groups : g = Group
    BY <1>0, GroupColumn
  <1>2. /\ ~FlushRowGroupColumnFails /\ ~FlushFilterPagesFails
        /\ ~CloseColumnFails /\ ~ReencodeBatchFails
    BY <1>0, <1>1 DEF Quiet, Dropping, FlushRowGroupColumnFails, FlushFilterPagesFails, InRowGroup,
      Running
  <1>3. ~ResetRowGroupColumn /\ ~LoadCopiedChunk /\ ~ReencodeBatch
    BY <1>0, <1>1 DEF Quiet, Changing, ResetRowGroupColumn
  <1>4. ~AppendRowGroup /\ ~(DeferredBuffersReturned /\ Running("reset"))
    BY <1>0, <1>1 DEF Quiet, Begins, AppendRowGroup, InRowGroup, Running
  <1>5. CASE TooManyRowGroups
    BY <1>5, RefusedLogs
  <1>6. CASE \/ SkipEmptyRowGroup \/ StartRowGroup \/ FlushRowGroupColumn \/ WriteHeader
             \/ WriteColumnPages \/ NoBloomFilter \/ DeferBloomFilter \/ WriteBloomFilter
    BY <1>6, RowGroupLogs
  <1>7. CASE WriteRowGroupFails
    BY <1>7, RowGroupFailsLogs
  <1>8. CASE \/ CloseColumn \/ CloseHeader \/ WriteDeferredBloomFilter \/ DeferredBloomFiltersWritten
             \/ PutDeferredBuffer \/ DeferredBuffersReturned \/ WriteFooter \/ RowsCopied
    BY <1>4, <1>8, CloseLogs
  <1>9. CASE StartCopyRows
    BY <1>9, CopyRowsLogs
  <1>10. CASE CloseFails \/ WriteRowGroupSourceFails
    BY <1>10, CallLostLogs
  <1>11. CASE CopyRowsFails
    BY <1>11, CopyFailsLogs
  <1> QED BY <1>2, <1>3, <1>4, <1>5, <1>6, <1>7, <1>8, <1>9, <1>10, <1>11 DEF MainStep

\* The steps that move no rows, and the calls.
LEMMA QuietLogs ==
  ASSUME LogInv, LogInv', [Next]_vars, Quiet, NEW k \in Columns
  PROVE  LogStep(k)
  <1>1. CASE MainStep \/ \E g \in Groups : GroupStep(g)
    BY <1>1, QuietMainLogs, QuietGroupLogs
  <1>2. CASE ApplicationCall
    <2>1. CASE \E g \in Groups, n \in 1 .. MaxCall :
                 \E kind \in CallKinds \cap {"Write", "WriteRows"} : WriteRows(g, n, kind)
      <3>1. PICK g \in Groups, n \in 1 .. MaxCall : \E kind \in CallKinds : WriteRows(g, n, kind)
        BY <2>1
      <3> QED BY <3>1, GroupCallLogs
    <2>2. CASE \E n \in 1 .. MaxCall :
                 \E kind \in CallKinds \cap {"copyable", "columnar", "opaque"} : WriteRowGroup(n, kind)
      BY <2>2, RowGroupCallLogs
    <2>3. CASE \E g \in Groups : FlushGroup(g)
      BY <2>3, FlushCallLogs
    <2>4. CASE Flush \/ Close \/ Reset \/ \E g \in Groups : Commit(g)
      BY <2>4, OtherCallLogs
    <2> QED BY <1>2, <2>1, <2>2, <2>3, <2>4 DEF ApplicationCall
  <1>3. CASE UNCHANGED allButPool
    <2>1. UNCHANGED <<callVars, source, job, pos, done, rowGroups, status, phase>>
      BY <1>3 DEF allButPool, mainVars, outVars
    <2>2. \A h \in Groups : PendingRows(h, k)' = PendingRows(h, k)
      BY <2>1, PendingKept DEF LogInv, ContentInv
    <2>3. Steady
      BY <2>1 DEF Steady, callVars
    <2> QED BY <2>2, <2>3, StandsStill
  <1> QED BY <1>1, <1>2, <1>3, NextCases

\* Column k gets from the file what RowLog says.
LEMMA LogStepHolds ==
  ASSUME WriteAlone, LogInv, LogInv', [Next]_vars, NEW k \in Columns
  PROVE  LogStep(k)
  <1>1. ASSUME NEW g \in Groups, Changing(g) PROVE LogStep(k)
    <2>1. CASE NextChunk(g) /\ Generic(g)
      BY <2>1, WriteLogs
    <2>2. CASE WriteColumn(g) /\ ~Generic(g)
      BY <2>2, WriteRowsLogs
    <2>3. CASE ResetRowGroupColumn
      BY <2>3, WrittenResets, AbortResets
    <2>4. CASE LoadCopiedChunk \/ ReencodeBatch
      BY <2>4, PathLogs
    <2> QED BY <1>1, <2>1, <2>2, <2>3, <2>4 DEF Changing
  <1>2. ASSUME NEW g \in Groups, Dropping(g) PROVE LogStep(k)
    BY <1>2, CallFailsLogs, MainFailsLogs, BatchFailsLogs DEF Dropping
  <1>3. ASSUME NEW g \in Groups, Begins(g) PROVE LogStep(k)
    BY <1>3, AppendLogs, ResetLogs DEF Begins
  <1>4. CASE Quiet
    BY <1>4, QuietLogs
  <1> QED BY <1>1, <1>2, <1>3, <1>4 DEF Quiet

-----------------------------------------------------------------------------
(* The theorem. *)

\* No row is in a new writer.
LEMMA LogInit ==
  ASSUME Init, NEW k \in Columns
  PROVE  Log(k)!Init
  <1>1. TypeOK /\ Control
    BY LogInvInit DEF LogInv, ContentInv
  <1>2. Pending(k) = [g \in Groups |-> << >>]
    <2>1. \A g \in Groups : pc[g] # "write"
      BY DEF Init
    <2>2. source = << >>
      BY DEF Init
    <2>3. \A g \in Groups : PendingRows(g, k) = << >>
      BY <1>1, <2>1, <2>2, NothingPending
    <2> QED BY <2>3 DEF Pending
  <1>3. Held(k) = [g \in Groups |-> << >>]
    <2>1. ASSUME NEW g \in Groups PROVE HeldRows(g, k) = << >>
      <3>1. ~InReset(g)
        BY DEF InReset, Init
      <3>2. cw[g][k] = NewColumnWriter
        BY DEF Init
      <3>3. ColumnRows(NewColumnWriter) = << >>
        BY ResetColumnType, ResetColumnRows, BlankRows
      <3> QED BY <3>1, <3>2, <3>3, HeldIs DEF Rows
    <2> QED BY <2>1 DEF Held
  <1>4. FileRows(k) = << >>
    <2>1. Len(rowGroups) = 0
      BY DEF Init
    <2>2. FoundRows(file, rowGroups, k) = << >>
      BY <2>1 DEF FoundRows
    <2>3. FlattenSeq(<< >>) = << >>
      BY FlattenSeqRecursion
    <2> QED BY <2>2, <2>3, FileRowsAre
  <1>5. Broken = {}
    BY DEF Broken, Init
  <1> QED BY <1>2, <1>3, <1>4, <1>5 DEF Log!Init

\* Each column implements RowLog.
LEMMA LogHolds ==
  ASSUME FallbackOrReset, FallbackOrFaults, WriteAlone, NEW k \in Columns
  PROVE  Spec => Log(k)!Spec
  <1>1. Init => LogInv
    BY LogInvInit
  <1>2. LogInv /\ [Next]_vars => LogInv'
    BY LogInvStep
  <1>3. Init => Log(k)!Init
    BY LogInit
  <1>4. LogInv /\ LogInv' /\ [Next]_vars => [Log(k)!Next]_<<Pending(k), Held(k), FileRows(k), Broken>>
    BY LogStepHolds DEF LogStep
  <1> QED BY <1>1, <1>2, <1>3, <1>4, PTL DEF Spec, Log!Spec

\* The instances for the two columns that are compared are those for any column.
LEMMA Log1Is ==
  /\ Log(1)!Init <=> Log1!Init
  /\ [Log(1)!Next]_<<Pending(1), Held(1), FileRows(1), Broken>>
       <=> [Log1!Next]_<<Pending(1), Held(1), FileRows(1), Broken>>
  BY DEF Log!Init, Log!Next, Log!Call, Log!Accept, Log!Reject, Log!Publish, Log!Lose, Log!Reset,
         Log!OnlyAt, Log!Prefix, Log1!Init, Log1!Next, Log1!Call, Log1!Accept, Log1!Reject,
         Log1!Publish, Log1!Lose, Log1!Reset, Log1!OnlyAt, Log1!Prefix

\* So it is for the second column.
LEMMA Log2Is ==
  /\ Log(2)!Init <=> Log2!Init
  /\ [Log(2)!Next]_<<Pending(2), Held(2), FileRows(2), Broken>>
       <=> [Log2!Next]_<<Pending(2), Held(2), FileRows(2), Broken>>
  BY DEF Log!Init, Log!Next, Log!Call, Log!Accept, Log!Reject, Log!Publish, Log!Lose, Log!Reset,
         Log!OnlyAt, Log!Prefix, Log2!Init, Log2!Next, Log2!Call, Log2!Accept, Log2!Reject,
         Log2!Publish, Log2!Lose, Log2!Reset, Log2!OnlyAt, Log2!Prefix

\* The writer implements RowLog: in every behaviour, whatever fails and on
\* whichever path rows come, a reader of the file gets from each column exactly
\* the rows that were given to the row groups, group by group in the order they
\* were written, none of them lost, repeated or moved unless a call failed.
THEOREM WriterImplementsRowLog ==
  ASSUME FallbackOrReset, FallbackOrFaults, WriteAlone, 2 \in Columns
  PROVE  Spec => ImplementsRowLog
  <1>1. 1 \in Columns
    BY ColumnAssumption DEF Columns
  <1>2. Spec => Log(1)!Spec
    BY <1>1, LogHolds
  <1>3. Spec => Log(2)!Spec
    BY LogHolds
  <1>4. Log(1)!Spec => Log1!Spec
    BY Log1Is, PTL DEF Log!Spec, Log1!Spec
  <1>5. Log(2)!Spec => Log2!Spec
    BY Log2Is, PTL DEF Log!Spec, Log2!Spec
  <1> QED BY <1>2, <1>3, <1>4, <1>5, PTL DEF ImplementsRowLog

=============================================================================
