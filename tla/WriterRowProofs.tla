--------------------------- MODULE WriterRowProofs ---------------------------
(***************************************************************************)
(* Proofs about the rows that module Writer keeps and writes: every column *)
(* of a row group holds the same rows, however they are spread over pages  *)
(* and buffers, and as many as the row group counts.                       *)
(***************************************************************************)
EXTENDS WriterProofs, WriterProperties

-----------------------------------------------------------------------------
(* What the theorems about rows assume.                                     *)

\* The buffer of the PLAIN fallback outlives Reset with the rows in it, so a
\* writer whose dictionaries may fall back is not reset.
FallbackOrReset == DictionaryMaxBytes = 0 \/ MaxResets = 0

\* Write installs column buffers of its own in its first call, so it is not
\* used together with WriteRows.
OneKindOfWrite == ~({"Write", "WriteRows"} \subseteq CallKinds)

-----------------------------------------------------------------------------
(* The rows a row group holds. *)

Rows(g, k) == ColumnRows(cw[g][k])

\* The row group is being emptied, after it was written or after a failure.
InReset(g) == job # << >> /\ phase = "reset" /\ Group = g
InAbort(g) == job # << >> /\ phase = "abort" /\ Group = g

\* Nothing failed on the row group, and the metadata has room for it if Write
\* may yet install buffers over rows that are refused.
Sound(g) ==
  /\ pc[g] # "failed"
  /\ ~InAbort(g)
  /\ (g = 0 \/ DictionaryMaxBytes > 0) => status # "failed"
  /\ (g = 0 /\ "Write" \in CallKinds) => Len(rowGroups) < MaxRowGroups

\* The buffers of every column are as its flags say.
Fine(c) == BuffersFit(c) /\ PlainFits(c)
GroupFine(g) == (DictionaryMaxBytes = 0 \/ Sound(g)) => \A k \in Columns : Fine(cw[g][k])

\* The columns that a loop of writeRowGroup has passed.
Blanked ==
  (job # << >> /\ phase \in {"reset", "abort"}) =>
    \A k \in Columns : k < pos => Blank(cw[Group][k])
Flushed ==
  job # << >> =>
    /\ phase = "flush" => \A k \in Columns : k < pos => Buffered(cw[Group][k]) = << >>
    /\ (phase \in {"header", "pages", "bloom", "append"}
          \/ (phase = "reset" /\ job[1].op = "rowGroup")) =>
         \A k \in Columns : Buffered(cw[Group][k]) = << >>

\* WriteRowGroup is filling the columns one after the other.
OnColumnPath(g) == g = 0 /\ (job = OnPath("copyable") \/ job = OnPath("columnar"))

\* Rows of the chunk that column k is still to get.
Ahead(g, k) == IF col[g] <= k /\ ~Generic(g) THEN chunk[g] ELSE << >>

\* With the rows of the chunk, every column has the same rows.
GroupAligned(g) ==
  (Sound(g) /\ ~InReset(g) /\ ~OnColumnPath(g)) =>
    \A k \in Columns : Rows(g, k) \o Ahead(g, k) = Rows(g, 1) \o Ahead(g, 1)

\* What column k has got of the row group given to WriteRowGroup.
Taken(k) == IF k < pos THEN source ELSE IF k = pos THEN SubSeq(source, 1, done) ELSE << >>
FromSource ==
  (Sound(0) /\ OnColumnPath(0)) => \A k \in Columns : Rows(0, k) = Taken(k)

\* The current row group goes to the file, or is refused, at the end of the job.
EndsInFlush == job = RowGroupJob(0) \/ \E p \in Paths \cup {"copyRows"} : PathLeft(p)

\* Until Write installs its column buffers there are no rows in the others
\* between the calls.
FirstWrite ==
  ("Write" \in CallKinds /\ ~resolved /\ Sound(0) /\ ~InReset(0) /\ ~EndsInFlush) =>
    \A k \in Columns : Rows(0, k) = << >>

RowInv ==
  /\ \A g \in Groups : GroupFine(g) /\ GroupAligned(g)
  /\ Blanked /\ Flushed /\ FromSource /\ FirstWrite

-----------------------------------------------------------------------------
(* A row group stays unsound until it is empty again. *)

\* The ways in which a row group may become sound.
SoundAgain(g) ==
  /\ DictionaryMaxBytes = 0
  /\ \/ g = 0 /\ InReset(0)'
     \/ g # 0 /\ InAbort(g) /\ ResetRowGroupColumn /\ pos = NumColumns

\* A step that leaves what failed failed.
LEMMA SoundKept ==
  ASSUME NEW g \in Groups, status = "failed" => status' = "failed",
         pc[g] = "failed" => pc'[g] = "failed", InAbort(g) => InAbort(g)',
         Len(rowGroups) \in Nat, Len(rowGroups') \in Nat, Len(rowGroups) <= Len(rowGroups')
  PROVE  Sound(g)' => Sound(g)
  BY WriterAssumption DEF Sound

\* A step on a job that aborts nothing.
LEMMA NoAbort ==
  ASSUME Control, phase # "abort" \/ job = << >>
  PROVE  \A g : ~InAbort(g)
  BY DEF InAbort

LEMMA SoundStep ==
  ASSUME FallbackOrReset, TypeOK, TypeOK', Control, [Next]_vars, NEW g \in Groups, Sound(g)'
  PROVE  Sound(g) \/ SoundAgain(g)
  <1>0. /\ pc \in [Groups -> {"idle", "write", "flush", "failed"}]
        /\ Len(rowGroups) \in Nat /\ Len(rowGroups') \in Nat /\ 0 \in Groups
    <2>1. rowGroups \in Seq(RowGroup) /\ rowGroups' \in Seq(RowGroup)
      BY DEF TypeOK
    <2>2. Len(rowGroups) \in Nat /\ Len(rowGroups') \in Nat
      BY <2>1
    <2>3. 0 \in Groups
      BY DEF Groups
    <2>4. pc \in [Groups -> {"idle", "write", "flush", "failed"}]
      BY DEF TypeOK
    <2> QED BY <2>2, <2>3, <2>4
  <1>1. CASE UNCHANGED <<pc, status, rowGroups, job, phase>>
    BY <1>0, <1>1, SoundKept DEF InAbort, Group
  <1>2. CASE \/ UNCHANGED allButPool
             \/ PutDeferredBuffer
    BY <1>1, <1>2 DEF allButPool, callVars, mainVars, outVars, PutDeferredBuffer
  <1>3. CASE ApplicationCall
    <2>1. ASSUME NEW h \in Groups, NEW n \in 1 .. MaxCall, NEW kind, WriteRows(h, n, kind)
          PROVE  Sound(g)
      BY <1>0, <2>1, SoundKept DEF WriteRows, mainVars, outVars, Idle, InAbort, Group
    <2>2. ASSUME NEW h \in Groups, FlushGroup(h)
          PROVE  Sound(g)
      BY <1>0, <2>2, SoundKept DEF FlushGroup, mainVars, outVars, Idle, InAbort, Group
    <2>3. CASE \/ \E n \in 1 .. MaxCall :
                    \E kind \in CallKinds \cap {"copyable", "columnar", "opaque"} : WriteRowGroup(n, kind)
               \/ \E h \in Groups : Commit(h)
               \/ Flush \/ Close \/ Reset
      <3>1. UNCHANGED <<pc, status, rowGroups>> /\ job = << >>
        <4>1. ASSUME NEW jobs, Call(jobs)
              PROVE  UNCHANGED <<pc, status, rowGroups>> /\ job = << >>
          BY <4>1 DEF Call, MainIdle, callVars, outVars
        <4>2. ASSUME NEW n, NEW kind, WriteRowGroup(n, kind)
              PROVE  UNCHANGED <<pc, status, rowGroups>> /\ job = << >>
          BY <4>2 DEF WriteRowGroup, MainIdle, outVars
        <4>3. CASE Reset
          BY <4>3 DEF Reset, callVars
        <4> QED BY <2>3, <4>1, <4>2, <4>3 DEF Commit, Flush, Close
      <3> QED BY <1>0, <3>1, SoundKept DEF InAbort
    <2> QED BY <1>3, <2>1, <2>2, <2>3 DEF ApplicationCall
  <1>4. CASE \E h \in Groups : GroupStep(h)
    <2>1. PICK h \in Groups : GroupStep(h)
      BY <1>4
    <2>2. /\ UNCHANGED <<rowGroups, phase>> /\ (status = "failed" => status' = "failed")
          /\ \A i \in Groups : pc[i] = "failed" => pc'[i] = "failed"
      <3>1. CASE NextChunk(h)
        BY <3>1 DEF NextChunk, mainVars, outVars
      <3>2. CASE GroupFull(h)
        BY <1>0, <3>2 DEF GroupFull, BetweenChunks, outVars
      <3>3. CASE WriteColumn(h)
        BY <1>0, <3>3 DEF WriteColumn, mainVars, outVars
      <3>4. CASE FlushGroupColumn(h)
        BY <1>0, <3>4 DEF FlushGroupColumn, mainVars, outVars
      <3>5. CASE WriteColumnFails(h)
        BY <1>0, <3>5 DEF WriteColumnFails, Fail
      <3>6. CASE FlushGroupColumnFails(h)
        BY <1>0, <3>6 DEF FlushGroupColumnFails, Fail
      <3> QED BY <2>1, <3>1, <3>2, <3>3, <3>4, <3>5, <3>6 DEF GroupStep
    <2>3. InAbort(g) => InAbort(g)'
      <3>1. CASE job' = job
        BY <2>2, <3>1 DEF InAbort, Group
      <3>2. CASE job' # job
        <4>1. h = 0
          BY <2>1, <3>2 DEF GroupStep, NextChunk, GroupFull, WriteColumn, WriteColumnFails,
             FlushGroupColumn, FlushGroupColumnFails, Fail, mainVars
        <4>2. job = << >> \/ job = OnPath("copyRows")
          <5>1. pc[0] = "write" /\ (chunk[0] = << >> => job = << >> \/ job[1].op = "copyRows")
            <6>1. pc[0] = "write" \/ pc[0] = "flush"
              BY <2>1, <4>1 DEF GroupStep, NextChunk, GroupFull, WriteColumn, WriteColumnFails,
                 FlushGroupColumn, FlushGroupColumnFails, BetweenChunks
            <6>2. pc[0] = "write"
              BY <6>1 DEF Control, CallFits
            <6>3. chunk[0] # << >> \/ GroupFull(0)
              BY <2>1, <3>2, <4>1, <6>2 DEF GroupStep, NextChunk, WriteColumn, WriteColumnFails,
                 FlushGroupColumn, FlushGroupColumnFails, mainVars
            <6> QED BY <6>2, <6>3 DEF GroupFull, BetweenChunks
          <5>2. CASE chunk[0] # << >>
            BY <5>2 DEF Control, CallFits
          <5>3. CASE chunk[0] = << >>
            BY <5>1, <5>3, ChunkJob
          <5> QED BY <5>2, <5>3
        <4>3. job = << >> \/ phase = "start"
          BY <4>2, JobOps DEF Control, PhaseFits
        <4> QED BY <4>3 DEF InAbort
      <3> QED BY <3>1, <3>2
    <2> QED BY <1>0, <2>2, <2>3, SoundKept
  <1>5. CASE MainStep
    <2>1. CASE phase # "abort" /\ ~DeferredBuffersReturned
      <3>1. UNCHANGED pc \/ \E v : pc' = [pc EXCEPT ![0] = v]
        BY <1>5 DEF MainStep, SkipEmptyRowGroup, TooManyRowGroups, StartRowGroup, FlushRowGroupColumn,
           FlushRowGroupColumnFails, FlushFilterPagesFails, WriteHeader, WriteColumnPages,
           NoBloomFilter, DeferBloomFilter,
           WriteBloomFilter, WriteRowGroupFails, AppendRowGroup, ResetRowGroupColumn, CloseColumn,
           CloseColumnFails, CloseHeader, WriteDeferredBloomFilter, DeferredBloomFiltersWritten,
           PutDeferredBuffer, DeferredBuffersReturned, WriteFooter, CloseFails, LoadCopiedChunk,
           StartCopyRows, RowsCopied, CopyRowsFails, Fail, ReencodeBatch, ReencodeBatchFails,
           WriteRowGroupSourceFails, AbortCall, callVars
      <3>2. pc[0] # "failed"
        BY DEF Control, CallFits
      <3>3. pc[g] = "failed" => pc'[g] = "failed"
        BY <1>0, <3>1, <3>2
      <3>4. Len(rowGroups) <= Len(rowGroups') /\ (status = "failed" => status' = "failed")
        <4>1. CASE UNCHANGED <<rowGroups, status>>
          BY <1>0, <4>1
        <4>2. CASE AppendRowGroup
          <5>1. PICK r : rowGroups' = Append(rowGroups, r) /\ status' = status
            BY <4>2 DEF AppendRowGroup
          <5>2. Len(rowGroups') = Len(rowGroups) + 1
            BY <5>1 DEF TypeOK
          <5> QED BY <1>0, <5>1, <5>2
        <4>3. CASE WriteDeferredBloomFilter
          BY <1>0, <4>3 DEF WriteDeferredBloomFilter, TypeOK
        <4>4. CASE UNCHANGED rowGroups /\ (status' = "failed" \/ WriteFooter)
          BY <1>0, <4>4 DEF WriteFooter, Running, Control, StatusFits
        <4>5. \/ UNCHANGED <<rowGroups, status>> \/ AppendRowGroup \/ WriteDeferredBloomFilter
              \/ UNCHANGED rowGroups /\ (status' = "failed" \/ WriteFooter)
          BY <1>5, <2>1 DEF MainStep, SkipEmptyRowGroup, TooManyRowGroups, StartRowGroup,
            FlushRowGroupColumn,
             FlushRowGroupColumnFails, FlushFilterPagesFails, WriteHeader, WriteColumnPages,
             NoBloomFilter, DeferBloomFilter,
             WriteBloomFilter, WriteRowGroupFails, ResetRowGroupColumn, CloseColumn,
             CloseColumnFails, CloseHeader, DeferredBloomFiltersWritten,
             PutDeferredBuffer, WriteFooter, CloseFails, LoadCopiedChunk,
             StartCopyRows, RowsCopied, CopyRowsFails, Fail, ReencodeBatch, ReencodeBatchFails,
             WriteRowGroupSourceFails, outVars
        <4> QED BY <4>1, <4>2, <4>3, <4>4, <4>5
      <3>5. InAbort(g) => InAbort(g)'
        BY <2>1 DEF InAbort
      <3> QED BY <1>0, <3>3, <3>4, <3>5, SoundKept
    <2>2. CASE DeferredBuffersReturned
      <3>1. /\ job # << >> /\ phase = "put" /\ UNCHANGED pc
            /\ IF job[1].op = "reset"
                 THEN phase' = "reset" /\ rowGroups' = << >> /\ status' = "open" /\ UNCHANGED job
                 ELSE UNCHANGED <<rowGroups, status>>
        BY <2>2 DEF DeferredBuffersReturned, callVars
      <3>2. ~InAbort(g)
        BY <3>1 DEF InAbort
      <3>3. CASE job[1].op = "reset"
        <4>1. job = ResetJob /\ MaxResets > 0 /\ Group = 0
          BY <3>1, <3>3, JobFirst DEF Control, StatusFits
        <4>2. DictionaryMaxBytes = 0
          BY <4>1 DEF FallbackOrReset
        <4>3. g = 0 => InReset(0)'
          BY <3>1, <3>3, <4>1 DEF InReset, Group
        <4>4. g # 0 => Sound(g)
          BY <3>1, <3>2, <4>2 DEF Sound
        <4> QED BY <4>2, <4>3, <4>4 DEF SoundAgain
      <3>4. CASE job[1].op # "reset"
        BY <1>0, <3>1, <3>2, <3>4, SoundKept
      <3> QED BY <3>3, <3>4
    <2>3. CASE phase = "abort"
      <3>1. job # << >> => job[1].op = "rowGroup"
        BY <2>3 DEF Control, PhaseFits
      <3>2. ResetRowGroupColumn
        BY <1>5, <2>3, <3>1 DEF MainStep, SkipEmptyRowGroup, TooManyRowGroups, StartRowGroup,
           FlushRowGroupColumn, FlushRowGroupColumnFails, FlushFilterPagesFails, WriteHeader,
           WriteColumnPages, NoBloomFilter,
           DeferBloomFilter, WriteBloomFilter, WriteRowGroupFails, AppendRowGroup, CloseColumn,
           CloseColumnFails, CloseHeader, WriteDeferredBloomFilter, DeferredBloomFiltersWritten,
           PutDeferredBuffer, DeferredBuffersReturned, WriteFooter, CloseFails, LoadCopiedChunk,
           StartCopyRows, RowsCopied, CopyRowsFails, Fail, ReencodeBatch, ReencodeBatchFails,
           WriteRowGroupSourceFails, InRowGroup, Running
      <3>3. /\ job # << >> /\ UNCHANGED rowGroups
            /\ IF pos < NumColumns
                 THEN UNCHANGED <<job, pc, status, phase>>
                 ELSE status' = "failed" /\ pc' = [pc EXCEPT ![0] = "idle"]
        BY <2>3, <3>2 DEF ResetRowGroupColumn, NextColumnOr, AbortCall
      <3>4. CASE pos < NumColumns
        BY <1>0, <3>3, <3>4, SoundKept DEF InAbort, Group
      <3>5. CASE ~(pos < NumColumns)
        <4>1. status' = "failed" /\ pc' = [pc EXCEPT ![0] = "idle"] /\ UNCHANGED rowGroups
          BY <3>3, <3>5
        <4>2. g # 0 /\ DictionaryMaxBytes = 0
          BY <4>1, ColumnAssumption DEF Sound
        <4>3. pos = NumColumns
          BY <3>5, ColumnAssumption DEF TypeOK, Columns
        <4>4. CASE InAbort(g)
          BY <3>2, <4>2, <4>3, <4>4 DEF SoundAgain
        <4>5. CASE ~InAbort(g)
          BY <1>0, <4>1, <4>2, <4>5 DEF Sound
        <4> QED BY <4>4, <4>5
      <3> QED BY <3>4, <3>5
    <2> QED BY <2>1, <2>2, <2>3
  <1> QED BY <1>2, <1>3, <1>4, <1>5, NextCases

-----------------------------------------------------------------------------
(* The buffers stay fine. *)

\* One column changes, or those of one row group.
OnlyColumn(g, k, d) ==
  /\ cw'[g][k] = d
  /\ \A h \in Groups, m \in Columns : (h # g \/ m # k) => cw'[h][m] = cw[h][m]
OnlyGroup(g, f) ==
  /\ \A m \in Columns : cw'[g][m] = f[m]
  /\ \A h \in Groups \ {g}, m \in Columns : cw'[h][m] = cw[h][m]

LEMMA SetColumnIs ==
  ASSUME TypeOK, NEW g \in Groups, NEW k \in Columns, NEW d, SetColumn(g, k, d)
  PROVE  OnlyColumn(g, k, d)
  BY DEF TypeOK, SetColumn, OnlyColumn

\* The methods of a column writer and its buffers.
LEMMA FineMethods ==
  ASSUME NEW c \in ColumnWriterState, NEW k \in Columns, NEW rows \in Seq(Row), NEW id \in Nat, Fine(c)
  PROVE  /\ Fine(WriteValues(c, k, rows))
         /\ Fine(FlushColumn(c, k, id)) /\ Fine(FlushColumnFails(c, k, id))
         /\ Fine(FlushColumn(WriteValues(c, k, rows), k, id))
         /\ Fine(FlushColumnFails(WriteValues(c, k, rows), k, id))
         /\ Fine(flushFilterPages(c, k)) /\ Fine(resizeBloomFilter(c))
         /\ Fine(loadCopiedChunk(c, k, SourceChunk(k, rows, SourcePage, SourceOffset)))
         /\ (DictionaryMaxBytes = 0 \/ Buffered(c) = << >>) =>
              /\ c.plain = << >> /\ Fine(newColumnBuffer(c)) /\ Fine(resetColumn(c))
  <1>1. Fine(FlushColumn(c, k, id)) /\ Fine(FlushColumnFails(c, k, id))
    BY FlushColumnRows, FlushColumnFailsRows DEF Fine
  <1>2. WriteValues(c, k, rows) \in ColumnWriterState /\ Fine(WriteValues(c, k, rows))
    BY WriteValuesType, WriteValuesRows DEF Fine
  <1>3. /\ Fine(FlushColumn(WriteValues(c, k, rows), k, id))
        /\ Fine(FlushColumnFails(WriteValues(c, k, rows), k, id))
    BY <1>2, FlushColumnRows, FlushColumnFailsRows DEF Fine
  <1>4. Fine(flushFilterPages(c, k)) /\ Fine(resizeBloomFilter(c))
    BY FilterRows, SameButFilterSame DEF Fine
  <1>5. Fine(loadCopiedChunk(c, k, SourceChunk(k, rows, SourcePage, SourceOffset)))
    <2> DEFINE d == loadCopiedChunk(c, k, SourceChunk(k, rows, SourcePage, SourceOffset))
               e == loadCopiedChunk(NewColumnWriter, k, SourceChunk(k, rows, SourcePage, SourceOffset))
    <2>1. SourcePage \in Nat \ {0} /\ SourceOffset \in Nat \ {0}
      BY WriterAssumption DEF SourceOffset
    <2>2. NewColumnWriter \in ColumnWriterState /\ BuffersFit(NewColumnWriter) /\ Buffered(NewColumnWriter) = << >>
      BY ResetColumnType, ResetColumnRows, BlankRows
    <2>3. BuffersFit(e)
      BY <2>1, <2>2, CopiedRows
    <2>4. d.pages = e.pages /\ d.numRows = e.numRows
      BY DEF loadCopiedChunk, ColumnWriterState, NewColumnWriter
    <2>5. /\ d.columnBuffer = c.columnBuffer /\ d.original = c.original /\ d.plain = c.plain
          /\ d.hasSwitchedToPlain = c.hasSwitchedToPlain
      BY DEF loadCopiedChunk, ColumnWriterState
    <2>6. EncodedRows(d) = EncodedRows(e)
      BY <2>4 DEF EncodedRows, PageRows
    <2> HIDE DEF d, e
    <2> QED BY <2>3, <2>4, <2>5, <2>6 DEF Fine, BuffersFit, PlainFits, d
  <1>6. ASSUME DictionaryMaxBytes = 0 \/ Buffered(c) = << >>
        PROVE  c.plain = << >> /\ Fine(newColumnBuffer(c)) /\ Fine(resetColumn(c))
    <2>1. c.plain = << >>
      BY <1>6 DEF Fine, BuffersFit, Buffered, PlainFits
    <2>2. Fine(resetColumn(c))
      BY <2>1, ResetColumnRows, ResetColumnType, BlankRows DEF Fine, PlainFits
    <2>3. Fine(newColumnBuffer(c))
      <3> DEFINE d == newColumnBuffer(c)
      <3>1. /\ d.columnBuffer = "original" /\ d.original = << >> /\ d.plain = c.plain
            /\ d.hasSwitchedToPlain = c.hasSwitchedToPlain /\ d.pages = c.pages /\ d.numRows = c.numRows
        BY DEF newColumnBuffer, ColumnWriterState
      <3>2. EncodedRows(d) = EncodedRows(c)
        BY <3>1 DEF EncodedRows, PageRows
      <3> HIDE DEF d
      <3> QED BY <2>1, <3>1, <3>2 DEF Fine, BuffersFit, PlainFits, d
    <2> QED BY <2>1, <2>2, <2>3
  <1> QED BY <1>1, <1>2, <1>3, <1>4, <1>5, <1>6

\* The columns before WriteRowGroup fills them, with their filters.
LEMMA WithBloomFiltersIs ==
  ASSUME TypeOK, NEW m \in Columns
  PROVE  /\ WithBloomFilters(cw[0])[m] = cw[0][m] \/ WithBloomFilters(cw[0])[m] = resizeBloomFilter(cw[0][m])
         /\ WithBloomFilters(cw[0])[m] \in ColumnWriterState
         /\ SameButFilter(cw[0][m], WithBloomFilters(cw[0])[m])
  <1>1. cw[0][m] \in ColumnWriterState
    BY DEF TypeOK, Groups
  <1>2. WithBloomFilters(cw[0])[m] = cw[0][m] \/ WithBloomFilters(cw[0])[m] = resizeBloomFilter(cw[0][m])
    BY DEF WithBloomFilters
  <1>3. SameButFilter(cw[0][m], cw[0][m])
    BY DEF SameButFilter, SamePages
  <1> QED BY <1>1, <1>2, <1>3, FilterRows, FilterType

\* A batch of the column-oriented path, and its flush that fails.
LEMMA ReencodeBatchIs ==
  ASSUME TypeOK, Control, ReencodeBatch \/ ReencodeBatchFails
  PROVE  /\ BatchColumns \in [Columns -> ColumnWriterState]
         /\ \A m \in Columns : /\ BatchColumns[m] \in ColumnWriterState
                               /\ SameButFilter(cw[0][m], BatchColumns[m])
         /\ job = OnPath("columnar") /\ done < BatchEnd /\ BatchEnd <= Len(source) /\ BatchEnd \in Nat
         /\ SubSeq(source, done + 1, BatchEnd) \in Seq(Row)
         /\ SubSeq(source, 1, done) \o SubSeq(source, done + 1, BatchEnd) = SubSeq(source, 1, BatchEnd)
         /\ \E d : /\ IF ReencodeBatch
                        THEN \/ d = BatchColumn
                             \/ /\ d = FlushColumn(BatchColumn, pos, taken[0])
                                /\ BufferReady(0, NeedsPageBuffer(BatchColumn))
                        ELSE d = FlushColumnFails(BatchColumn, pos, taken[0])
                   /\ OnlyGroup(0, [BatchColumns EXCEPT ![pos] = d])
  <1>1. /\ cw \in [Groups -> [Columns -> ColumnWriterState]] /\ 0 \in Groups /\ pos \in Columns
        /\ source \in Seq(Row) /\ done \in Nat
    BY DEF TypeOK, Groups
  <1>2. \A m \in Columns : BatchColumns[m] \in ColumnWriterState /\ SameButFilter(cw[0][m], BatchColumns[m])
    <2> TAKE m \in Columns
    <2>1. SameButFilter(cw[0][m], cw[0][m]) /\ cw[0][m] \in ColumnWriterState
      BY <1>1 DEF SameButFilter, SamePages
    <2> QED BY <2>1, WithBloomFiltersIs DEF BatchColumns
  <1>0. BatchColumns \in [Columns -> ColumnWriterState]
    BY <1>1, WithBloomFiltersIs DEF BatchColumns, WithBloomFilters
  <1>3. job = OnPath("columnar") /\ done < Len(source)
    BY JobFirst DEF ReencodeBatch, ReencodeBatchFails, Running, Control, Paths, SourceFits
  <1>4. BatchEnd \in Nat /\ done < BatchEnd /\ BatchEnd <= Len(source)
    BY <1>1, <1>3, WriterAssumption DEF BatchEnd, Lesser
  <1>5. /\ SubSeq(source, done + 1, BatchEnd) \in Seq(Row)
        /\ SubSeq(source, 1, done) \o SubSeq(source, done + 1, BatchEnd) = SubSeq(source, 1, BatchEnd)
    <2>1. done <= BatchEnd
      BY <1>1, <1>4
    <2> QED BY <1>1, <1>4, <2>1, RowsJoin
  <1>6. \E d : /\ IF ReencodeBatch
                   THEN \/ d = BatchColumn
                        \/ /\ d = FlushColumn(BatchColumn, pos, taken[0])
                           /\ BufferReady(0, NeedsPageBuffer(BatchColumn))
                   ELSE d = FlushColumnFails(BatchColumn, pos, taken[0])
               /\ OnlyGroup(0, [BatchColumns EXCEPT ![pos] = d])
    <2>1. ASSUME NEW d, SetBatchColumn(d)
          PROVE  OnlyGroup(0, [BatchColumns EXCEPT ![pos] = d])
      BY <1>0, <1>1, <2>1 DEF OnlyGroup, SetBatchColumn
    <2>2. CASE ReencodeBatch
      BY <2>1, <2>2 DEF ReencodeBatch, BufferReady
    <2>3. CASE ~ReencodeBatch
      BY <2>1, <2>3 DEF ReencodeBatchFails
    <2> QED BY <2>2, <2>3
  <1> QED BY <1>0, <1>2, <1>3, <1>4, <1>5, <1>6

\* A call of Write gives a chunk to all columns.
FirstColumn(c) == IF resolved THEN c ELSE newColumnBuffer(c)

LEMMA NextChunkIs ==
  ASSUME TypeOK, NEW g \in Groups, NextChunk(g)
  PROVE  \E rows \in Seq(Row) :
           /\ chunk' = [chunk EXCEPT ![g] = rows] /\ col' = [col EXCEPT ![g] = 1]
           /\ ~Generic(g) => cw' = cw
           /\ Generic(g) => OnlyGroup(g, [m \in Columns |-> WriteValues(FirstColumn(cw[g][m]), m, rows)])
  <1> DEFINE rows == SubSeq(todo[g], 1, ChunkLength(g))
  <1>1. cw \in [Groups -> [Columns -> ColumnWriterState]]
    BY DEF TypeOK
  <1>2. rows \in Seq(Row)
    BY ChunkParts DEF NextChunk
  <1>3. /\ chunk' = [chunk EXCEPT ![g] = rows] /\ col' = [col EXCEPT ![g] = 1]
        /\ cw' = IF Generic(g) THEN [cw EXCEPT ![g] = WriteToAllColumns(@, rows)] ELSE cw
    BY DEF NextChunk
  <1> HIDE DEF rows
  <1>4. Generic(g) => OnlyGroup(g, [m \in Columns |-> WriteValues(FirstColumn(cw[g][m]), m, rows)])
    BY <1>1, <1>3 DEF OnlyGroup, WriteToAllColumns, FirstColumn
  <1> QED BY <1>2, <1>3, <1>4

\* A column gets the chunk, and a page may be made.
LEMMA WriteColumnIs ==
  ASSUME TypeOK, NEW g \in Groups, WriteColumn(g)
  PROVE  /\ pc[g] = "write" /\ chunk[g] # << >> /\ col[g] \in Columns
         /\ \E d : /\ \/ d = WithChunk(g, col[g])
                      \/ /\ d = FlushColumn(WithChunk(g, col[g]), col[g], taken[g])
                         /\ BufferReady(g, NeedsPageBuffer(WithChunk(g, col[g])))
                   /\ OnlyColumn(g, col[g], d)
  <1> DEFINE k == col[g]
             c == WithChunk(g, k)
             d == IF BufferBytes(c) >= BufferSize[k] THEN FlushColumn(c, k, taken[g]) ELSE c
  <1>1. k \in Columns
    BY DEF TypeOK
  <1>2. SetColumn(g, k, d) /\ pc[g] = "write" /\ chunk[g] # << >>
    BY DEF WriteColumn
  <1>3. d = c \/ (d = FlushColumn(c, k, taken[g]) /\ BufferReady(g, NeedsPageBuffer(c)))
    BY DEF WriteColumn, BufferReady
  <1> HIDE DEF d, c, k
  <1>4. OnlyColumn(g, k, d)
    BY <1>1, <1>2, SetColumnIs
  <1> QED BY <1>1, <1>2, <1>3, <1>4 DEF c, k

\* The call of Write that installs the column buffers finds no rows.
LEMMA FirstChunk ==
  ASSUME TypeOK, Control, RowInv, NextChunk(0), generic
  PROVE  /\ job = << >> /\ "Write" \in CallKinds
         /\ (~resolved /\ Sound(0)) => \A k \in Columns : Rows(0, k) = << >> /\ Buffered(cw[0][k]) = << >>
  <1>1. pc[0] = "write" /\ (job # << >> => job[1].op = "copyRows")
    BY DEF NextChunk, BetweenChunks
  <1>2. job = << >> \/ job = RowGroupJob(0)
    BY <1>1 DEF Control, CallFits
  <1>3. job = << >>
    BY <1>1, <1>2, JobOps
  <1>4. "Write" \in CallKinds
    BY <1>1 DEF Control, CallFits
  <1>5. ~EndsInFlush /\ ~InReset(0)
    <2>1. /\ RowGroupJob(0) # << >>
          /\ \A p : BeforePath(p) # << >> /\ OnPath(p) # << >>
      BY JobTails, Zenon
    <2> QED BY <1>3, <2>1 DEF EndsInFlush, PathLeft, InReset
  <1>6. ASSUME ~resolved, Sound(0), NEW k \in Columns
        PROVE  Rows(0, k) = << >> /\ Buffered(cw[0][k]) = << >>
    <2>1. Rows(0, k) = << >>
      BY <1>4, <1>5, <1>6 DEF RowInv, FirstWrite
    <2>2. cw[0][k] \in ColumnWriterState
      BY DEF TypeOK, Groups
    <2>3. /\ EncodedRows(cw[0][k]) \in Seq(Row) /\ Buffered(cw[0][k]) \in Seq(Row)
          /\ Len(ColumnRows(cw[0][k])) = Len(EncodedRows(cw[0][k])) + Len(Buffered(cw[0][k]))
      BY <2>2, PageRowsType, BufferedType
    <2>4. Len(ColumnRows(cw[0][k])) = 0
      BY <2>1 DEF Rows
    <2> QED BY <2>1, <2>3, <2>4, EmptySeq
  <1> QED BY <1>3, <1>4, <1>6

\* The column that a step of writeRowGroup works on.
LEMMA GroupColumn ==
  ASSUME TypeOK, job # << >>
  PROVE  Group \in Groups /\ pos \in Columns /\ cw[Group][pos] \in ColumnWriterState
  BY JobType DEF TypeOK

\* A column that is reset has nothing left in its buffers, or never has.
LEMMA ResetFine ==
  ASSUME FallbackOrReset, TypeOK, Control, RowInv, ResetRowGroupColumn,
         DictionaryMaxBytes = 0 \/ phase # "abort"
  PROVE  DictionaryMaxBytes = 0 \/ Buffered(cw[Group][pos]) = << >>
  <1>1. job # << >> /\ phase \in {"reset", "abort"} /\ pos \in Columns
    BY DEF ResetRowGroupColumn, TypeOK
  <1>2. CASE DictionaryMaxBytes # 0
    <2>1. phase = "reset"
      BY <1>1, <1>2
    <2>2. job # ResetJob
      BY <1>2 DEF FallbackOrReset, Control, StatusFits
    <2>3. job[1].op \in {"rowGroup", "reset"}
      BY <1>1 DEF Control, PhaseFits
    <2>4. job[1].op = "rowGroup"
      BY <1>1, <2>2, <2>3, JobFirst DEF Control
    <2> QED BY <1>1, <2>1, <2>4 DEF RowInv, Flushed
  <1> QED BY <1>2

\* The buffers of a row group stay fine, if none is replaced or kept by a reset
\* with rows in it.
LEMMA FineKept ==
  ASSUME TypeOK, Control, [Next]_vars, NEW g \in Groups, \A m \in Columns : Fine(cw[g][m]),
         (NextChunk(g) /\ Generic(g)) =>
           resolved \/ DictionaryMaxBytes = 0 \/ \A m \in Columns : Buffered(cw[g][m]) = << >>,
         (ResetRowGroupColumn /\ Group = g) =>
           DictionaryMaxBytes = 0 \/ Buffered(cw[g][pos]) = << >>
  PROVE  \A k \in Columns : Fine(cw'[g][k])
  <1> SUFFICES ASSUME NEW k \in Columns
               PROVE  Fine(cw'[g][k])
    OBVIOUS
  <1>2. \A m \in Columns : cw[g][m] \in ColumnWriterState /\ Fine(cw[g][m])
    BY DEF TypeOK
  <1>3. (\A h \in Groups : taken[h] \in Nat) /\ << >> \in Seq(Row)
    BY PoolType
  <1>4. CASE UNCHANGED cw
    BY <1>2, <1>4
  <1>5. ASSUME NEW h \in Groups, GroupColumnStep(h)
        PROVE  Fine(cw'[g][k])
    <2>1. CASE NextChunk(h)
      <3>1. PICK rows \in Seq(Row) :
              /\ ~Generic(h) => cw' = cw
              /\ Generic(h) => OnlyGroup(h, [m \in Columns |-> WriteValues(FirstColumn(cw[h][m]), m, rows)])
        BY <2>1, NextChunkIs
      <3>2. CASE ~Generic(h)
        BY <1>2, <3>1, <3>2
      <3>3. CASE Generic(h) /\ h # g
        BY <1>2, <3>1, <3>3 DEF OnlyGroup
      <3>4. CASE Generic(h) /\ h = g
        <4>2. resolved \/ DictionaryMaxBytes = 0 \/ Buffered(cw[g][k]) = << >>
          BY <2>1, <3>4
        <4>3. FirstColumn(cw[g][k]) \in ColumnWriterState /\ Fine(FirstColumn(cw[g][k]))
          BY <1>2, <1>3, <4>2, FineMethods, NewColumnBufferType DEF FirstColumn
        <4>4. cw'[g][k] = WriteValues(FirstColumn(cw[g][k]), k, rows)
          BY <3>1, <3>4 DEF OnlyGroup
        <4> QED BY <1>3, <4>3, <4>4, FineMethods
      <3> QED BY <3>2, <3>3, <3>4
    <2>2. CASE WriteColumn(h)
      <3>1. PICK d : /\ d = WithChunk(h, col[h]) \/ d = FlushColumn(WithChunk(h, col[h]), col[h], taken[h])
                     /\ OnlyColumn(h, col[h], d)
        BY <2>2, WriteColumnIs
      <3>2. CASE h = g /\ k = col[h]
        <4>1. cw'[g][k] = d /\ chunk[g] \in Seq(Row)
          BY <3>1, <3>2 DEF OnlyColumn, TypeOK
        <4>2. WithChunk(g, k) = cw[g][k] \/ WithChunk(g, k) = WriteValues(cw[g][k], k, chunk[g])
          BY DEF WithChunk
        <4>3. cw[g][k] \in ColumnWriterState /\ Fine(cw[g][k])
          BY <1>2
        <4>4. WithChunk(g, k) \in ColumnWriterState /\ Fine(WithChunk(g, k))
          BY <1>3, <4>1, <4>2, <4>3, FineMethods, WriteValuesType
        <4> QED BY <1>3, <3>1, <3>2, <4>1, <4>4, FineMethods
      <3>3. CASE ~(h = g /\ k = col[h])
        BY <1>2, <3>1, <3>3 DEF OnlyColumn
      <3> QED BY <3>2, <3>3
    <2>3. CASE WriteColumnFails(h)
      <3>1. OnlyColumn(h, col[h], FlushColumnFails(WithChunk(h, col[h]), col[h], taken[h]))
        BY <2>3, SetColumnIs DEF WriteColumnFails, TypeOK
      <3>2. CASE h = g /\ k = col[h]
        <4>1. cw'[g][k] = FlushColumnFails(WithChunk(g, k), k, taken[g]) /\ chunk[g] \in Seq(Row)
          BY <3>1, <3>2 DEF OnlyColumn, TypeOK
        <4>2. WithChunk(g, k) = cw[g][k] \/ WithChunk(g, k) = WriteValues(cw[g][k], k, chunk[g])
          BY DEF WithChunk
        <4>3. cw[g][k] \in ColumnWriterState /\ Fine(cw[g][k])
          BY <1>2
        <4>4. WithChunk(g, k) \in ColumnWriterState /\ Fine(WithChunk(g, k))
          BY <1>3, <4>1, <4>2, <4>3, FineMethods, WriteValuesType
        <4> QED BY <1>3, <4>1, <4>4, FineMethods
      <3>3. CASE ~(h = g /\ k = col[h])
        BY <1>2, <3>1, <3>3 DEF OnlyColumn
      <3> QED BY <3>2, <3>3
    <2>4. CASE FlushGroupColumn(h) \/ FlushGroupColumnFails(h)
      <3>1. \/ OnlyColumn(h, col[h], FlushColumn(cw[h][col[h]], col[h], taken[h]))
            \/ OnlyColumn(h, col[h], FlushColumnFails(cw[h][col[h]], col[h], taken[h]))
        BY <2>4, SetColumnIs DEF FlushGroupColumn, FlushGroupColumnFails, TypeOK
      <3>2. CASE h = g /\ k = col[h]
        <4>1. cw'[g][k] = FlushColumn(cw[g][k], k, taken[g]) \/ cw'[g][k] = FlushColumnFails(cw[g][k], k, taken[g])
          BY <3>1, <3>2 DEF OnlyColumn
        <4> QED BY <1>2, <1>3, <4>1, FineMethods
      <3>3. CASE ~(h = g /\ k = col[h])
        BY <1>2, <3>1, <3>3 DEF OnlyColumn
      <3> QED BY <3>2, <3>3
    <2> QED BY <1>5, <2>1, <2>2, <2>3, <2>4 DEF GroupColumnStep
  <1>6. CASE MainColumnStep
    <2>1. CASE FlushRowGroupColumn \/ FlushRowGroupColumnFails \/ FlushFilterPagesFails
               \/ ResetRowGroupColumn
      <3> DEFINE c == cw[Group][pos]
                 f == FlushColumn(c, pos, taken[Group])
      <3>1. job # << >>
        BY <2>1 DEF FlushRowGroupColumn, FlushRowGroupColumnFails, FlushFilterPagesFails,
          ResetRowGroupColumn, InRowGroup, Running
      <3>2. Group \in Groups /\ pos \in Columns
        BY <3>1, GroupColumn
      <3>3. \E d : OnlyColumn(Group, pos, d) /\ \/ d = f \/ d = flushFilterPages(f, pos)
                                                \/ d = FlushColumnFails(c, pos, taken[Group])
                                                \/ d = resetColumn(c) /\ ResetRowGroupColumn
        <4>1. CASE FlushRowGroupColumn
          BY <3>2, <4>1, SetColumnIs DEF FlushRowGroupColumn
        <4>2. CASE FlushRowGroupColumnFails
          BY <3>2, <4>2, SetColumnIs DEF FlushRowGroupColumnFails
        <4>3. CASE ResetRowGroupColumn
          BY <3>2, <4>3, SetColumnIs DEF ResetRowGroupColumn
        <4>4. CASE FlushFilterPagesFails
          BY <3>2, <4>4, SetColumnIs DEF FlushFilterPagesFails
        <4> QED BY <2>1, <4>1, <4>2, <4>3, <4>4
      <3>4. PICK d : OnlyColumn(Group, pos, d) /\ \/ d = f \/ d = flushFilterPages(f, pos)
                                                  \/ d = FlushColumnFails(c, pos, taken[Group])
                                                  \/ d = resetColumn(c) /\ ResetRowGroupColumn
        BY <3>3
      <3>5. CASE g = Group /\ k = pos
        <4>1. c \in ColumnWriterState /\ Fine(c)
          BY <1>2, <3>5
        <4>2. cw'[g][k] = d
          BY <3>4, <3>5 DEF OnlyColumn
        <4>3. ResetRowGroupColumn => DictionaryMaxBytes = 0 \/ Buffered(c) = << >>
          BY <3>5
        <4> HIDE DEF c
        <4>4. f \in ColumnWriterState /\ Fine(f)
          BY <1>3, <3>2, <4>1, FineMethods, FlushColumnType
        <4> HIDE DEF f
        <4>5. /\ Fine(flushFilterPages(f, pos)) /\ Fine(FlushColumnFails(c, pos, taken[Group]))
              /\ ResetRowGroupColumn => Fine(resetColumn(c))
          BY <1>3, <3>2, <4>1, <4>3, <4>4, FineMethods
        <4> QED BY <3>4, <4>2, <4>4, <4>5
      <3>6. CASE ~(g = Group /\ k = pos)
        BY <1>2, <3>4, <3>6 DEF OnlyColumn
      <3> QED BY <3>5, <3>6
    <2>2. 0 \in Groups /\ pos \in Columns /\ source \in Seq(Row)
      BY DEF TypeOK, Groups
    <2>3. CASE LoadCopiedChunk \/ CloseColumn \/ CloseColumnFails
      <3> DEFINE c == cw[0][pos]
      <3>1. \/ OnlyColumn(0, pos, loadCopiedChunk(c, pos, SourceChunk(pos, source, SourcePage, SourceOffset)))
            \/ OnlyColumn(0, pos, FlushColumn(c, pos, taken[0]))
            \/ OnlyColumn(0, pos, FlushColumnFails(c, pos, taken[0]))
        BY <2>2, <2>3, SetColumnIs DEF LoadCopiedChunk, CloseColumn, CloseColumnFails
      <3>2. CASE g = 0 /\ k = pos
        <4>1. c \in ColumnWriterState /\ Fine(c)
          BY <1>2, <3>2
        <4> HIDE DEF c
        <4>2. /\ Fine(loadCopiedChunk(c, pos, SourceChunk(pos, source, SourcePage, SourceOffset)))
              /\ Fine(FlushColumn(c, pos, taken[0])) /\ Fine(FlushColumnFails(c, pos, taken[0]))
          BY <1>3, <2>2, <4>1, FineMethods
        <4> QED BY <3>1, <3>2, <4>2 DEF OnlyColumn
      <3>3. CASE ~(g = 0 /\ k = pos)
        BY <1>2, <3>1, <3>3 DEF OnlyColumn
      <3> QED BY <3>2, <3>3
    <2>4. CASE StartCopyRows
      <3>1. cw' = [cw EXCEPT ![0] = WithBloomFilters(cw[0])]
        BY <2>4 DEF StartCopyRows
      <3>2. CASE g = 0
        BY <1>2, <2>2, <3>1, <3>2, WithBloomFiltersIs, SameButFilterSame DEF TypeOK, Fine
      <3>3. CASE g # 0
        BY <1>2, <3>1, <3>3 DEF TypeOK
      <3> QED BY <3>2, <3>3
    <2>5. CASE ReencodeBatch \/ ReencodeBatchFails
      <3>1. /\ \A m \in Columns : BatchColumns[m] \in ColumnWriterState /\ SameButFilter(cw[0][m], BatchColumns[m])
            /\ BatchColumns \in [Columns -> ColumnWriterState]
            /\ SubSeq(source, done + 1, BatchEnd) \in Seq(Row)
        BY <2>5, ReencodeBatchIs
      <3>2. PICK d : /\ \/ d = BatchColumn \/ d = FlushColumn(BatchColumn, pos, taken[0])
                        \/ d = FlushColumnFails(BatchColumn, pos, taken[0])
                     /\ OnlyGroup(0, [BatchColumns EXCEPT ![pos] = d])
        BY <2>5, ReencodeBatchIs
      <3>3. CASE g # 0
        BY <1>2, <3>2, <3>3 DEF OnlyGroup
      <3>4. CASE g = 0
        <4>1. BatchColumns[k] \in ColumnWriterState /\ Fine(BatchColumns[k])
          BY <1>2, <3>1, <3>4, SameButFilterSame DEF Fine
        <4>2. cw'[g][k] = IF k = pos THEN d ELSE BatchColumns[k]
          BY <2>2, <3>1, <3>2, <3>4 DEF OnlyGroup
        <4>3. CASE k = pos
          <5>1. BatchColumn \in ColumnWriterState /\ Fine(BatchColumn)
            BY <1>3, <2>2, <3>1, <4>1, <4>3, FineMethods, WriteValuesType DEF BatchColumn
          <5>2. /\ Fine(FlushColumn(BatchColumn, pos, taken[0]))
                /\ Fine(FlushColumnFails(BatchColumn, pos, taken[0]))
            BY <1>3, <2>2, <5>1, FineMethods
          <5> QED BY <3>2, <4>2, <4>3, <5>1, <5>2
        <4>4. CASE k # pos
          BY <4>1, <4>2, <4>4
        <4> QED BY <4>3, <4>4
      <3> QED BY <3>3, <3>4
    <2> QED BY <1>6, <2>1, <2>3, <2>4, <2>5 DEF MainColumnStep
  <1> QED BY <1>4, <1>5, <1>6, ColumnsUnchanged

\* Every step keeps them fine.
LEMMA FineStep ==
  ASSUME FallbackOrReset, TypeOK, TypeOK', Control, RowInv, [Next]_vars, NEW g \in Groups
  PROVE  GroupFine(g)'
  <1> SUFFICES ASSUME DictionaryMaxBytes = 0 \/ Sound(g)'
               PROVE  \A k \in Columns : Fine(cw'[g][k])
    BY DEF GroupFine
  <1>1. DictionaryMaxBytes = 0 \/ Sound(g)
    BY SoundStep DEF SoundAgain
  <1>2. \A m \in Columns : Fine(cw[g][m])
    BY <1>1 DEF RowInv, GroupFine
  <1>3. ASSUME NextChunk(g), Generic(g)
        PROVE  resolved \/ DictionaryMaxBytes = 0 \/ \A m \in Columns : Buffered(cw[g][m]) = << >>
    BY <1>1, <1>3, FirstChunk DEF Generic
  <1>4. ASSUME ResetRowGroupColumn, Group = g
        PROVE  DictionaryMaxBytes = 0 \/ Buffered(cw[g][pos]) = << >>
    BY <1>1, <1>4, ResetFine DEF Sound, InAbort, ResetRowGroupColumn
  <1> QED BY <1>2, <1>3, <1>4, FineKept

-----------------------------------------------------------------------------
(* The loops of writeRowGroup. *)

\* While the main thread is inside writeRowGroup or reset, no call works on
\* the row group it is at.
LEMMA GroupStepElsewhere ==
  ASSUME TypeOK, Control, NEW h \in Groups, GroupStep(h), job # << >>, phase # "start"
  PROVE  h # Group /\ h # 0 /\ UNCHANGED <<job, phase, pos>>
  <1>1. \A p : OnPath(p)[1].op = p
    BY JobOps
  <1>2. job # OnPath("copyRows")
    BY <1>1 DEF Control, PhaseFits
  <1>3. ~(pc[0] = "write" /\ job[1].op = "copyRows") /\ ~GroupFull(0)
    BY <1>2, ChunkJob DEF GroupFull, BetweenChunks
  <1>4. pc[h] = "write" \/ pc[h] = "flush"
    BY DEF GroupStep, NextChunk, GroupFull, WriteColumn, WriteColumnFails,
           FlushGroupColumn, FlushGroupColumnFails, BetweenChunks
  <1>5. h # 0
    BY <1>2, <1>3, <1>4 DEF Control, CallFits, GroupStep, NextChunk, GroupFull, WriteColumn,
      WriteColumnFails, FlushGroupColumn, FlushGroupColumnFails, BetweenChunks
  <1>6. h # Group
    BY <1>4, <1>5, JobFirst DEF Control, PhaseFits, CallFits
  <1>7. UNCHANGED <<job, phase, pos>>
    BY <1>5 DEF GroupStep, NextChunk, GroupFull, WriteColumn, WriteColumnFails,
           FlushGroupColumn, FlushGroupColumnFails, Fail, mainVars
  <1> QED BY <1>5, <1>6, <1>7

\* The step of a call on row group h leaves the columns of the others alone.
LEMMA OtherColumns ==
  ASSUME TypeOK, NEW h \in Groups, GroupStep(h), NEW g \in Groups, g # h
  PROVE  cw'[g] = cw[g]
  <1>1. cw' = cw \/ \E f : cw' = [cw EXCEPT ![h] = f]
    <2>1. CASE NextChunk(h)
      BY <2>1 DEF NextChunk
    <2>2. CASE GroupFull(h)
      BY <2>2 DEF GroupFull, rgVars
    <2>3. CASE WriteColumn(h)
      BY <2>3 DEF WriteColumn, SetColumn
    <2>4. CASE WriteColumnFails(h)
      BY <2>4 DEF WriteColumnFails, SetColumn
    <2>5. CASE FlushGroupColumn(h) \/ FlushGroupColumnFails(h)
      BY <2>5 DEF FlushGroupColumn, FlushGroupColumnFails, SetColumn
    <2> QED BY <2>1, <2>2, <2>3, <2>4, <2>5 DEF GroupStep
  <1> QED BY <1>1 DEF TypeOK

\* The row group is sound as long as it is being written.
LEMMA WritingSound ==
  ASSUME Control, job # << >>, phase \in {"flush", "header", "pages", "bloom", "append"}
  PROVE  /\ job[1].op = "rowGroup" /\ Sound(Group) /\ Len(rowGroups) < MaxRowGroups
         /\ ~InReset(Group) /\ ~InAbort(Group)
  <1>1. job[1].op = "rowGroup"
    BY DEF Control, PhaseFits
  <1>2. status = "open" /\ Len(rowGroups) < MaxRowGroups
    BY <1>1 DEF Control, StatusFits, RoomFits
  <1>3. pc[Group] # "failed"
    BY <1>1, JobFirst DEF Control, CallFits
  <1> QED BY <1>1, <1>2, <1>3 DEF Sound, InAbort, InReset

\* The last column of a loop.
LEMMA LastColumn ==
  ASSUME TypeOK
  PROVE  /\ ~(pos < NumColumns) => pos = NumColumns
         /\ pos < NumColumns => \A k \in Columns : k < pos + 1 => k < pos \/ k = pos
         /\ ~(pos < NumColumns) => \A k \in Columns : k < pos \/ k = pos
         /\ pos \in Nat \ {0} /\ NumColumns \in Nat /\ 1 \in Columns /\ NumColumns \in Columns
         /\ \A k \in Columns : k \in Nat \ {0} /\ ~(k < 1)
  BY ColumnAssumption DEF TypeOK, Columns

LEMMA FlushLoopStep ==
  ASSUME TypeOK, Control, RowInv, FlushRowGroupColumn
  PROVE  Blanked' /\ Flushed'
  <1> DEFINE c == cw[Group][pos]
             id == taken[Group]
             f == FlushColumn(c, pos, id)
  <1>1. job # << >> /\ phase = "flush" /\ job' = job /\ job[1].op = "rowGroup"
    BY DEF FlushRowGroupColumn, InRowGroup, Running
  <1>2. Group \in Groups /\ pos \in Columns /\ c \in ColumnWriterState
    BY <1>1, GroupColumn
  <1>3. Fine(c)
    BY <1>1, <1>2, WritingSound DEF RowInv, GroupFine
  <1>4. PICK d : OnlyColumn(Group, pos, d) /\ (d = f \/ d = flushFilterPages(f, pos))
    BY <1>2, SetColumnIs DEF FlushRowGroupColumn
  <1>5. id \in Nat
    BY <1>2, PoolType
  <1>6. NextColumnOr("header") /\ Group' = Group
    BY <1>1 DEF FlushRowGroupColumn, Group
  <1> HIDE DEF c, id
  <1>7. f \in ColumnWriterState /\ Buffered(f) = << >>
    BY <1>2, <1>3, <1>5, FlushColumnRows, FlushColumnType DEF Fine
  <1>8. Buffered(d) = << >>
    BY <1>2, <1>4, <1>7, FilterRows, SameButFilterSame
  <1>9. \A k \in Columns : k < pos => Buffered(cw[Group][k]) = << >>
    BY <1>1 DEF RowInv, Flushed
  <1>10. \A k \in Columns : k < pos \/ k = pos => Buffered(cw'[Group][k]) = << >>
    BY <1>2, <1>4, <1>8, <1>9 DEF OnlyColumn
  <1>11. \/ phase' = "flush" /\ pos' = pos + 1 /\ pos < NumColumns
         \/ phase' = "header" /\ ~(pos < NumColumns)
    BY <1>1, <1>6 DEF NextColumnOr
  <1>12. Blanked'
    BY <1>11 DEF Blanked
  <1>13. CASE phase' = "flush" /\ pos' = pos + 1 /\ pos < NumColumns
    BY <1>10, <1>12, <1>13, <1>6, LastColumn DEF Flushed
  <1>14. CASE phase' = "header" /\ ~(pos < NumColumns)
    BY <1>10, <1>12, <1>14, <1>6, LastColumn DEF Flushed
  <1> QED BY <1>11, <1>13, <1>14

LEMMA ResetLoopStep ==
  ASSUME TypeOK, Control, RowInv, ResetRowGroupColumn
  PROVE  /\ Blanked' /\ Flushed'
         /\ OnlyColumn(Group, pos, resetColumn(cw[Group][pos]))
         /\ Blank(cw'[Group][pos])
         /\ pos = NumColumns => \A k \in Columns : Blank(cw'[Group][k])
         /\ pos < NumColumns => UNCHANGED <<job, phase, pc, status, todo, source>> /\ pos' = pos + 1
         /\ ~(pos < NumColumns) => phase' = "start" /\ pos' = 1
  <1>1. job # << >> /\ phase \in {"reset", "abort"}
    BY DEF ResetRowGroupColumn
  <1>2. Group \in Groups /\ pos \in Columns /\ cw[Group][pos] \in ColumnWriterState
    BY <1>1, GroupColumn
  <1>3. OnlyColumn(Group, pos, resetColumn(cw[Group][pos]))
    BY <1>2, SetColumnIs DEF ResetRowGroupColumn
  <1>4. Blank(cw'[Group][pos])
    BY <1>2, <1>3, ResetColumnRows DEF OnlyColumn
  <1>5. \A k \in Columns : k < pos \/ k = pos => Blank(cw'[Group][k])
    BY <1>1, <1>2, <1>3, <1>4 DEF RowInv, Blanked, OnlyColumn
  <1>6. pos = NumColumns => \A k \in Columns : Blank(cw'[Group][k])
    BY <1>5, LastColumn
  <1>7. /\ pos < NumColumns => UNCHANGED <<job, phase, pc, status, todo, source>> /\ pos' = pos + 1
        /\ ~(pos < NumColumns) => phase' = "start" /\ pos' = 1
    BY DEF ResetRowGroupColumn, NextColumnOr
  <1>8. CASE ~(pos < NumColumns)
    BY <1>3, <1>4, <1>6, <1>7, <1>8 DEF Blanked, Flushed
  <1>9. CASE pos < NumColumns
    <2>1. Group' = Group /\ job' = job /\ phase' = phase /\ pos' = pos + 1
      BY <1>7, <1>9 DEF Group
    <2>2. \A k \in Columns : k < pos' => Blank(cw'[Group'][k])
      BY <1>5, <1>9, <2>1, LastColumn
    <2>3. Blanked'
      BY <2>2 DEF Blanked
    <2>4. ASSUME phase = "reset", job[1].op = "rowGroup", NEW k \in Columns
          PROVE  Buffered(cw'[Group'][k]) = << >>
      BY <1>1, <1>2, <1>3, <1>4, <2>1, <2>4 DEF Blank, Buffered, RowInv, Flushed, OnlyColumn
    <2>5. Flushed'
      BY <1>1, <2>1, <2>4 DEF Flushed
    <2> QED BY <1>3, <1>4, <1>6, <1>7, <2>3, <2>5
  <1> QED BY <1>8, <1>9

\* The loops stand still.
LoopSame ==
  /\ job' = job /\ phase' = phase /\ pos' = pos
  /\ job # << >> => \A k \in Columns : cw'[Group][k] = cw[Group][k]

LEMMA LoopSameKeeps ==
  ASSUME RowInv, LoopSame
  PROVE  Blanked' /\ Flushed'
  BY DEF LoopSame, Group, RowInv, Blanked, Flushed

LEMMA LoopStep ==
  ASSUME TypeOK, Control, RowInv, [Next]_vars
  PROVE  Blanked' /\ Flushed'
  <1>1. CASE job' = << >> \/ phase' = "start" \/ phase' = "put"
    <2>1. Blanked'
      BY <1>1 DEF Blanked
    <2>2. CASE job' = << >>
      BY <2>1, <2>2 DEF Flushed
    <2>3. CASE phase' = "start" \/ phase' = "put"
      BY <2>1, <2>3 DEF Flushed
    <2> QED BY <1>1, <2>2, <2>3
  <1>2. CASE UNCHANGED allButPool
    BY <1>2, LoopSameKeeps DEF LoopSame, allButPool, rgVars, mainVars
  <1>3. CASE ApplicationCall
    <2>1. ASSUME NEW g \in Groups, NEW n, NEW kind, WriteRows(g, n, kind) \/ FlushGroup(g)
          PROVE  Blanked' /\ Flushed'
      BY <2>1, LoopSameKeeps DEF LoopSame, WriteRows, FlushGroup, rgVars, mainVars
    <2>2. ASSUME NEW n, NEW kind, WriteRowGroup(n, kind)
          PROVE  phase' = "start"
      BY <2>2 DEF WriteRowGroup
    <2>3. ASSUME NEW jobs, Call(jobs)
          PROVE  phase' = "start"
      BY <2>3 DEF Call
    <2>4. Reset => phase' = "put"
      BY DEF Reset
    <2> QED BY <1>1, <1>3, <2>1, <2>2, <2>3, <2>4 DEF ApplicationCall, Commit, Flush, Close
  <1>4. ASSUME NEW h \in Groups, GroupStep(h)
        PROVE  Blanked' /\ Flushed'
    <2>1. CASE job = << >> \/ phase = "start"
      BY <1>1, <1>4, <2>1, NoJob DEF GroupStep, NextChunk, GroupFull, WriteColumn, WriteColumnFails,
        FlushGroupColumn, FlushGroupColumnFails, mainVars
    <2>2. CASE job # << >> /\ phase # "start"
      BY <1>4, <2>2, GroupStepElsewhere, OtherColumns, GroupColumn, LoopSameKeeps DEF LoopSame
    <2> QED BY <2>1, <2>2
  <1>5. CASE MainStep
    <2>1. CASE FlushRowGroupColumn
      BY <2>1, FlushLoopStep
    <2>2. CASE ResetRowGroupColumn
      BY <2>2, ResetLoopStep
    <2>3. CASE \/ StartRowGroup \/ FlushRowGroupColumnFails \/ FlushFilterPagesFails \/ WriteRowGroupFails
      BY <2>3, LastColumn DEF StartRowGroup, FlushRowGroupColumnFails, FlushFilterPagesFails,
        WriteRowGroupFails, Blanked,
        Flushed
    <2>4. CASE \/ WriteHeader \/ WriteColumnPages \/ NoBloomFilter \/ DeferBloomFilter \/ WriteBloomFilter
               \/ AppendRowGroup
      <3>1. /\ job # << >> /\ phase \in {"header", "pages", "bloom", "append"}
            /\ UNCHANGED <<cw, job>> /\ phase' \in {"pages", "bloom", "append", "reset"}
            /\ phase' = "reset" => pos' = 1
        BY <2>4 DEF WriteHeader, WriteColumnPages, NoBloomFilter, DeferBloomFilter, WriteBloomFilter,
           AppendRowGroup, InRowGroup, Running, NextColumnOr, rgVars
      <3>2. Group' = Group /\ \A k \in Columns : Buffered(cw[Group][k]) = << >>
        BY <3>1 DEF RowInv, Flushed, Group
      <3>3. \A k \in Columns : ~(k < 1)
        BY LastColumn
      <3> QED BY <3>1, <3>2, <3>3 DEF Blanked, Flushed
    <2>5. CASE DeferredBuffersReturned
      <3>1. CASE phase' = "reset"
        <4>1. /\ job # << >> /\ phase = "put" /\ job[1].op = "reset" /\ UNCHANGED <<job, pos>>
          BY <2>5, <3>1 DEF DeferredBuffersReturned
        <4>2. pos = 1 /\ job[1].op # "rowGroup"
          BY <4>1, JobFirst DEF Control, PhaseFits
        <4>3. \A k \in Columns : ~(k < pos')
          BY <4>1, <4>2, LastColumn
        <4> QED BY <3>1, <4>1, <4>2, <4>3 DEF Blanked, Flushed
      <3>2. CASE phase' = "start"
        BY <1>1, <3>2
      <3> QED BY <2>5, <3>1, <3>2 DEF DeferredBuffersReturned
    <2>6. CASE PutDeferredBuffer
      BY <2>6, LoopSameKeeps DEF LoopSame, PutDeferredBuffer, rgVars, mainVars
    <2>7. CASE \/ SkipEmptyRowGroup \/ TooManyRowGroups \/ CloseColumn \/ CloseColumnFails \/ CloseHeader
               \/ WriteDeferredBloomFilter \/ DeferredBloomFiltersWritten \/ WriteFooter \/ CloseFails
               \/ LoadCopiedChunk \/ StartCopyRows \/ RowsCopied \/ CopyRowsFails
               \/ ReencodeBatch \/ ReencodeBatchFails \/ WriteRowGroupSourceFails
      <3>1. job # << >> /\ (phase = "start" \/ job[1].op \notin {"rowGroup", "reset", "deferred"})
        BY <2>7 DEF SkipEmptyRowGroup, TooManyRowGroups, CloseColumn, CloseColumnFails, CloseHeader,
           WriteDeferredBloomFilter, DeferredBloomFiltersWritten, WriteFooter, CloseFails,
           LoadCopiedChunk, StartCopyRows, RowsCopied, CopyRowsFails, ReencodeBatch, ReencodeBatchFails,
           WriteRowGroupSourceFails,
           InRowGroup, Running
      <3>2. phase = "start"
        BY <3>1 DEF Control, PhaseFits
      <3>3. phase' \in {phase, "put"}
        BY <2>7 DEF SkipEmptyRowGroup, TooManyRowGroups, CloseColumn, CloseColumnFails, CloseHeader,
           WriteDeferredBloomFilter, DeferredBloomFiltersWritten, WriteFooter, CloseFails,
           LoadCopiedChunk, StartCopyRows, RowsCopied, CopyRowsFails, ReencodeBatch, ReencodeBatchFails,
           WriteRowGroupSourceFails,
           mainVars
      <3> QED BY <1>1, <3>2, <3>3
    <2> QED BY <1>5, <2>1, <2>2, <2>3, <2>4, <2>5, <2>6, <2>7 DEF MainStep
  <1> QED BY <1>2, <1>3, <1>4, <1>5, NextCases

-----------------------------------------------------------------------------
(* The steps that change the rows of a row group. *)

Changing(g) ==
  \/ NextChunk(g) /\ Generic(g)
  \/ WriteColumn(g) /\ ~Generic(g)
  \/ ResetRowGroupColumn /\ Group = g
  \/ g = 0 /\ (LoadCopiedChunk \/ ReencodeBatch)

\* The columns of a sound row group are fine.
LEMMA SoundFine ==
  ASSUME TypeOK, RowInv, NEW g \in Groups, Sound(g), NEW k \in Columns
  PROVE  cw[g][k] \in ColumnWriterState /\ Fine(cw[g][k])
  BY DEF TypeOK, RowInv, GroupFine

\* A failed call leaves its row group unsound.
LEMMA FailUnsound ==
  ASSUME TypeOK, NEW g \in Groups, Fail(g)
  PROVE  ~Sound(g)'
  BY DEF Fail, Sound, TypeOK

\* A page fails while a column of the row group is flushed, and the rows of that
\* column are dropped, or its filter fails and the row group is.
Dropping(g) ==
  \/ WriteColumnFails(g) \/ FlushGroupColumnFails(g)
  \/ (FlushRowGroupColumnFails \/ FlushFilterPagesFails) /\ Group = g
  \/ (CloseColumnFails \/ ReencodeBatchFails) /\ g = 0

\* The other steps keep the rows of columns whose buffers are fine.
LEMMA RowsStay ==
  ASSUME TypeOK, Control, [Next]_vars, NEW g \in Groups, \A k \in Columns : Fine(cw[g][k]),
         ~Changing(g), ~Dropping(g)
  PROVE  \A k \in Columns : Rows(g, k)' = Rows(g, k)
  <1> SUFFICES ASSUME NEW k \in Columns
               PROVE  ColumnRows(cw'[g][k]) = ColumnRows(cw[g][k])
    BY DEF Rows
  <1>1. cw[g][k] \in ColumnWriterState /\ BuffersFit(cw[g][k]) /\ PlainFits(cw[g][k])
    BY DEF Fine, TypeOK
  <1>2. taken[g] \in Nat
    BY PoolType
  <1>3. ColumnRows(FlushColumn(cw[g][k], k, taken[g])) = ColumnRows(cw[g][k])
    BY <1>1, <1>2, FlushColumnRows
  <1>4. CASE UNCHANGED cw
    BY <1>4
  <1>5. ASSUME NEW h \in Groups, GroupColumnStep(h)
        PROVE  ColumnRows(cw'[g][k]) = ColumnRows(cw[g][k])
    <2>1. CASE h # g
      BY <1>5, <2>1, OtherColumns DEF GroupColumnStep, GroupStep
    <2>2. CASE h = g
      <3>1. CASE NextChunk(g)
        BY <3>1, NextChunkIs DEF Changing
      <3>2. CASE WriteColumn(g)
        <4>1. Generic(g)
          BY <3>2 DEF Changing
        <4>2. \A m : WithChunk(g, m) = cw[g][m]
          BY <4>1 DEF WithChunk
        <4>3. PICK d : /\ d = WithChunk(g, col[g]) \/ d = FlushColumn(WithChunk(g, col[g]), col[g], taken[g])
                       /\ OnlyColumn(g, col[g], d)
          BY <3>2, WriteColumnIs
        <4> QED BY <1>3, <4>2, <4>3 DEF OnlyColumn
      <3>3. CASE WriteColumnFails(g) \/ FlushGroupColumnFails(g)
        BY <3>3 DEF Dropping
      <3>4. CASE FlushGroupColumn(g)
        <4>1. col[g] \in Columns
          BY DEF TypeOK
        <4>2. OnlyColumn(g, col[g], FlushColumn(cw[g][col[g]], col[g], taken[g]))
          BY <3>4, <4>1, SetColumnIs DEF FlushGroupColumn
        <4> QED BY <1>3, <4>2 DEF OnlyColumn
      <3> QED BY <1>5, <2>2, <3>1, <3>2, <3>3, <3>4 DEF GroupColumnStep
    <2> QED BY <2>1, <2>2
  <1>6. ASSUME MainColumnStep
        PROVE  ColumnRows(cw'[g][k]) = ColumnRows(cw[g][k])
    <2>0. 0 \in Groups /\ pos \in Columns
      BY DEF TypeOK, Groups
    <2>1. CASE FlushRowGroupColumn \/ FlushRowGroupColumnFails \/ FlushFilterPagesFails
               \/ ResetRowGroupColumn
      <3>1. job # << >> /\ Group \in Groups
        BY <2>1, GroupColumn DEF FlushRowGroupColumn, FlushRowGroupColumnFails, FlushFilterPagesFails,
          ResetRowGroupColumn,
          InRowGroup, Running
      <3>2. CASE Group # g \/ k # pos
        BY <2>0, <2>1, <3>1, <3>2, SetColumnIs DEF FlushRowGroupColumn, FlushRowGroupColumnFails,
          FlushFilterPagesFails,
          ResetRowGroupColumn, OnlyColumn
      <3>3. CASE Group = g /\ k = pos /\ FlushRowGroupColumn
        <4> DEFINE f == FlushColumn(cw[g][k], k, taken[g])
        <4>1. cw'[g][k] = f \/ cw'[g][k] = flushFilterPages(f, k)
          BY <3>3, SetColumnIs DEF FlushRowGroupColumn, OnlyColumn
        <4>2. f \in ColumnWriterState
          BY <1>1, <1>2, FlushColumnType
        <4> HIDE DEF f
        <4>3. SameButFilter(f, flushFilterPages(f, k))
          BY <4>2, FilterRows
        <4>4. ColumnRows(flushFilterPages(f, k)) = ColumnRows(f)
          BY <4>3, SameButFilterSame
        <4> QED BY <1>3, <4>1, <4>4 DEF f
      <3>4. CASE Group = g /\ (FlushRowGroupColumnFails \/ FlushFilterPagesFails)
        BY <3>4 DEF Dropping
      <3>5. CASE Group = g /\ ResetRowGroupColumn
        BY <3>5 DEF Changing
      <3> QED BY <2>1, <3>2, <3>3, <3>4, <3>5
    <2>2. CASE LoadCopiedChunk \/ CloseColumn
      <3>1. \E d : OnlyColumn(0, pos, d) /\ (CloseColumn => d = FlushColumn(cw[0][pos], pos, taken[0]))
        BY <2>0, <2>2, SetColumnIs DEF LoadCopiedChunk, CloseColumn
      <3>2. CASE g # 0 \/ k # pos
        BY <3>1, <3>2 DEF OnlyColumn
      <3>3. CASE g = 0 /\ k = pos
        BY <1>3, <2>2, <3>1, <3>3 DEF Changing, OnlyColumn
      <3> QED BY <3>2, <3>3
    <2>3. CASE CloseColumnFails
      BY <2>0, <2>3, SetColumnIs DEF CloseColumnFails, Dropping, OnlyColumn
    <2>4. CASE StartCopyRows
      <3>1. cw' = [cw EXCEPT ![0] = WithBloomFilters(cw[0])]
        BY <2>4 DEF StartCopyRows
      <3>2. CASE g = 0
        BY <2>0, <3>1, <3>2, WithBloomFiltersIs, SameButFilterSame DEF TypeOK
      <3>3. CASE g # 0
        BY <3>1, <3>3 DEF TypeOK
      <3> QED BY <3>2, <3>3
    <2>5. CASE ReencodeBatch \/ ReencodeBatchFails
      BY <2>5, ReencodeBatchIs DEF Changing, Dropping, OnlyGroup
    <2> QED BY <1>6, <2>1, <2>2, <2>3, <2>4, <2>5 DEF MainColumnStep
  <1> QED BY <1>4, <1>5, <1>6, ColumnsUnchanged

\* So do the steps that fail nothing.
LEMMA RowsKept ==
  ASSUME TypeOK, Control, RowInv, [Next]_vars,
         NEW g \in Groups, Sound(g), Sound(g)', ~Changing(g)
  PROVE  \A k \in Columns : Rows(g, k)' = Rows(g, k)
  <1>1. \A k \in Columns : Fine(cw[g][k])
    BY SoundFine
  <1>2. ~(WriteColumnFails(g) \/ FlushGroupColumnFails(g))
    BY FailUnsound DEF WriteColumnFails, FlushGroupColumnFails
  <1>3. ~((FlushRowGroupColumnFails \/ FlushFilterPagesFails) /\ Group = g)
    <2> SUFFICES ASSUME FlushRowGroupColumnFails \/ FlushFilterPagesFails, Group = g
                 PROVE  InAbort(g)'
      BY DEF Sound
    <2>1. job # << >>
      BY DEF FlushRowGroupColumnFails, FlushFilterPagesFails, InRowGroup, Running
    <2> QED BY <2>1 DEF FlushRowGroupColumnFails, FlushFilterPagesFails, InAbort, Group
  <1>4. ~((CloseColumnFails \/ ReencodeBatchFails) /\ g = 0)
    BY DEF CloseColumnFails, ReencodeBatchFails, Sound
  <1> QED BY <1>1, <1>2, <1>3, <1>4, RowsStay DEF Dropping

\* The reset of a row group, and the filling of the columns by WriteRowGroup,
\* go on until the step that ends them.
LEMMA ResetKept ==
  ASSUME TypeOK, Control, [Next]_vars, NEW g \in Groups, InReset(g), ~Changing(g)
  PROVE  InReset(g)'
  <1>1. job # << >> /\ phase = "reset" /\ Group = g /\ job[1].op \in {"rowGroup", "reset"}
    BY DEF InReset, Control, PhaseFits
  <1>2. UNCHANGED <<job, phase>>
    <2>1. CASE UNCHANGED allButPool \/ ApplicationCall
      BY <1>1, <2>1 DEF allButPool, mainVars, ApplicationCall, WriteRows, WriteRowGroup, FlushGroup,
         Commit, Flush, Close, Call, Reset, MainIdle
    <2>2. ASSUME NEW h \in Groups, GroupStep(h)
          PROVE  UNCHANGED <<job, phase>>
      BY <1>1, <2>2, GroupStepElsewhere
    <2>3. CASE MainStep
      <3>1. ~ResetRowGroupColumn
        BY <1>1 DEF Changing
      <3> QED BY <1>1, <2>3, <3>1 DEF MainStep, SkipEmptyRowGroup, TooManyRowGroups, StartRowGroup,
           FlushRowGroupColumn, FlushRowGroupColumnFails, FlushFilterPagesFails, WriteHeader,
           WriteColumnPages, NoBloomFilter,
           DeferBloomFilter, WriteBloomFilter, WriteRowGroupFails, AppendRowGroup, CloseColumn,
           CloseColumnFails, CloseHeader, WriteDeferredBloomFilter, DeferredBloomFiltersWritten,
           PutDeferredBuffer, DeferredBuffersReturned, WriteFooter, CloseFails, LoadCopiedChunk,
           StartCopyRows, RowsCopied, CopyRowsFails, ReencodeBatch, ReencodeBatchFails,
           WriteRowGroupSourceFails, InRowGroup, Running
    <2> QED BY <2>1, <2>2, <2>3, NextCases
  <1> QED BY <1>1, <1>2 DEF InReset, Group

LEMMA PathKept ==
  ASSUME TypeOK, Control, [Next]_vars, OnColumnPath(0), ~Changing(0), Sound(0)'
  PROVE  UNCHANGED <<job, pos, source, done>>
  <1>1. job # << >> /\ job[1].op \in {"copyable", "columnar"} /\ phase = "start"
    <2>1. job # << >> /\ job[1].op \in {"copyable", "columnar"}
      <3>1. \A p : OnPath(p) # << >> /\ OnPath(p)[1].op = p
        BY JobTails, JobOps
      <3> QED BY <3>1 DEF OnColumnPath
    <2> QED BY <2>1 DEF Control, PhaseFits
  <1>2. CASE UNCHANGED allButPool \/ ApplicationCall
    BY <1>1, <1>2 DEF allButPool, mainVars, ApplicationCall, WriteRows, WriteRowGroup, FlushGroup,
       Commit, Flush, Close, Call, Reset, MainIdle
  <1>3. ASSUME NEW h \in Groups, GroupStep(h)
        PROVE  UNCHANGED <<job, pos, source, done>>
    BY <1>1, <1>3, FailUnsound DEF GroupFull, BetweenChunks, TypeOK, Groups, GroupStep, NextChunk,
      WriteColumn, WriteColumnFails, FlushGroupColumn, FlushGroupColumnFails, Fail, mainVars
  <1>4. CASE MainStep
    <2>1. ~LoadCopiedChunk /\ ~ReencodeBatch
      BY DEF Changing
    <2>2. ~WriteRowGroupSourceFails /\ ~ReencodeBatchFails /\ ~CopyRowsFails
      BY <1>1 DEF WriteRowGroupSourceFails, ReencodeBatchFails, CopyRowsFails, Fail, Sound
    <2> QED BY <1>1, <1>4, <2>1, <2>2 DEF MainStep, SkipEmptyRowGroup, TooManyRowGroups, StartRowGroup,
           FlushRowGroupColumn, FlushRowGroupColumnFails, FlushFilterPagesFails, WriteHeader,
           WriteColumnPages, NoBloomFilter,
           DeferBloomFilter, WriteBloomFilter, WriteRowGroupFails, AppendRowGroup, CloseColumn,
           CloseColumnFails, CloseHeader, WriteDeferredBloomFilter, DeferredBloomFiltersWritten,
           PutDeferredBuffer, DeferredBuffersReturned, WriteFooter, CloseFails, ResetRowGroupColumn,
           StartCopyRows, RowsCopied, InRowGroup, Running
  <1> QED BY <1>2, <1>3, <1>4, NextCases

\* The rows of the chunk that a column is to get stay the same.
AheadSame(g) ==
  \/ WriteColumn(g) /\ Generic(g) /\ Generic(g)'
  \/ /\ chunk'[g] = chunk[g]
     /\ \/ chunk[g] = << >>
        \/ col'[g] = col[g] /\ (Generic(g)' <=> Generic(g))

LEMMA ChunkKept ==
  ASSUME TypeOK, Control, [Next]_vars, NEW g \in Groups, Sound(g)', ~Changing(g), ~NextChunk(g)
  PROVE  AheadSame(g)
  <1>0. pc[g] # "write" => chunk[g] = << >>
    BY DEF Control, CallFits
  <1>1. ASSUME UNCHANGED <<chunk, col, generic>>
        PROVE  AheadSame(g)
    BY <1>1 DEF Generic, AheadSame
  <1>2. CASE UNCHANGED allButPool \/ ApplicationCall
    <2>1. ASSUME NEW h \in Groups, NEW n, NEW kind, WriteRows(h, n, kind)
          PROVE  AheadSame(g)
      <3>1. UNCHANGED <<chunk, col>> /\ pc[h] = "idle" /\ (h # 0 => UNCHANGED generic)
        BY <2>1 DEF WriteRows, Idle
      <3>2. CASE g = h
        BY <1>0, <3>1, <3>2 DEF AheadSame
      <3>3. CASE g # h
        BY <3>1, <3>3 DEF Generic, AheadSame
      <3> QED BY <3>2, <3>3
    <2>2. ASSUME NEW h \in Groups, FlushGroup(h)
          PROVE  AheadSame(g)
      <3>1. UNCHANGED <<chunk, generic>> /\ pc[h] = "idle" /\ col' = [col EXCEPT ![h] = 1]
        BY <2>2 DEF FlushGroup, Idle
      <3>2. CASE g = h
        BY <1>0, <3>1, <3>2 DEF AheadSame
      <3>3. CASE g # h
        BY <3>1, <3>3 DEF Generic, TypeOK, AheadSame
      <3> QED BY <3>2, <3>3
    <2>4. ASSUME NEW n, NEW kind, WriteRowGroup(n, kind)
          PROVE  AheadSame(g)
      BY <1>1, <2>4 DEF WriteRowGroup
    <2>5. ASSUME NEW jobs, Call(jobs)
          PROVE  AheadSame(g)
      BY <1>1, <2>5 DEF Call, callVars
    <2>6. CASE UNCHANGED allButPool \/ Reset
      BY <1>1, <2>6 DEF allButPool, callVars, Reset
    <2> QED BY <1>2, <2>1, <2>2, <2>4, <2>5, <2>6 DEF ApplicationCall, Flush, Close, Commit
  <1>3. ASSUME NEW h \in Groups, GroupStep(h)
        PROVE  AheadSame(g)
    <2>1. UNCHANGED generic
      BY <1>3 DEF GroupStep, NextChunk, GroupFull, WriteColumn, WriteColumnFails,
           FlushGroupColumn, FlushGroupColumnFails
    <2>2. CASE h # g
      BY <1>3, <2>1, <2>2 DEF GroupStep, NextChunk, GroupFull, WriteColumn, WriteColumnFails,
        FlushGroupColumn, FlushGroupColumnFails, Fail, TypeOK, Generic, AheadSame
    <2>3. CASE h = g
      <3>1. ~Fail(g)
        BY FailUnsound
      <3>2. CASE GroupFull(g)
        BY <1>1, <3>2 DEF GroupFull
      <3>3. CASE FlushGroupColumn(g)
        BY <1>0, <3>3 DEF FlushGroupColumn, AheadSame
      <3>4. CASE WriteColumn(g)
        BY <2>1, <3>4 DEF Changing, Generic, AheadSame
      <3> QED BY <1>3, <2>3, <3>1, <3>2, <3>3, <3>4 DEF GroupStep, WriteColumnFails, FlushGroupColumnFails
    <2> QED BY <2>2, <2>3
  <1>4. CASE MainStep
    <2>0. CopyRowsFails => AheadSame(g)
      BY FailUnsound DEF CopyRowsFails, Fail, TypeOK, Groups, Generic, AheadSame
    <2>1. UNCHANGED <<chunk, col>> \/ CopyRowsFails
      BY <1>4 DEF MainStep, SkipEmptyRowGroup, TooManyRowGroups, StartRowGroup, FlushRowGroupColumn,
           FlushRowGroupColumnFails, FlushFilterPagesFails, WriteHeader, WriteColumnPages,
           NoBloomFilter, DeferBloomFilter,
           WriteBloomFilter, WriteRowGroupFails, AppendRowGroup, ResetRowGroupColumn, CloseColumn,
           CloseColumnFails, CloseHeader, WriteDeferredBloomFilter, DeferredBloomFiltersWritten,
           PutDeferredBuffer, DeferredBuffersReturned, WriteFooter, CloseFails, LoadCopiedChunk,
           StartCopyRows, RowsCopied, ReencodeBatch, ReencodeBatchFails, WriteRowGroupSourceFails,
           callVars
    <2>2. UNCHANGED generic \/ StartCopyRows
      BY <1>4 DEF MainStep, SkipEmptyRowGroup, TooManyRowGroups, StartRowGroup, FlushRowGroupColumn,
           FlushRowGroupColumnFails, FlushFilterPagesFails, WriteHeader, WriteColumnPages,
           NoBloomFilter, DeferBloomFilter,
           WriteBloomFilter, WriteRowGroupFails, AppendRowGroup, ResetRowGroupColumn, CloseColumn,
           CloseColumnFails, CloseHeader, WriteDeferredBloomFilter, DeferredBloomFiltersWritten,
           PutDeferredBuffer, DeferredBuffersReturned, WriteFooter, CloseFails, LoadCopiedChunk,
           RowsCopied, CopyRowsFails, ReencodeBatch, ReencodeBatchFails, WriteRowGroupSourceFails,
           callVars
    <2>3. CASE StartCopyRows
      <3>1. job # << >> /\ job[1].op = "opaque"
        BY <2>3 DEF StartCopyRows, Running
      <3>2. job # OnPath("copyRows")
        BY <3>1, JobOps
      <3>3. chunk[0] = << >>
        BY <3>1, <3>2 DEF Control, CallFits
      <3>4. g # 0 => (Generic(g)' <=> Generic(g))
        BY DEF Generic
      <3> QED BY <2>0, <2>1, <3>3, <3>4 DEF AheadSame
    <2> QED BY <1>1, <2>0, <2>1, <2>2, <2>3
  <1> QED BY <1>2, <1>3, <1>4, NextCases

LEMMA AheadKept ==
  ASSUME TypeOK, Control, [Next]_vars, NEW g \in Groups, Sound(g)', ~Changing(g), ~NextChunk(g)
  PROVE  \A k \in Columns : Ahead(g, k)' = Ahead(g, k)
  BY ChunkKept DEF Ahead, AheadSame

-----------------------------------------------------------------------------
(* The steps that end a loop or a job. *)

\* A row group that has just been emptied.
LEMMA ResetEnds ==
  ASSUME TypeOK, TypeOK', Control, RowInv, ResetRowGroupColumn, pos = NumColumns
  PROVE  /\ chunk'[Group] = << >> /\ Group \in Groups
         /\ \A k \in Columns : ColumnRows(cw'[Group][k]) = << >> /\ Blank(cw'[Group][k])
  <1>1. job # << >> /\ phase \in {"reset", "abort"} /\ UNCHANGED chunk
    BY DEF ResetRowGroupColumn
  <1>2. Group \in Groups /\ pos \in Columns
    BY <1>1, GroupColumn
  <1>3. \A k \in Columns : Blank(cw'[Group][k])
    BY ResetLoopStep
  <1>4. \A k \in Columns : ColumnRows(cw'[Group][k]) = << >>
    <2>1. \A k \in Columns : cw'[Group][k] \in ColumnWriterState
      BY <1>2 DEF TypeOK
    <2> QED BY <1>3, <2>1, BlankRows
  <1>5. chunk[Group] = << >>
    <2>1. job[1].op \in {"rowGroup", "reset"}
      BY <1>1 DEF Control, PhaseFits
    <2>2. CASE Group = 0
      BY <1>1, <2>1, <2>2, JobOps DEF Control, CallFits
    <2>3. CASE Group # 0
      BY <1>1, <1>2, <2>1, <2>3, JobFirst DEF Control, CallFits
    <2> QED BY <2>2, <2>3
  <1> QED BY <1>1, <1>2, <1>3, <1>4, <1>5

\* A row group that is skipped has no rows in any column.
LEMMA SkippedEmpty ==
  ASSUME TypeOK, Control, RowInv, SkipEmptyRowGroup, Group = 0, Sound(0)
  PROVE  \A k \in Columns : Rows(0, k) = << >>
  <1>1. /\ job # << >> /\ phase = "start" /\ job[1].op = "rowGroup" /\ totalRowCount(cw[0][1]) = 0
        /\ 0 \in Groups /\ 1 \in Columns
    BY LastColumn DEF SkipEmptyRowGroup, InRowGroup, Running, Groups
  <1>2. ~InReset(0) /\ ~OnColumnPath(0) /\ job # OnPath("copyRows")
    BY <1>1, JobOps DEF InReset, OnColumnPath
  <1>3. chunk[0] = << >>
    BY <1>1, <1>2 DEF Control, CallFits
  <1>4. \A k \in Columns : Ahead(0, k) = << >>
    BY <1>3 DEF Ahead
  <1>5. \A k \in Columns : Rows(0, k) \in Seq(Row)
    BY <1>1, PageRowsType DEF TypeOK, Rows
  <1>6. \A k \in Columns : Rows(0, k) = Rows(0, 1)
    BY <1>1, <1>2, <1>4, <1>5 DEF RowInv, GroupAligned
  <1>7. Rows(0, 1) = << >>
    <2>1. cw[0][1] \in ColumnWriterState /\ BuffersFit(cw[0][1])
      BY <1>1, SoundFine DEF Fine
    <2>2. /\ EncodedRows(cw[0][1]) \in Seq(Row) /\ Buffered(cw[0][1]) \in Seq(Row)
          /\ Len(Rows(0, 1)) = Len(EncodedRows(cw[0][1])) + Len(Buffered(cw[0][1]))
          /\ cw[0][1].numRows = Len(EncodedRows(cw[0][1]))
      BY <2>1, PageRowsType, BufferedType DEF Rows, BuffersFit
    <2>3. Len(Rows(0, 1)) = 0
      BY <1>1, <2>2 DEF totalRowCount
    <2> QED BY <1>1, <1>5, <2>3, EmptySeq
  <1> QED BY <1>6, <1>7

\* A step of WriteRowGroup that fills a column, and what follows it.
TakenTo(n) ==
  \A k \in Columns :
    Rows(0, k)' = IF k < pos THEN source ELSE IF k = pos THEN SubSeq(source, 1, n) ELSE << >>

LEMMA SourceTaken ==
  ASSUME TypeOK, Control, RowInv, Sound(0), LoadCopiedChunk \/ ReencodeBatch
  PROVE  /\ OnColumnPath(0) /\ phase = "start" /\ UNCHANGED <<chunk, phase>>
         /\ \/ /\ UNCHANGED <<job, pos, source>> /\ done' \in Nat
               /\ TakenTo(done')
            \/ /\ UNCHANGED <<job, source>> /\ done' = 0 /\ pos < NumColumns /\ pos' = pos + 1
               /\ TakenTo(Len(source))
            \/ /\ pos = NumColumns /\ job' = RowGroupJob(0)
               /\ TakenTo(Len(source))
  <1>1. /\ 0 \in Groups /\ pos \in Columns /\ source \in Seq(Row) /\ done \in Nat
        /\ job # << >> /\ UNCHANGED <<chunk, phase>>
    BY DEF TypeOK, Groups, LoadCopiedChunk, ReencodeBatch, Running, callVars
  <1>2. job = OnPath("copyable") \/ job = OnPath("columnar")
    BY <1>1, JobFirst DEF Control, Paths, LoadCopiedChunk, ReencodeBatch, Running
  <1>3. OnColumnPath(0) /\ phase = "start" /\ Tail(job) = RowGroupJob(0)
    <2>1. \A p : Tail(OnPath(p)) = RowGroupJob(0) /\ OnPath(p)[1].op = p
      BY JobTails, JobOps
    <2>2. job[1].op = "copyable" \/ job[1].op = "columnar"
      BY <1>2, <2>1
    <2>3. Tail(job) = RowGroupJob(0)
      BY <1>2, <2>1
    <2>4. phase = "start"
      BY <1>1, <2>2 DEF Control, PhaseFits
    <2> QED BY <1>2, <2>3, <2>4 DEF OnColumnPath
  <1>4. \A k \in Columns : ColumnRows(cw[0][k]) = Taken(k)
    BY <1>3 DEF RowInv, FromSource, Rows
  <1>5. cw[0][pos] \in ColumnWriterState /\ BuffersFit(cw[0][pos])
    BY <1>1, SoundFine DEF Fine
  <1>6. ~(pos < NumColumns) => pos = NumColumns
    BY LastColumn
  <1>7. SubSeq(source, 1, Len(source)) = source /\ SubSeq(source, 1, 0) = << >>
    BY <1>1
  <1>8. CASE LoadCopiedChunk
    <2> DEFINE d == loadCopiedChunk(cw[0][pos], pos, SourceChunk(pos, source, SourcePage, SourceOffset))
    <2>1. OnlyColumn(0, pos, d)
      BY <1>1, <1>8, SetColumnIs DEF LoadCopiedChunk
    <2>2. done = 0
      BY <1>1, <1>8, JobFirst DEF LoadCopiedChunk, Running, Control, Paths, SourceFits
    <2>3. ColumnRows(cw[0][pos]) = << >>
      <3>1. ~(pos < pos)
        BY LastColumn
      <3> QED BY <1>1, <1>4, <1>7, <2>2, <3>1 DEF Taken
    <2>4. Buffered(cw[0][pos]) = << >>
      <3>1. /\ EncodedRows(cw[0][pos]) \in Seq(Row) /\ Buffered(cw[0][pos]) \in Seq(Row)
            /\ Len(ColumnRows(cw[0][pos])) = Len(EncodedRows(cw[0][pos])) + Len(Buffered(cw[0][pos]))
        BY <1>5, PageRowsType, BufferedType
      <3>2. Len(ColumnRows(cw[0][pos])) = 0
        BY <2>3
      <3>3. Len(Buffered(cw[0][pos])) = 0
        BY <3>1, <3>2
      <3> QED BY <3>1, <3>3, EmptySeq
    <2>5. SourcePage \in Nat \ {0} /\ SourceOffset \in Nat \ {0}
      BY WriterAssumption DEF SourceOffset
    <2>6. ColumnRows(d) = source
      BY <1>1, <1>5, <2>4, <2>5, CopiedRows
    <2> HIDE DEF d
    <2>7. TakenTo(Len(source))
      <3> SUFFICES ASSUME NEW k \in Columns
                   PROVE  ColumnRows(cw'[0][k]) =
                            IF k < pos THEN source ELSE IF k = pos THEN SubSeq(source, 1, Len(source)) ELSE << >>
        BY DEF TakenTo, Rows
      <3>1. CASE k = pos
        BY <1>1, <1>7, <2>1, <2>6, <3>1, LastColumn DEF OnlyColumn
      <3>2. CASE k # pos
        BY <1>1, <1>4, <2>1, <3>2 DEF OnlyColumn, Taken
      <3> QED BY <3>1, <3>2
    <2>8. /\ pos < NumColumns => UNCHANGED <<job, source, done>> /\ pos' = pos + 1
          /\ ~(pos < NumColumns) => job' = Tail(job)
      BY <1>8 DEF LoadCopiedChunk
    <2> QED BY <1>1, <1>3, <1>6, <2>2, <2>7, <2>8
  <1>9. CASE ReencodeBatch
    <2>1. /\ BatchColumns \in [Columns -> ColumnWriterState]
          /\ \A m \in Columns : BatchColumns[m] \in ColumnWriterState /\ SameButFilter(cw[0][m], BatchColumns[m])
          /\ done < BatchEnd /\ BatchEnd <= Len(source) /\ BatchEnd \in Nat
          /\ SubSeq(source, done + 1, BatchEnd) \in Seq(Row)
          /\ SubSeq(source, 1, done) \o SubSeq(source, done + 1, BatchEnd) = SubSeq(source, 1, BatchEnd)
      BY <1>9, ReencodeBatchIs
    <2>2. PICK d : /\ d = BatchColumn \/ d = FlushColumn(BatchColumn, pos, taken[0])
                   /\ OnlyGroup(0, [BatchColumns EXCEPT ![pos] = d])
      BY <1>9, ReencodeBatchIs
    <2>3. \A m \in Columns : ColumnRows(BatchColumns[m]) = ColumnRows(cw[0][m])
      BY <2>1, SameButFilterSame
    <2>4. BuffersFit(BatchColumns[pos]) /\ PlainFits(BatchColumns[pos])
      BY <1>1, <2>1, SoundFine, SameButFilterSame DEF Fine
    <2>5. /\ BatchColumn \in ColumnWriterState /\ BuffersFit(BatchColumn) /\ PlainFits(BatchColumn)
          /\ ColumnRows(BatchColumn) = ColumnRows(BatchColumns[pos]) \o SubSeq(source, done + 1, BatchEnd)
      BY <1>1, <2>1, <2>4, WriteValuesRows, WriteValuesType DEF BatchColumn
    <2>6. ColumnRows(d) = ColumnRows(BatchColumn)
      <3>1. ColumnRows(FlushColumn(BatchColumn, pos, taken[0])) = ColumnRows(BatchColumn)
        BY <1>1, <2>5, PoolType, FlushColumnRows
      <3> QED BY <2>2, <3>1
    <2>7. ColumnRows(cw[0][pos]) = SubSeq(source, 1, done)
      <3>1. ~(pos < pos)
        BY LastColumn
      <3> QED BY <1>1, <1>4, <3>1 DEF Taken
    <2>8. ColumnRows(d) = SubSeq(source, 1, BatchEnd)
      BY <1>1, <2>1, <2>3, <2>5, <2>6, <2>7
    <2>9. TakenTo(BatchEnd)
      <3> SUFFICES ASSUME NEW k \in Columns
                   PROVE  ColumnRows(cw'[0][k]) =
                            IF k < pos THEN source ELSE IF k = pos THEN SubSeq(source, 1, BatchEnd) ELSE << >>
        BY DEF TakenTo, Rows
      <3>1. cw'[0][k] = IF k = pos THEN d ELSE BatchColumns[k]
        BY <1>1, <2>1, <2>2 DEF OnlyGroup
      <3>2. CASE k = pos
        BY <2>8, <3>1, <3>2, LastColumn
      <3>3. CASE k # pos
        BY <1>4, <2>3, <3>1, <3>3 DEF Taken
      <3> QED BY <3>2, <3>3
    <2>10. /\ BatchEnd < Len(source) => done' = BatchEnd /\ UNCHANGED <<job, pos, source>>
           /\ ~(BatchEnd < Len(source)) =>
                /\ done' = 0
                /\ pos < NumColumns => UNCHANGED <<job, source>> /\ pos' = pos + 1
                /\ ~(pos < NumColumns) => job' = Tail(job)
      BY <1>9 DEF ReencodeBatch, ReencodeBatchFails, BatchEnd
    <2>11. ~(BatchEnd < Len(source)) => BatchEnd = Len(source)
      BY <1>1, <2>1
    <2>12. CASE BatchEnd < Len(source)
      BY <1>1, <1>3, <2>1, <2>9, <2>10, <2>12
    <2>13. CASE ~(BatchEnd < Len(source))
      BY <1>1, <1>3, <1>6, <2>1, <2>9, <2>10, <2>11, <2>13
    <2> QED BY <2>12, <2>13
  <1> QED BY <1>8, <1>9

-----------------------------------------------------------------------------
(* All columns have the same rows. *)

\* A chunk of Write is in all columns at once.
LEMMA GenericChunk ==
  ASSUME TypeOK, NextChunk(0), Generic(0), \A k \in Columns : Fine(cw[0][k]),
         ~resolved => \A k \in Columns : Buffered(cw[0][k]) = << >>
  PROVE  \E rows \in Seq(Row) :
           /\ chunk' = [chunk EXCEPT ![0] = rows]
           /\ \A k \in Columns : Rows(0, k) \in Seq(Row) /\ Rows(0, k)' = Rows(0, k) \o rows
  <1>0. 0 \in Groups
    BY DEF Groups
  <1>3. PICK rows \in Seq(Row) :
           /\ chunk' = [chunk EXCEPT ![0] = rows]
           /\ OnlyGroup(0, [m \in Columns |-> WriteValues(FirstColumn(cw[0][m]), m, rows)])
    BY <1>0, NextChunkIs
  <1>4. \A k \in Columns : Rows(0, k) \in Seq(Row) /\ Rows(0, k)' = Rows(0, k) \o rows
    <2> SUFFICES ASSUME NEW k \in Columns
                 PROVE  /\ ColumnRows(cw[0][k]) \in Seq(Row)
                        /\ ColumnRows(cw'[0][k]) = ColumnRows(cw[0][k]) \o rows
      BY DEF Rows
    <2> DEFINE c == cw[0][k]
    <2>1. c \in ColumnWriterState /\ BuffersFit(c)
      BY <1>0 DEF Fine, TypeOK
    <2>2. cw'[0][k] = WriteValues(FirstColumn(c), k, rows)
      BY <1>3 DEF OnlyGroup
    <2>3. ~resolved => Buffered(c) = << >>
      OBVIOUS
    <2> HIDE DEF c
    <2>4. /\ FirstColumn(c) \in ColumnWriterState /\ BuffersFit(FirstColumn(c))
          /\ ColumnRows(FirstColumn(c)) = ColumnRows(c)
      BY <2>1, <2>3, NewColumnBufferRows, NewColumnBufferType DEF FirstColumn
    <2>5. ColumnRows(cw'[0][k]) = ColumnRows(c) \o rows
      BY <1>3, <2>2, <2>4, WriteValuesRows
    <2>6. ColumnRows(c) \in Seq(Row)
      BY <2>1, PageRowsType
    <2> QED BY <2>5, <2>6 DEF c
  <1> QED BY <1>3, <1>4

\* So it is when no rows were refused.
LEMMA GenericChunkRows ==
  ASSUME TypeOK, Control, RowInv, NEW g \in Groups, Sound(g), NextChunk(g), Generic(g)
  PROVE  /\ g = 0 /\ job = << >> /\ generic /\ resolved' /\ UNCHANGED generic
         /\ ~resolved => \A k \in Columns : Rows(0, k) = << >>
         /\ \E rows \in Seq(Row) :
              /\ chunk' = [chunk EXCEPT ![g] = rows]
              /\ \A k \in Columns : /\ Rows(0, k) \in Seq(Row) /\ Rows(0, k)' = Rows(0, k) \o rows
                                    /\ Len(Rows(0, k)') = Len(Rows(0, k)) + Len(rows)
  <1>1. g = 0 /\ generic
    BY DEF Generic
  <1>2. job = << >> /\ (~resolved => \A k \in Columns : Rows(0, k) = << >> /\ Buffered(cw[0][k]) = << >>)
    BY <1>1, FirstChunk
  <1>3. \A k \in Columns : Fine(cw[0][k])
    BY <1>1, SoundFine
  <1>4. PICK rows \in Seq(Row) :
          /\ chunk' = [chunk EXCEPT ![0] = rows]
          /\ \A k \in Columns : Rows(0, k) \in Seq(Row) /\ Rows(0, k)' = Rows(0, k) \o rows
    BY <1>1, <1>2, <1>3, GenericChunk
  <1>5. \A k \in Columns : Len(Rows(0, k)') = Len(Rows(0, k)) + Len(rows)
    BY <1>4
  <1>6. resolved' /\ UNCHANGED generic
    BY DEF NextChunk
  <1> QED BY <1>1, <1>2, <1>4, <1>5, <1>6

\* A chunk of WriteRows moves from the call to one column after the other.
LEMMA ColumnChunkRows ==
  ASSUME TypeOK, NEW g \in Groups, \A k \in Columns : Fine(cw[g][k]), WriteColumn(g), ~Generic(g)
  PROVE  /\ \A k \in Columns : Rows(g, k)' = IF k = col[g] THEN Rows(g, k) \o chunk[g] ELSE Rows(g, k)
         /\ \A k \in Columns : /\ Rows(g, k)' \o Ahead(g, k)' = Rows(g, k) \o Ahead(g, k)
                               /\ Rows(g, k) \in Seq(Row)
         /\ UNCHANGED <<job, phase, rowGroups>> /\ col[g] \in Columns /\ chunk[g] \in Seq(Row)
  <1> DEFINE m == col[g]
             c == WriteValues(cw[g][m], m, chunk[g])
  <1>1. m \in Columns /\ chunk[g] \in Seq(Row)
    BY DEF TypeOK
  <1>2. cw[g][m] \in ColumnWriterState /\ BuffersFit(cw[g][m]) /\ PlainFits(cw[g][m])
    BY <1>1 DEF Fine, TypeOK
  <1>3. PICK d : (d = c \/ d = FlushColumn(c, m, taken[g])) /\ OnlyColumn(g, m, d)
    BY WriteColumnIs DEF WithChunk
  <1>4. ColumnRows(d) = Rows(g, m) \o chunk[g]
    <2>1. /\ c \in ColumnWriterState /\ BuffersFit(c) /\ PlainFits(c)
          /\ ColumnRows(c) = Rows(g, m) \o chunk[g]
      BY <1>1, <1>2, WriteValuesRows, WriteValuesType DEF Rows
    <2> HIDE DEF c
    <2>2. ColumnRows(FlushColumn(c, m, taken[g])) = ColumnRows(c)
      BY <1>1, <2>1, PoolType, FlushColumnRows
    <2> QED BY <1>3, <2>1, <2>2
  <1>5. \A k \in Columns : Rows(g, k)' = IF k = m THEN Rows(g, k) \o chunk[g] ELSE Rows(g, k)
    <2> SUFFICES ASSUME NEW k \in Columns
                 PROVE  ColumnRows(cw'[g][k]) = IF k = m THEN Rows(g, k) \o chunk[g] ELSE Rows(g, k)
      BY DEF Rows
    <2>1. CASE k = m
      BY <1>3, <1>4, <2>1 DEF OnlyColumn
    <2>2. CASE k # m
      BY <1>3, <2>2 DEF OnlyColumn, Rows
    <2> QED BY <2>1, <2>2
  <1>6. \A k \in Columns : cw[g][k] \in ColumnWriterState
    BY DEF TypeOK
  <1>7. \A k \in Columns : Rows(g, k) \in Seq(Row)
    BY <1>6, PageRowsType DEF Rows
  <1>8. /\ UNCHANGED <<job, phase, rowGroups, generic>>
        /\ IF m < NumColumns THEN col' = [col EXCEPT ![g] = m + 1] /\ UNCHANGED chunk
                             ELSE chunk' = [chunk EXCEPT ![g] = << >>] /\ UNCHANGED col
    BY DEF WriteColumn, mainVars, outVars
  <1>9. /\ m \in Nat /\ NumColumns \in Nat
        /\ \A k \in Columns : k \in Nat /\ k <= NumColumns
    BY <1>1, ColumnAssumption DEF Columns
  <1>10. Ahead(g, m) = chunk[g] /\ ~Generic(g)'
    BY <1>8, <1>9 DEF Ahead, Generic
  <1>11. \A k \in Columns : k = m => Ahead(g, k)' = << >>
    BY <1>8, <1>9 DEF TypeOK, Ahead
  <1>12. \A k \in Columns : k # m => Ahead(g, k)' = Ahead(g, k)
    BY <1>10, <1>8, <1>9 DEF TypeOK, Ahead
  <1> HIDE DEF m
  <1>13. \A k \in Columns : Rows(g, k)' \o Ahead(g, k)' = Rows(g, k) \o Ahead(g, k)
    <2> SUFFICES ASSUME NEW k \in Columns
                 PROVE  Rows(g, k)' \o Ahead(g, k)' = Rows(g, k) \o Ahead(g, k)
      OBVIOUS
    <2>1. \A s, t \in Seq(Row) : (s \o t) \o << >> = s \o t
      OBVIOUS
    <2>2. CASE k = m
      BY <1>1, <1>5, <1>7, <1>10, <1>11, <2>1, <2>2
    <2>3. CASE k # m
      BY <1>5, <1>12, <2>3
    <2> QED BY <2>2, <2>3
  <1> QED BY <1>1, <1>5, <1>7, <1>8, <1>13 DEF m

LEMMA AlignedStep ==
  ASSUME FallbackOrReset, TypeOK, TypeOK', Control, RowInv, [Next]_vars, NEW g \in Groups
  PROVE  GroupAligned(g)'
  <1> SUFFICES ASSUME Sound(g)', ~InReset(g)', ~OnColumnPath(g)', NEW k \in Columns
               PROVE  Rows(g, k)' \o Ahead(g, k)' = Rows(g, 1)' \o Ahead(g, 1)'
    BY DEF GroupAligned
  <1>1. 1 \in Columns
    BY LastColumn
  <1>2. ASSUME ResetRowGroupColumn, Group = g
        PROVE  Rows(g, k)' \o Ahead(g, k)' = Rows(g, 1)' \o Ahead(g, 1)'
    <2>1. CASE pos < NumColumns
      BY <1>2, <2>1, ResetLoopStep DEF ResetRowGroupColumn, InReset, InAbort, Group, Sound
    <2>2. CASE ~(pos < NumColumns)
      <3>1. pos = NumColumns
        BY <2>2, LastColumn
      <3>2. chunk'[g] = << >> /\ \A m \in Columns : ColumnRows(cw'[g][m]) = << >>
        BY <1>2, <3>1, ResetEnds
      <3>3. \A m \in Columns : Rows(g, m)' = << >> /\ Ahead(g, m)' = << >>
        BY <3>2 DEF Rows, Ahead
      <3> QED BY <1>1, <3>3
    <2> QED BY <2>1, <2>2
  <1>3. CASE ~Sound(g)
    BY <1>2, <1>3, SoundStep DEF SoundAgain, InAbort
  <1>4. CASE Sound(g) /\ NextChunk(g) /\ Generic(g)
    <2>1. /\ g = 0 /\ job = << >> /\ generic /\ generic'
          /\ ~resolved => \A m \in Columns : Rows(0, m) = << >>
      BY <1>4, GenericChunkRows
    <2>2. PICK rows \in Seq(Row) : \A m \in Columns : Rows(0, m) \in Seq(Row) /\ Rows(0, m)' = Rows(0, m) \o rows
      BY <1>4, GenericChunkRows
    <2>3. \A m \in Columns : Ahead(0, m) = << >> /\ Ahead(0, m)' = << >>
      BY <2>1 DEF Ahead, Generic
    <2>4. Rows(0, k) = Rows(0, 1)
      <3>1. ~OnColumnPath(0) /\ ~InReset(0)
        BY <2>1, JobTails DEF OnColumnPath, InReset
      <3>2. Rows(0, k) \o Ahead(0, k) = Rows(0, 1) \o Ahead(0, 1)
        BY <1>4, <2>1, <3>1 DEF RowInv, GroupAligned
      <3>3. \A s \in Seq(Row) : s \o << >> = s
        OBVIOUS
      <3> QED BY <1>1, <2>2, <2>3, <3>2, <3>3
    <2>5. Rows(0, k)' = Rows(0, 1)'
      BY <1>1, <2>2, <2>4
    <2> QED BY <1>1, <2>1, <2>3, <2>5
  <1>5. CASE Sound(g) /\ WriteColumn(g) /\ ~Generic(g)
    <2>1. /\ \A m \in Columns : Rows(g, m)' \o Ahead(g, m)' = Rows(g, m) \o Ahead(g, m)
          /\ UNCHANGED <<job, phase>>
      BY <1>5, SoundFine, ColumnChunkRows
    <2>2. ~InReset(g) /\ ~OnColumnPath(g)
      BY <2>1 DEF InReset, OnColumnPath, Group
    <2>3. Rows(g, k) \o Ahead(g, k) = Rows(g, 1) \o Ahead(g, 1)
      BY <1>5, <2>2 DEF RowInv, GroupAligned
    <2> QED BY <1>1, <2>1, <2>3
  <1>6. CASE Sound(g) /\ g = 0 /\ (LoadCopiedChunk \/ ReencodeBatch)
    <2>1. /\ OnColumnPath(0) /\ UNCHANGED chunk
          /\ job' = job \/ (TakenTo(Len(source)) /\ pos = NumColumns)
      BY <1>6, SourceTaken
    <2>2. TakenTo(Len(source)) /\ pos = NumColumns
      BY <1>6, <2>1 DEF OnColumnPath
    <2>3. \A m \in Columns : Rows(0, m)' = source
      <3>1. SubSeq(source, 1, Len(source)) = source
        BY DEF TypeOK
      <3>2. \A m \in Columns : m < pos \/ m = pos
        BY <2>2, LastColumn
      <3> QED BY <2>2, <3>1, <3>2 DEF TakenTo
    <2>4. chunk[0] = << >>
      <3>1. job # << >> /\ job # OnPath("copyRows")
        <4>1. \A p : OnPath(p) # << >> /\ OnPath(p)[1].op = p
          BY JobTails, JobOps
        <4>2. job # << >> /\ (job[1].op = "copyable" \/ job[1].op = "columnar")
          BY <2>1, <4>1 DEF OnColumnPath
        <4>3. job # OnPath("copyRows")
          BY <4>1, <4>2
        <4> QED BY <4>2, <4>3
      <3> QED BY <3>1 DEF Control, CallFits
    <2>5. \A m \in Columns : Ahead(0, m)' = << >>
      BY <2>1, <2>4 DEF Ahead
    <2> QED BY <1>1, <1>6, <2>3, <2>5
  <1>7. CASE Sound(g) /\ ~Changing(g)
    <2>1. \A m \in Columns : Rows(g, m)' = Rows(g, m)
      BY <1>7, RowsKept
    <2>2. ~InReset(g)
      BY <1>7, ResetKept
    <2>3. ~OnColumnPath(g)
      BY <1>7, PathKept DEF OnColumnPath
    <2>4. Rows(g, k) \o Ahead(g, k) = Rows(g, 1) \o Ahead(g, 1)
      BY <1>7, <2>2, <2>3 DEF RowInv, GroupAligned
    <2>5. CASE NextChunk(g)
      <3>1. ~Generic(g)
        BY <1>7, <2>5 DEF Changing
      <3>2. PICK rows \in Seq(Row) : chunk' = [chunk EXCEPT ![g] = rows] /\ col' = [col EXCEPT ![g] = 1]
        BY <2>5, NextChunkIs
      <3>3. chunk[g] = << >> /\ ~Generic(g)'
        BY <2>5, <3>1 DEF NextChunk, BetweenChunks, Generic
      <3>4. \A m \in Columns : 1 <= m
        BY DEF Columns
      <3>5. \A m \in Columns : Ahead(g, m) = << >>
        BY <3>3 DEF Ahead
      <3>6. \A m \in Columns : Ahead(g, m)' = rows
        BY <3>2, <3>3, <3>4 DEF TypeOK, Ahead
      <3>7. \A m \in Columns : Rows(g, m) \in Seq(Row)
        BY PageRowsType DEF TypeOK, Rows
      <3>8. \A s \in Seq(Row) : s \o << >> = s
        OBVIOUS
      <3>9. Rows(g, k) = Rows(g, 1)
        BY <1>1, <2>4, <3>5, <3>7, <3>8
      <3> QED BY <1>1, <2>1, <3>6, <3>9
    <2>6. CASE ~NextChunk(g)
      BY <1>1, <1>7, <2>1, <2>4, <2>6, AheadKept
    <2> QED BY <2>5, <2>6
  <1> QED BY <1>2, <1>3, <1>4, <1>5, <1>6, <1>7 DEF Changing

-----------------------------------------------------------------------------
(* The steps between two jobs. *)

\* The last step of writeRowGroup on a row group, but for its failures.
RowGroupDone ==
  \/ SkipEmptyRowGroup
  \/ ResetRowGroupColumn /\ phase = "reset" /\ pos = NumColumns

LEMMA JobMoves ==
  ASSUME TypeOK, Control, [Next]_vars
  PROVE  \/ job' = job
         \/ job = << >> /\ job'[1].op \in {"rowGroup", "closeColumns", "reset"}
         \/ job' = << >> /\ (TooManyRowGroups \/ Running("footer"))
         \/ status' = "failed"
         \/ job = OnPath("copyRows") /\ job' = BeforePath("copyRows")
         \/ job = OnPath("opaque") /\ job' = OnPath("copyRows")
         \/ NextJob /\ (job[1].op = "rowGroup" => RowGroupDone)
  <1>1. CASE UNCHANGED allButPool
    BY <1>1 DEF allButPool, mainVars
  <1>2. CASE ApplicationCall
    <2>1. ASSUME NEW h, NEW n, NEW kind, WriteRows(h, n, kind)
          PROVE  job' = job
      BY <2>1 DEF WriteRows, mainVars
    <2>2. ASSUME NEW h, FlushGroup(h)
          PROVE  job' = job
      BY <2>2 DEF FlushGroup, mainVars
    <2>3. ASSUME NEW n, NEW kind, WriteRowGroup(n, kind)
          PROVE  job = << >> /\ job'[1].op = "rowGroup"
      <3>1. PICK p : job' = BeforePath(p)
        BY <2>3 DEF WriteRowGroup, AfterFlush, BeforePath
      <3> QED BY <2>3, <3>1, JobOps DEF WriteRowGroup, MainIdle
    <2>4. CASE Flush
      BY <2>4, JobOps DEF Flush, Call, MainIdle, RowGroupJob
    <2>5. ASSUME NEW h, Commit(h)
          PROVE  job = << >> /\ job'[1].op = "rowGroup"
      BY <2>5, JobOps DEF Commit, Call, MainIdle, CommitJob
    <2>6. CASE Close
      BY <2>6, JobOps DEF Close, Call, MainIdle, CloseJob
    <2>7. CASE Reset
      BY <2>7, JobOps DEF Reset, ResetJob
    <2> QED BY <1>2, <2>1, <2>2, <2>3, <2>4, <2>5, <2>6, <2>7 DEF ApplicationCall
  <1>3. ASSUME NEW h \in Groups, GroupStep(h)
        PROVE  \/ job' = job \/ status' = "failed"
               \/ job = << >> /\ job'[1].op = "rowGroup"
               \/ job = OnPath("copyRows") /\ job' = BeforePath("copyRows")
    BY <1>3, JobOps, GroupFullJob DEF GroupStep, NextChunk, GroupFull, WriteColumn,
      WriteColumnFails, FlushGroupColumn, FlushGroupColumnFails, Fail, mainVars
  <1>4. CASE MainStep
    <2>1. \/ job' = job \/ status' = "failed" \/ TooManyRowGroups \/ WriteFooter \/ StartCopyRows
          \/ /\ job # << >> /\ job' = Tail(job)
             /\ job[1].op = "rowGroup" => RowGroupDone
      <3>1. CASE ResetRowGroupColumn
        BY <3>1, LastColumn DEF TypeOK, ResetRowGroupColumn, RowGroupDone
      <3>2. CASE ~ResetRowGroupColumn
        <4>1. (job # << >> /\ phase = "put") => job[1].op # "rowGroup"
          BY DEF Control, PhaseFits
        <4> QED BY <1>4, <3>2, <4>1 DEF MainStep, SkipEmptyRowGroup, StartRowGroup,
             FlushRowGroupColumn, FlushRowGroupColumnFails, FlushFilterPagesFails, WriteHeader,
             WriteColumnPages, NoBloomFilter,
             DeferBloomFilter, WriteBloomFilter, WriteRowGroupFails, AppendRowGroup, CloseColumn,
             CloseColumnFails, CloseHeader, WriteDeferredBloomFilter, DeferredBloomFiltersWritten,
             PutDeferredBuffer, DeferredBuffersReturned, CloseFails, LoadCopiedChunk,
             RowsCopied, CopyRowsFails, Fail, ReencodeBatch, ReencodeBatchFails,
             WriteRowGroupSourceFails, InRowGroup, Running, RowGroupDone, mainVars
      <3> QED BY <3>1, <3>2
    <2>2. TooManyRowGroups => job' = << >>
      BY DEF TooManyRowGroups, AbortCall
    <2>3. WriteFooter => job' = << >> /\ Running("footer")
      BY DEF WriteFooter
    <2>4. job # << >> /\ job' = Tail(job) => NextJob
      BY NextJobIs DEF Control
    <2> QED BY <2>1, <2>2, <2>3, <2>4, StartCopyRowsJob
  <1> QED BY <1>1, <1>2, <1>3, <1>4, NextCases

\* WriteRowGroup starts to fill the columns when the flush before it is done.
LEMMA PathBegins ==
  ASSUME TypeOK, Control, Control', [Next]_vars, OnColumnPath(0)', ~OnColumnPath(0)
  PROVE  RowGroupDone /\ Group = 0 /\ \E p \in Paths : job = BeforePath(p)
  <1>1. PICK p \in {"copyable", "columnar"} : job' = OnPath(p)
    BY DEF OnColumnPath
  <1>2. /\ job' # << >> /\ job'[1].op = p /\ BeforePath(p)[1].op = "rowGroup" /\ BeforePath(p)[1].group = 0
        /\ p \in Paths
    BY <1>1, JobTails, JobOps DEF Paths
  <1>3. job' # job
    BY <1>1 DEF OnColumnPath
  <1>4. job'[1].op \notin {"rowGroup", "closeColumns", "reset"}
    BY <1>2
  <1>5. status' # "failed"
    BY <1>2 DEF Control, StatusFits
  <1>6. job' # BeforePath("copyRows") /\ job' # OnPath("copyRows")
    BY <1>2, JobOps
  <1>7. NextJob /\ (job[1].op = "rowGroup" => RowGroupDone)
    BY <1>2, <1>3, <1>4, <1>5, <1>6, JobMoves
  <1>8. job = BeforePath(p)
    BY <1>1, <1>2, <1>7, JobOps, JobsDiffer DEF NextJob
  <1> QED BY <1>2, <1>7, <1>8 DEF Group

\* The flush at the end of a job is left when the row group is empty.
LEMMA EndsKept ==
  ASSUME TypeOK, Control, [Next]_vars, EndsInFlush, ~EndsInFlush', Sound(0), Sound(0)',
         "Write" \in CallKinds, ~Changing(0)
  PROVE  SkipEmptyRowGroup /\ Group = 0
  <1>1. /\ job # << >> /\ job[1].op \in Paths \cup {"copyRows", "rowGroup"}
        /\ job[1].op = "rowGroup" => job[1].group = 0
    <2>1. /\ RowGroupJob(0) # << >> /\ RowGroupJob(0)[1].op = "rowGroup" /\ RowGroupJob(0)[1].group = 0
          /\ \A p : BeforePath(p) # << >> /\ BeforePath(p)[1].op = "rowGroup" /\ BeforePath(p)[1].group = 0
          /\ \A p : OnPath(p) # << >> /\ OnPath(p)[1].op = p
      <3>1. /\ RowGroupJob(0) # << >> /\ RowGroupJob(0)[1] = OnRowGroup(0)
            /\ \A p : BeforePath(p) # << >> /\ BeforePath(p)[1] = OnRowGroup(0)
            /\ \A p : OnPath(p) # << >> /\ OnPath(p)[1] = OnWriter(p)
        BY JobTails, Zenon
      <3> QED BY <3>1, JobFields
    <2>2. "rowGroup" \notin Paths \cup {"copyRows"}
      BY DEF Paths
    <2> QED BY <2>1, <2>2 DEF EndsInFlush, PathLeft
  <1>2. job' # job
    BY DEF EndsInFlush, PathLeft
  <1>3. ~TooManyRowGroups
    BY WriterAssumption DEF Sound, TooManyRowGroups
  <1>4. ~Running("footer")
    BY <1>1 DEF Running, Paths
  <1>5. status' # "failed"
    BY DEF Sound
  <1>6. job' # BeforePath("copyRows") /\ job' # OnPath("copyRows")
    BY DEF EndsInFlush, PathLeft
  <1>7. NextJob /\ (job[1].op = "rowGroup" => RowGroupDone)
    BY <1>1, <1>2, <1>3, <1>4, <1>5, <1>6, JobMoves
  <1>8. job = RowGroupJob(0)
    <2>2. CASE \E p \in Paths \cup {"copyRows"} : job = BeforePath(p) \/ job = OnPath(p)
      <3>1. PICK p \in Paths \cup {"copyRows"} : job = BeforePath(p) \/ job = OnPath(p)
        BY <2>2
      <3>2. job' = Tail(job) \/ job' = OnPath(p) \/ job' = RowGroupJob(0)
        <4>1. /\ \A g : RowGroupJob(g) # BeforePath(p) /\ RowGroupJob(g) # OnPath(p)
              /\ \A g : CommitJob(g) # BeforePath(p) /\ CommitJob(g) # OnPath(p)
              /\ \A j \in {<< >>, CloseJob, CloseJob2, CloseJob3, CloseJob4, CloseJob5, DeferredJob, ResetJob} :
                   j # BeforePath(p) /\ j # OnPath(p)
          BY JobsDiffer, Zenon
        <4>2. \A q : /\ (BeforePath(q) = BeforePath(p) => q = p) /\ (OnPath(q) = OnPath(p) => q = p)
                     /\ BeforePath(q) # OnPath(p) /\ BeforePath(p) # OnPath(q)
          BY JobsDiffer, Zenon
        <4>3. CASE job = BeforePath(p)
          BY <1>7, <4>1, <4>2, <4>3 DEF NextJob
        <4>4. CASE job = OnPath(p)
          BY <1>7, <4>1, <4>2, <4>4 DEF NextJob
        <4> QED BY <3>1, <4>3, <4>4
      <3>3. Tail(job) = OnPath(p) \/ Tail(job) = RowGroupJob(0)
        <4>1. Tail(BeforePath(p)) = OnPath(p) /\ Tail(OnPath(p)) = RowGroupJob(0)
          BY JobTails, Zenon
        <4> QED BY <3>1, <4>1
      <3> QED BY <3>2, <3>3 DEF EndsInFlush, PathLeft
    <2> QED BY <2>2 DEF EndsInFlush, PathLeft
  <1>9. RowGroupDone /\ Group = 0
    BY <1>1, <1>7, <1>8, JobOps DEF Group
  <1>10. ~ResetRowGroupColumn
    BY <1>9 DEF Changing
  <1> QED BY <1>9, <1>10 DEF RowGroupDone

\* WriteRowGroup fills the columns in order.
LEMMA FromSourceStep ==
  ASSUME FallbackOrReset, TypeOK, TypeOK', Control, Control', RowInv, [Next]_vars
  PROVE  FromSource'
  <1> SUFFICES ASSUME Sound(0)', OnColumnPath(0)', NEW k \in Columns
               PROVE  Rows(0, k)' = Taken(k)'
    BY DEF FromSource
  <1>0. /\ 0 \in Groups /\ pos \in Columns /\ pos' \in Columns /\ source' \in Seq(Row)
        /\ k \in Nat /\ pos \in Nat /\ pos' \in Nat
    BY ColumnAssumption DEF TypeOK, Groups, Columns
  <1>1. /\ SubSeq(source', 1, Len(source')) = source' /\ SubSeq(source', 1, 0) = << >>
    BY <1>0
  <1>2. Sound(0)
    <2>1. phase' = "start"
      <3>1. \A p : OnPath(p) # << >> /\ OnPath(p)[1].op = p
        BY JobTails, JobOps
      <3>2. job' # << >> /\ job'[1].op \in {"copyable", "columnar"}
        BY <3>1 DEF OnColumnPath
      <3> QED BY <3>2 DEF Control, PhaseFits
    <2>2. ~SoundAgain(0)
      BY <2>1 DEF SoundAgain, InReset
    <2> QED BY <1>0, <2>2, SoundStep
  <1>3. CASE OnColumnPath(0)
    <2>1. /\ job # << >> /\ job[1].op \in {"copyable", "columnar"} /\ phase = "start" /\ chunk[0] = << >>
      <3>1. \A p : OnPath(p) # << >> /\ OnPath(p)[1].op = p
        BY JobTails, JobOps
      <3>2. job # << >> /\ job[1].op \in {"copyable", "columnar"}
        BY <1>3, <3>1 DEF OnColumnPath
      <3>3. job # OnPath("copyRows")
        BY <3>1, <3>2
      <3> QED BY <3>2, <3>3 DEF Control, PhaseFits, CallFits
    <2>2. CASE ~Changing(0)
      <3>1. UNCHANGED <<job, pos, source, done>>
        BY <1>3, <2>2, PathKept
      <3>2. Rows(0, k)' = Rows(0, k)
        BY <1>0, <1>2, <2>2, RowsKept
      <3>3. Rows(0, k) = Taken(k)
        BY <1>2, <1>3 DEF RowInv, FromSource
      <3> QED BY <3>1, <3>2, <3>3 DEF Taken
    <2>3. CASE LoadCopiedChunk \/ ReencodeBatch
      <3>1. job' # RowGroupJob(0)
        BY JobsDiffer DEF Paths, OnColumnPath
      <3>2. CASE UNCHANGED <<job, pos, source>> /\ TakenTo(done')
        BY <3>2 DEF TakenTo, Taken
      <3>3. CASE UNCHANGED <<job, source>> /\ done' = 0 /\ pos' = pos + 1 /\ TakenTo(Len(source))
        <4>1. Rows(0, k)' = IF k < pos THEN source ELSE IF k = pos THEN SubSeq(source, 1, Len(source)) ELSE << >>
          BY <3>3 DEF TakenTo
        <4>2. k < pos' <=> k < pos \/ k = pos
          BY <1>0, <3>3
        <4>3. Taken(k)' = IF k < pos' THEN source' ELSE IF k = pos' THEN SubSeq(source', 1, done') ELSE << >>
          BY DEF Taken
        <4> QED BY <1>1, <3>3, <4>1, <4>2, <4>3
      <3> QED BY <1>2, <2>3, <3>1, <3>2, <3>3, SourceTaken
    <2>4. Changing(0) => LoadCopiedChunk \/ ReencodeBatch
      BY <2>1 DEF Changing, NextChunk, BetweenChunks, WriteColumn, ResetRowGroupColumn
    <2> QED BY <2>2, <2>3, <2>4
  <1>4. CASE ~OnColumnPath(0)
    <2>1. RowGroupDone /\ Group = 0 /\ \E p \in Paths : job = BeforePath(p)
      BY <1>4, PathBegins
    <2>2. done = 0 /\ (phase = "start" => pos = 1)
      BY <2>1 DEF Control, SourceFits
    <2>3. done' = 0 /\ pos' = 1 /\ Rows(0, k)' = << >>
      BY <1>2, <2>1, <2>2, SkippedEmpty, ColumnAssumption, ResetEnds DEF SkipEmptyRowGroup,
        InRowGroup, rgVars, Rows, ResetRowGroupColumn, NextColumnOr, RowGroupDone
    <2>4. Taken(k)' = << >>
      BY <1>0, <1>1, <2>3, ColumnAssumption DEF Columns, Taken
    <2> QED BY <2>3, <2>4
  <1> QED BY <1>3, <1>4

\* Before the first call of Write there are no rows in the buffers it replaces.
LEMMA FirstWriteStep ==
  ASSUME FallbackOrReset, OneKindOfWrite, TypeOK, TypeOK', Control, Control', RowInv, [Next]_vars
  PROVE  FirstWrite'
  <1> SUFFICES ASSUME "Write" \in CallKinds, ~resolved', Sound(0)', ~InReset(0)', ~EndsInFlush',
                      NEW k \in Columns
               PROVE  Rows(0, k)' = << >>
    BY DEF FirstWrite
  <1>0. 0 \in Groups
    BY DEF Groups
  <1>1. Sound(0)
    BY <1>0, SoundStep DEF SoundAgain
  <1>2. CASE Changing(0)
    <2>1. ~(NextChunk(0) /\ Generic(0))
      BY DEF NextChunk
    <2>2. ~(WriteColumn(0) /\ ~Generic(0))
      <3> SUFFICES ASSUME WriteColumn(0), ~Generic(0)
                   PROVE  FALSE
        OBVIOUS
      <3>1. pc[0] = "write" /\ chunk[0] # << >> /\ ~generic /\ UNCHANGED job
        BY DEF WriteColumn, Generic, mainVars
      <3>2. job = << >> \/ job = OnPath("copyRows")
        BY <3>1 DEF Control, CallFits
      <3>3. job = << >> => FALSE
        BY <3>1 DEF Control, CallFits, OneKindOfWrite
      <3>4. job = OnPath("copyRows") => EndsInFlush'
        BY <3>1 DEF EndsInFlush, PathLeft
      <3> QED BY <3>2, <3>3, <3>4
    <2>3. CASE ResetRowGroupColumn /\ Group = 0
      BY <2>3, LastColumn, ResetEnds DEF ResetRowGroupColumn, NextColumnOr, InReset, InAbort, Group,
        Sound, TypeOK, Rows
    <2>4. CASE LoadCopiedChunk \/ ReencodeBatch
      BY <1>1, <2>4, SourceTaken DEF EndsInFlush, PathLeft, OnColumnPath, Paths
    <2> QED BY <1>2, <2>1, <2>2, <2>3, <2>4 DEF Changing
  <1>3. CASE ~Changing(0)
    <2>1. Rows(0, k)' = Rows(0, k)
      BY <1>0, <1>1, <1>3, RowsKept
    <2>2. ~InReset(0)
      BY <1>0, <1>3, ResetKept
    <2>3. CASE EndsInFlush
      BY <1>1, <1>3, <2>1, <2>3, EndsKept, SkippedEmpty
    <2>4. CASE ~EndsInFlush
      <3>1. ~resolved
        <4>1. resolved' = resolved \/ \E g \in Groups : resolved' = (resolved \/ Generic(g))
          BY NextCases DEF ApplicationCall, WriteRows, WriteRowGroup, FlushGroup, Commit, Flush, Close,
            Reset, Call,
             callVars, allButPool, MainStep, SkipEmptyRowGroup, TooManyRowGroups, StartRowGroup,
             FlushRowGroupColumn,
             FlushRowGroupColumnFails, FlushFilterPagesFails, WriteHeader, WriteColumnPages,
             NoBloomFilter, DeferBloomFilter,
             WriteBloomFilter, WriteRowGroupFails, AppendRowGroup, ResetRowGroupColumn, CloseColumn,
             CloseColumnFails, CloseHeader, WriteDeferredBloomFilter, DeferredBloomFiltersWritten,
             PutDeferredBuffer, DeferredBuffersReturned, WriteFooter, CloseFails, LoadCopiedChunk,
             StartCopyRows, RowsCopied, CopyRowsFails, ReencodeBatch, ReencodeBatchFails,
             WriteRowGroupSourceFails,
             GroupStep, NextChunk, GroupFull, WriteColumn, WriteColumnFails,
             FlushGroupColumn, FlushGroupColumnFails
        <4> QED BY <4>1
      <3> QED BY <1>1, <2>1, <2>2, <2>4, <3>1 DEF RowInv, FirstWrite
    <2> QED BY <2>3, <2>4
  <1> QED BY <1>2, <1>3

\* Nothing has been written.
LEMMA RowInvInit ==
  ASSUME Init
  PROVE  RowInv
  <1>1. TypeOK /\ job = << >>
    BY TypeInit DEF Init
  <1>2. \A g \in Groups, k \in Columns : cw[g][k] = NewColumnWriter
    BY DEF Init
  <1>5. 0 \in Groups /\ 1 \in Columns
    BY ColumnAssumption DEF Groups, Columns
  <1>3. NewColumnWriter \in ColumnWriterState /\ Blank(NewColumnWriter)
    <2>1. NewColumnWriter \in ColumnWriterState
      BY ResetColumnType, Zenon
    <2>2. Blank(NewColumnWriter)
      BY ResetColumnRows, Zenon
    <2> QED BY <2>1, <2>2
  <1>4. Fine(NewColumnWriter) /\ ColumnRows(NewColumnWriter) = << >>
    BY <1>3, <1>5, BlankRows, ResetColumnRows DEF PlainFits, Fine
  <1>6. \A g \in Groups, k \in Columns : Rows(g, k) = << >> /\ Ahead(g, k) = << >>
    BY <1>2, <1>4 DEF Rows, Ahead, Init
  <1>7. \A g \in Groups : GroupFine(g) /\ GroupAligned(g)
    BY <1>2, <1>4, <1>5, <1>6 DEF GroupFine, GroupAligned
  <1>8. Blanked /\ Flushed
    BY <1>1 DEF Blanked, Flushed
  <1>9. FromSource
    <2>1. \A p : OnPath(p) # << >>
      BY JobTails, Zenon
    <2> QED BY <1>1, <2>1 DEF FromSource, OnColumnPath
  <1>10. FirstWrite
    BY <1>5, <1>6 DEF FirstWrite
  <1> QED BY <1>7, <1>8, <1>9, <1>10 DEF RowInv

LEMMA RowInvStep ==
  ASSUME FallbackOrReset, OneKindOfWrite, TypeOK, TypeOK', Control, Control', RowInv, [Next]_vars
  PROVE  RowInv'
  <1>1. \A g \in Groups : GroupFine(g)'
    BY FineStep
  <1>2. \A g \in Groups : GroupAligned(g)'
    BY AlignedStep
  <1>3. Blanked' /\ Flushed'
    BY LoopStep
  <1>4. FromSource' /\ FirstWrite'
    BY FromSourceStep, FirstWriteStep
  <1> QED BY <1>1, <1>2, <1>3, <1>4 DEF RowInv

-----------------------------------------------------------------------------
(* How many rows a row group has. *)

\* Rows of a chunk of Write: they are in the columns, but not counted yet.
Uncounted(g) == IF Generic(g) THEN Len(chunk[g]) ELSE 0

\* The last column to get a chunk has the rows that the row group counts.
Counted(g) == Len(Rows(g, NumColumns)) = numRows[g] + Uncounted(g)

\* WriteRowGroup has brought rows, which are not counted, to the columns.
Staged ==
  /\ OnColumnPath(0) \/ job = RowGroupJob(0)
  /\ pc[0] = "idle" /\ numRows[0] = 0
  /\ Len(Rows(0, NumColumns)) <= MaxRowsPerRowGroup

\* Nothing failed on the row group, and it is not refused.
Clear(g) == Sound(g) /\ ~InReset(g) /\ (g = 0 => Len(rowGroups) < MaxRowGroups)

GroupCounted(g) ==
  Clear(g) => IF OnColumnPath(g) THEN Staged ELSE Counted(g) \/ (g = 0 /\ Staged)

\* The row group and the chunk keep to their limits.
Limits ==
  \A g \in Groups : /\ numRows[g] + Len(chunk[g]) <= MaxRowsPerRowGroup
                    /\ Len(chunk[g]) <= maxRowsPerWrite

CountInv == Limits /\ \A g \in Groups : GroupCounted(g)

\* The jobs of the column-oriented paths.
LEMMA ColumnPathJob ==
  ASSUME NEW j, j = OnPath("copyable") \/ j = OnPath("columnar")
  PROVE  /\ j # << >> /\ j[1].op \in {"copyable", "columnar"}
         /\ j # RowGroupJob(0) /\ j # OnPath("copyRows") /\ j # BeforePath("copyRows")
  <1>1. PICK p \in {"copyable", "columnar"} : j = OnPath(p)
    OBVIOUS
  <1>2. j # << >> /\ j[1].op = p
    BY <1>1, JobTails, JobOps
  <1>3. RowGroupJob(0)[1].op = "rowGroup" /\ BeforePath("copyRows")[1].op = "rowGroup"
        /\ OnPath("copyRows")[1].op = "copyRows"
    BY JobOps
  <1> QED BY <1>2, <1>3

\* No call is in progress then.
LEMMA ColumnPathIdle ==
  ASSUME Control, OnColumnPath(0)
  PROVE  pc[0] = "idle" /\ chunk[0] = << >>
  BY ColumnPathJob DEF Control, CallFits, OnColumnPath

\* Row groups are only added, until Reset.
LEMMA RoomStep ==
  ASSUME TypeOK, Control, [Next]_vars
  PROVE  Len(rowGroups) <= Len(rowGroups') \/ InReset(0)'
  <1>0. Len(rowGroups) \in Nat
    BY DEF TypeOK
  <1>1. CASE UNCHANGED rowGroups
    BY <1>0, <1>1
  <1>2. CASE AppendRowGroup
    <2>1. PICK r : rowGroups' = Append(rowGroups, r)
      BY <1>2 DEF AppendRowGroup
    <2>2. Len(rowGroups') = Len(rowGroups) + 1
      BY <2>1 DEF TypeOK
    <2> QED BY <1>0, <2>2
  <1>3. CASE WriteDeferredBloomFilter
    BY <1>0, <1>3 DEF WriteDeferredBloomFilter, TypeOK
  <1>4. CASE DeferredBuffersReturned
    BY <1>1, <1>4, JobFirst DEF DeferredBuffersReturned, Control, Group, InReset
  <1>5. UNCHANGED rowGroups \/ AppendRowGroup \/ WriteDeferredBloomFilter \/ DeferredBuffersReturned
    BY NextCases DEF ApplicationCall, WriteRows, WriteRowGroup, FlushGroup, Commit, Flush, Close, Reset,
      Call,
       allButPool, MainStep, SkipEmptyRowGroup, TooManyRowGroups, StartRowGroup, FlushRowGroupColumn,
       FlushRowGroupColumnFails, FlushFilterPagesFails, WriteHeader, WriteColumnPages, NoBloomFilter,
       DeferBloomFilter,
       WriteBloomFilter, WriteRowGroupFails, ResetRowGroupColumn, CloseColumn,
       CloseColumnFails, CloseHeader, DeferredBloomFiltersWritten,
       PutDeferredBuffer, WriteFooter, CloseFails, LoadCopiedChunk,
       StartCopyRows, RowsCopied, CopyRowsFails, ReencodeBatch, ReencodeBatchFails,
       WriteRowGroupSourceFails,
       GroupStep, NextChunk, GroupFull, WriteColumn, WriteColumnFails,
       FlushGroupColumn, FlushGroupColumnFails, outVars
  <1> QED BY <1>1, <1>2, <1>3, <1>4, <1>5

\* A row group becomes clear only when it is empty.
LEMMA ClearStep ==
  ASSUME FallbackOrReset, TypeOK, TypeOK', Control, [Next]_vars, NEW g \in Groups, Clear(g)'
  PROVE  Clear(g) \/ (ResetRowGroupColumn /\ pos = NumColumns /\ Group = g)
  <1>1. Sound(g)' /\ ~InReset(g)'
    BY DEF Clear
  <1>2. CASE Sound(g)
    <2>1. g = 0 => Len(rowGroups) < MaxRowGroups
      <3>1. Len(rowGroups) \in Nat /\ Len(rowGroups') \in Nat /\ MaxRowGroups \in Nat
        <4>1. rowGroups \in Seq(RowGroup) /\ rowGroups' \in Seq(RowGroup)
          BY DEF TypeOK
        <4> QED BY <4>1, WriterAssumption
      <3>2. g = 0 => ~InReset(0)' /\ Len(rowGroups') < MaxRowGroups
        BY <1>1 DEF Clear
      <3> QED BY <3>1, <3>2, RoomStep
    <2>2. CASE InReset(g)
      <3>1. Changing(g)
        BY <1>1, <2>2, ResetKept
      <3>2. phase = "reset" /\ job # << >> /\ job[1].op \in {"rowGroup", "reset"} /\ Group = g
        BY <2>2 DEF InReset, Control, PhaseFits
      <3>3. ResetRowGroupColumn
        <4>1. ~NextChunk(g) /\ ~WriteColumn(g)
          <5>1. chunk[g] = << >> /\ ~(g = 0 /\ job[1].op = "copyRows")
            <6>1. g = 0 => chunk[0] = << >>
              BY <3>2, JobOps DEF Control, CallFits
            <6>2. g # 0 => job = RowGroupJob(g)
              BY <3>2, JobFirst DEF Control
            <6>3. g # 0 => pc[g] = "idle"
              BY <6>2 DEF Control, CallFits
            <6> QED BY <3>2, <6>1, <6>3 DEF Control, CallFits
          <5>2. g # 0 => pc[g] = "idle"
            BY <3>2, JobFirst DEF Control, CallFits
          <5>3. ~NextChunk(g)
            BY <3>2, <5>1, <5>2 DEF NextChunk, BetweenChunks
          <5> QED BY <5>1, <5>3 DEF WriteColumn
        <4>2. ~LoadCopiedChunk /\ ~ReencodeBatch
          BY <3>2 DEF LoadCopiedChunk, ReencodeBatch, Running
        <4> QED BY <3>1, <4>1, <4>2 DEF Changing
      <3>4. pos = NumColumns
        BY <1>1, <3>2, <3>3, LastColumn DEF ResetRowGroupColumn, NextColumnOr, InReset, Group
      <3> QED BY <3>2, <3>3, <3>4
    <2> QED BY <1>2, <2>1, <2>2 DEF Clear
  <1>3. CASE ~Sound(g)
    BY <1>1, <1>3, SoundStep DEF SoundAgain, InAbort
  <1> QED BY <1>2, <1>3

\* The other steps do not count rows.
LEMMA CountKept ==
  ASSUME TypeOK, Control, [Next]_vars, NEW g \in Groups, Sound(g)',
         ~Changing(g), ~NextChunk(g), ~WriteColumn(g)
  PROVE  numRows'[g] = numRows[g] /\ Uncounted(g)' = Uncounted(g)
  <1>1. Uncounted(g)' = Uncounted(g)
    BY ChunkKept DEF AheadSame, Uncounted
  <1>2. \/ UNCHANGED numRows
        \/ \E h \in Groups : WriteColumn(h) \/ WriteColumnFails(h)
        \/ ResetRowGroupColumn
    BY NextCases DEF ApplicationCall, WriteRows, WriteRowGroup, FlushGroup, Commit, Flush, Close, Reset,
      Call,
       allButPool, MainStep, SkipEmptyRowGroup, TooManyRowGroups, StartRowGroup, FlushRowGroupColumn,
       FlushRowGroupColumnFails, FlushFilterPagesFails, WriteHeader, WriteColumnPages, NoBloomFilter,
       DeferBloomFilter,
       WriteBloomFilter, WriteRowGroupFails, AppendRowGroup, CloseColumn,
       CloseColumnFails, CloseHeader, WriteDeferredBloomFilter, DeferredBloomFiltersWritten,
       PutDeferredBuffer, DeferredBuffersReturned, WriteFooter, CloseFails, LoadCopiedChunk,
       StartCopyRows, RowsCopied, CopyRowsFails, ReencodeBatch, ReencodeBatchFails,
       WriteRowGroupSourceFails,
       GroupStep, NextChunk, GroupFull, FlushGroupColumn, FlushGroupColumnFails, rgVars
  <1>3. ASSUME NEW h \in Groups, WriteColumn(h) \/ WriteColumnFails(h)
        PROVE  numRows'[g] = numRows[g]
    BY <1>3, FailUnsound DEF WriteColumnFails, WriteColumn, TypeOK
  <1>4. CASE ResetRowGroupColumn
    BY <1>1, <1>4 DEF Changing, ResetRowGroupColumn, ResetNumRows, TypeOK
  <1> QED BY <1>1, <1>2, <1>3, <1>4

\* Only CopyRows starts a call on the current row group inside a job.
LEMMA JobIdle ==
  ASSUME TypeOK, Control, [Next]_vars, job # << >>, pc[0] = "idle"
  PROVE  pc'[0] = "idle" \/ StartCopyRows
  <1>0. pc \in [Groups -> {"idle", "write", "flush", "failed"}] /\ 0 \in Groups
    BY DEF TypeOK, Groups
  <1>1. CASE UNCHANGED pc
    BY <1>1
  <1>2. CASE ApplicationCall
    <2>1. ASSUME NEW h, NEW n, NEW kind, WriteRows(h, n, kind)
          PROVE  pc'[0] = "idle"
      BY <1>0, <2>1 DEF WriteRows, Idle, MainIdle
    <2>2. ASSUME NEW h, FlushGroup(h)
          PROVE  pc'[0] = "idle"
      BY <1>0, <2>2 DEF FlushGroup
    <2>3. \A n, kind : ~WriteRowGroup(n, kind)
      BY DEF WriteRowGroup, MainIdle
    <2>4. \A h : ~Commit(h)
      BY DEF Commit, Call, MainIdle
    <2>5. ~Flush /\ ~Close /\ ~Reset
      BY DEF Flush, Close, Call, MainIdle, Reset
    <2> QED BY <1>2, <2>1, <2>2, <2>3, <2>4, <2>5 DEF ApplicationCall
  <1>3. ASSUME NEW h \in Groups, GroupStep(h)
        PROVE  pc'[0] = "idle"
    BY <1>0, <1>3 DEF GroupStep, NextChunk, GroupFull, BetweenChunks, WriteColumn, WriteColumnFails,
      FlushGroupColumn, FlushGroupColumnFails, Fail
  <1>4. CASE MainStep
    <2>1. pc' = pc \/ pc' = [pc EXCEPT ![0] = "idle"] \/ StartCopyRows
      BY <1>4 DEF MainStep, SkipEmptyRowGroup, TooManyRowGroups, StartRowGroup, FlushRowGroupColumn,
         FlushRowGroupColumnFails, FlushFilterPagesFails, WriteHeader, WriteColumnPages, NoBloomFilter,
         DeferBloomFilter,
         WriteBloomFilter, WriteRowGroupFails, AppendRowGroup, ResetRowGroupColumn, CloseColumn,
         CloseColumnFails, CloseHeader, WriteDeferredBloomFilter, DeferredBloomFiltersWritten,
         PutDeferredBuffer, DeferredBuffersReturned, WriteFooter, CloseFails, LoadCopiedChunk,
         RowsCopied, CopyRowsFails, Fail, ReencodeBatch, ReencodeBatchFails, WriteRowGroupSourceFails,
         AbortCall, callVars
    <2> QED BY <1>0, <2>1
  <1> QED BY <1>1, <1>2, <1>3, <1>4, NextCases DEF allButPool, callVars

LEMMA LimitsStep ==
  ASSUME TypeOK, TypeOK', Control, Limits, [Next]_vars
  PROVE  Limits'
  <1> SUFFICES ASSUME NEW g \in Groups
               PROVE  numRows'[g] + Len(chunk'[g]) <= MaxRowsPerRowGroup /\ Len(chunk'[g]) <= maxRowsPerWrite
    BY DEF Limits
  <1>1. /\ numRows[g] \in Nat /\ chunk[g] \in Seq(Row) /\ Len(chunk[g]) \in Nat /\ todo[g] \in Seq(Row)
        /\ Len(todo[g]) \in Nat
        /\ numRows[g] + Len(chunk[g]) <= MaxRowsPerRowGroup /\ Len(chunk[g]) <= maxRowsPerWrite
        /\ MaxRowsPerRowGroup \in Nat /\ maxRowsPerWrite \in Nat \ {0}
        /\ numRows \in [Groups -> Nat] /\ chunk \in [Groups -> Seq(Row)]
    <2>1. numRows \in [Groups -> Nat] /\ chunk \in [Groups -> Seq(Row)] /\ todo \in [Groups -> Seq(Row)]
      BY DEF TypeOK
    <2>2. numRows[g] \in Nat /\ chunk[g] \in Seq(Row) /\ todo[g] \in Seq(Row)
      BY <2>1
    <2>3. Len(chunk[g]) \in Nat /\ Len(todo[g]) \in Nat
      BY <2>2
    <2>4. numRows[g] + Len(chunk[g]) <= MaxRowsPerRowGroup /\ Len(chunk[g]) <= maxRowsPerWrite
      BY DEF Limits
    <2> QED BY <2>1, <2>2, <2>3, <2>4, WriterAssumption
  <1>2. Len(<< >>) = 0
    OBVIOUS
  <1>3. CASE UNCHANGED <<numRows, chunk>>
    BY <1>1, <1>3
  <1>4. ASSUME NEW h \in Groups, GroupStep(h)
        PROVE  numRows'[g] + Len(chunk'[g]) <= MaxRowsPerRowGroup /\ Len(chunk'[g]) <= maxRowsPerWrite
    <2>1. CASE h # g
      BY <1>1, <1>4, <2>1 DEF GroupStep, NextChunk, GroupFull, WriteColumn, WriteColumnFails,
        FlushGroupColumn, FlushGroupColumnFails, rgVars, Fail
    <2>2. CASE NextChunk(g)
      <3> DEFINE length == ChunkLength(g)
      <3>1. chunk' = [chunk EXCEPT ![g] = SubSeq(todo[g], 1, length)] /\ numRows' = numRows
            /\ numRows[g] < MaxRowsPerRowGroup
        BY <1>1, <2>2 DEF NextChunk, Full
      <3>2. /\ length \in Nat /\ length <= MaxRowsPerRowGroup - numRows[g]
            /\ length <= maxRowsPerWrite /\ length <= Len(todo[g])
        BY <1>1, <3>1 DEF ChunkLength, Lesser
      <3> HIDE DEF length
      <3>3. Len(chunk'[g]) = length
        BY <1>1, <3>1, <3>2
      <3> QED BY <1>1, <3>1, <3>2, <3>3
    <2>3. CASE WriteColumn(g)
      BY <1>1, <1>2, <2>3 DEF WriteColumn
    <2>4. CASE WriteColumnFails(g) \/ FlushGroupColumnFails(g)
      BY <1>1, <1>2, <2>4 DEF WriteColumnFails, FlushGroupColumnFails, Fail
    <2>5. CASE GroupFull(g) \/ FlushGroupColumn(g)
      BY <1>3, <2>5 DEF GroupFull, FlushGroupColumn, rgVars
    <2> QED BY <1>4, <2>1, <2>2, <2>3, <2>4, <2>5 DEF GroupStep
  <1>5. CASE ResetRowGroupColumn
    BY <1>1, <1>5 DEF ResetRowGroupColumn, ResetNumRows
  <1>7. CASE CopyRowsFails
    BY <1>1, <1>2, <1>7 DEF CopyRowsFails, Fail, rgVars
  <1>6. \/ UNCHANGED <<numRows, chunk>> \/ ResetRowGroupColumn \/ CopyRowsFails
        \/ \E h \in Groups : GroupStep(h)
    BY NextCases DEF ApplicationCall, WriteRows, WriteRowGroup, FlushGroup, Commit, Flush, Close, Reset,
      Call,
       allButPool, MainStep, SkipEmptyRowGroup, TooManyRowGroups, StartRowGroup, FlushRowGroupColumn,
       FlushRowGroupColumnFails, FlushFilterPagesFails, WriteHeader, WriteColumnPages, NoBloomFilter,
       DeferBloomFilter,
       WriteBloomFilter, WriteRowGroupFails, AppendRowGroup, CloseColumn,
       CloseColumnFails, CloseHeader, WriteDeferredBloomFilter, DeferredBloomFiltersWritten,
       PutDeferredBuffer, DeferredBuffersReturned, WriteFooter, CloseFails, LoadCopiedChunk,
       StartCopyRows, RowsCopied, ReencodeBatch, ReencodeBatchFails, WriteRowGroupSourceFails, rgVars,
       callVars
  <1> QED BY <1>3, <1>4, <1>5, <1>6, <1>7

\* The numbers that the counts are made of.
LEMMA CountNumbers ==
  ASSUME TypeOK, NEW g \in Groups
  PROVE  /\ NumColumns \in Columns /\ 0 \in Groups
         /\ Rows(g, NumColumns) \in Seq(Row) /\ Len(Rows(g, NumColumns)) \in Nat
         /\ numRows \in [Groups -> Nat] /\ numRows[g] \in Nat
         /\ chunk \in [Groups -> Seq(Row)] /\ chunk[g] \in Seq(Row)
         /\ Len(chunk[g]) \in Nat /\ Uncounted(g) \in Nat
         /\ chunk[g] = << >> => Uncounted(g) = 0
         /\ MaxRowsPerRowGroup \in Nat
  <1>1. NumColumns \in Columns /\ 0 \in Groups
    BY ColumnAssumption DEF Columns, Groups
  <1>2. cw[g][NumColumns] \in ColumnWriterState
    BY <1>1 DEF TypeOK
  <1>3. Rows(g, NumColumns) \in Seq(Row)
    BY <1>2, PageRowsType DEF Rows
  <1>4. Len(Rows(g, NumColumns)) \in Nat
    BY <1>3
  <1>5. numRows \in [Groups -> Nat] /\ chunk \in [Groups -> Seq(Row)]
    BY DEF TypeOK
  <1>6. numRows[g] \in Nat /\ chunk[g] \in Seq(Row)
    BY <1>5
  <1>7. Len(chunk[g]) \in Nat /\ (chunk[g] = << >> => Len(chunk[g]) = 0)
    BY <1>6
  <1>8. Uncounted(g) \in Nat /\ (chunk[g] = << >> => Uncounted(g) = 0)
    BY <1>7 DEF Uncounted
  <1> QED BY <1>1, <1>3, <1>4, <1>5, <1>6, <1>7, <1>8, WriterAssumption

\* A reset that is not at its last column leaves the row group in it.
LEMMA ResetEndsClear ==
  ASSUME TypeOK, NEW g \in Groups, Clear(g)', ResetRowGroupColumn, Group = g
  PROVE  pos = NumColumns
  BY LastColumn DEF ResetRowGroupColumn, NextColumnOr, InReset, InAbort, Group, Clear, Sound

\* A row group that was emptied counts no rows.
LEMMA ResetCounted ==
  ASSUME TypeOK, TypeOK', Control, Control', RowInv, NEW g \in Groups,
         ResetRowGroupColumn, pos = NumColumns, Group = g
  PROVE  GroupCounted(g)'
  <1>1. /\ chunk'[g] = << >>
        /\ \A k \in Columns : ColumnRows(cw'[g][k]) = << >>
    BY ResetEnds
  <1>2. numRows'[g] = 0
    BY CountNumbers DEF ResetRowGroupColumn, ResetNumRows
  <1>3. NumColumns \in Columns /\ MaxRowsPerRowGroup \in Nat
    BY CountNumbers
  <1>4. Len(<< >>) = 0
    OBVIOUS
  <1>5. Len(Rows(g, NumColumns)') = 0
    BY <1>1, <1>3, <1>4 DEF Rows
  <1>6. Uncounted(g)' = 0
    BY <1>1, <1>4 DEF Uncounted
  <1>7. Counted(g)'
    BY <1>2, <1>5, <1>6 DEF Counted
  <1>8. ASSUME OnColumnPath(g)'
        PROVE  Staged'
    <2>1. g = 0 /\ OnColumnPath(0)'
      BY <1>8 DEF OnColumnPath
    <2>2. pc'[0] = "idle"
      BY <2>1, ColumnPathJob DEF OnColumnPath, Control, CallFits
    <2>3. 0 <= MaxRowsPerRowGroup
      BY <1>3
    <2>4. numRows'[0] = 0 /\ Len(Rows(0, NumColumns)') = 0
      BY <1>2, <1>5, <2>1
    <2> QED BY <2>1, <2>2, <2>3, <2>4 DEF Staged
  <1> QED BY <1>7, <1>8 DEF GroupCounted

\* While WriteRowGroup fills the columns.
LEMMA PathStaged ==
  ASSUME TypeOK, TypeOK', Control, Control', RowInv, CountInv, [Next]_vars,
         Clear(0), Clear(0)', OnColumnPath(0)
  PROVE  Staged'
  <1>0. Sound(0) /\ Sound(0)' /\ 0 \in Groups
    BY DEF Clear, Groups
  <1>1. Staged
    BY <1>0 DEF CountInv, GroupCounted
  <1>2. pc[0] = "idle" /\ chunk[0] = << >>
    BY ColumnPathIdle
  <1>3. Len(source) <= MaxRowsPerRowGroup /\ source \in Seq(Row) /\ Len(source) \in Nat
    BY DEF OnColumnPath, PathLeft, Control, SourceFits, TypeOK
  <1>4. CASE LoadCopiedChunk \/ ReencodeBatch
    <2>1. UNCHANGED <<numRows, pc>>
      BY <1>4 DEF LoadCopiedChunk, ReencodeBatch, ReencodeBatchFails, callVars
    <2>2. OnColumnPath(0)' \/ job' = RowGroupJob(0)
      BY <1>0, <1>4, SourceTaken DEF OnColumnPath
    <2>3. Len(Rows(0, NumColumns)') <= MaxRowsPerRowGroup
      <3>1. ASSUME NEW n \in Nat, n <= Len(source), TakenTo(n)
            PROVE  Len(Rows(0, NumColumns)') <= MaxRowsPerRowGroup
        <4>1. Rows(0, NumColumns)' \in {source, SubSeq(source, 1, n), << >>}
          BY <1>0, <3>1, CountNumbers DEF TakenTo
        <4>2. Len(SubSeq(source, 1, n)) = n /\ Len(<< >>) = 0
          BY <1>3, <3>1
        <4>3. n <= MaxRowsPerRowGroup /\ 0 <= MaxRowsPerRowGroup
          BY <1>3, <3>1, WriterAssumption
        <4> QED BY <1>3, <4>1, <4>2, <4>3
      <3>2. CASE TakenTo(Len(source))
        BY <1>3, <3>1, <3>2
      <3>3. CASE UNCHANGED <<job, source>> /\ done' \in Nat /\ TakenTo(done')
        BY <1>3, <3>1, <3>3 DEF OnColumnPath, Control, SourceFits
      <3> QED BY <1>0, <1>4, <3>2, <3>3, SourceTaken
    <2> QED BY <1>1, <2>1, <2>2, <2>3 DEF Staged
  <1>5. CASE ~LoadCopiedChunk /\ ~ReencodeBatch
    <2>1. ~NextChunk(0) /\ ~WriteColumn(0)
      BY <1>2 DEF NextChunk, BetweenChunks, WriteColumn
    <2>2. ~ResetRowGroupColumn
      BY ColumnPathJob DEF OnColumnPath, ResetRowGroupColumn, Control, PhaseFits
    <2>3. ~Changing(0)
      BY <1>5, <2>1, <2>2 DEF Changing
    <2>4. OnColumnPath(0)'
      BY <1>0, <2>3, PathKept DEF OnColumnPath
    <2>5. Rows(0, NumColumns)' = Rows(0, NumColumns)
      BY <1>0, <2>3, RowsKept, CountNumbers
    <2>6. numRows'[0] = numRows[0]
      BY <1>0, <2>1, <2>3, CountKept
    <2>7. pc'[0] = "idle"
      BY <2>4, ColumnPathJob DEF OnColumnPath, Control, CallFits
    <2> QED BY <1>1, <2>4, <2>5, <2>6, <2>7 DEF Staged
  <1> QED BY <1>4, <1>5

\* When it starts to, they are empty.
LEMMA PathStarts ==
  ASSUME TypeOK, Control, Control', RowInv, CountInv, [Next]_vars,
         Clear(0), ~OnColumnPath(0), OnColumnPath(0)', ~(ResetRowGroupColumn /\ pos = NumColumns /\ Group = 0)
  PROVE  Staged'
  <1>0. Sound(0) /\ 0 \in Groups
    BY DEF Clear, Groups
  <1>1. SkipEmptyRowGroup /\ Group = 0
    BY PathBegins DEF RowGroupDone
  <1>2. Rows(0, NumColumns) = << >> /\ UNCHANGED <<cw, numRows>>
    BY <1>0, <1>1, SkippedEmpty, CountNumbers DEF SkipEmptyRowGroup, rgVars
  <1>3. numRows[0] = 0
    <2>1. Counted(0) \/ Staged
      BY <1>0 DEF CountInv, GroupCounted
    <2>2. Len(<< >>) = 0
      OBVIOUS
    <2>3. Counted(0) => 0 = numRows[0] + Uncounted(0)
      BY <1>2, <2>2 DEF Counted
    <2>4. numRows[0] \in Nat /\ Uncounted(0) \in Nat
      BY <1>0, CountNumbers
    <2> QED BY <2>1, <2>3, <2>4 DEF Staged
  <1>4. pc'[0] = "idle"
    BY ColumnPathJob DEF OnColumnPath, Control, CallFits
  <1>5. Len(Rows(0, NumColumns)') <= MaxRowsPerRowGroup
    <2>1. Rows(0, NumColumns)' = << >>
      BY <1>2 DEF Rows
    <2>2. Len(<< >>) = 0
      OBVIOUS
    <2>3. 0 <= MaxRowsPerRowGroup
      BY <1>0, CountNumbers
    <2> QED BY <2>1, <2>2, <2>3
  <1> QED BY <1>2, <1>3, <1>4, <1>5 DEF Staged

\* The calls and WriteRowGroup count the rows of a chunk when all columns have it.
LEMMA CountedStep ==
  ASSUME TypeOK, TypeOK', Control, RowInv, [Next]_vars, NEW g \in Groups,
         Clear(g), Clear(g)', Counted(g), ~OnColumnPath(g),
         ~(ResetRowGroupColumn /\ pos = NumColumns /\ Group = g)
  PROVE  Counted(g)'
  <1>0. Sound(g) /\ Sound(g)'
    BY DEF Clear
  <1>1. ~(ResetRowGroupColumn /\ Group = g)
    BY ResetEndsClear
  <1>2. ~(g = 0 /\ (LoadCopiedChunk \/ ReencodeBatch))
    BY <1>0, SourceTaken
  <1>3. /\ NumColumns \in Columns
        /\ Rows(g, NumColumns) \in Seq(Row) /\ Len(Rows(g, NumColumns)) \in Nat
        /\ numRows \in [Groups -> Nat] /\ numRows[g] \in Nat
        /\ chunk \in [Groups -> Seq(Row)] /\ chunk[g] \in Seq(Row)
        /\ Len(chunk[g]) \in Nat /\ Uncounted(g) \in Nat
        /\ chunk[g] = << >> => Uncounted(g) = 0
        /\ Len(Rows(g, NumColumns)) = numRows[g] + Uncounted(g)
    BY CountNumbers DEF Counted
  <1>4. CASE NextChunk(g) /\ Generic(g)
    <2>1. PICK rows \in Seq(Row) :
            /\ chunk' = [chunk EXCEPT ![g] = rows] /\ g = 0 /\ UNCHANGED generic /\ generic
            /\ \A k \in Columns : Len(Rows(0, k)') = Len(Rows(0, k)) + Len(rows)
      BY <1>0, <1>4, GenericChunkRows
    <2>2. chunk[g] = << >> /\ numRows' = numRows
      BY <1>4 DEF NextChunk, BetweenChunks
    <2>3. chunk'[g] = rows
      BY <1>3, <2>1
    <2>4. Uncounted(g)' = Len(rows)
      BY <2>1, <2>3 DEF Uncounted, Generic
    <2>5. Len(Rows(g, NumColumns)') = Len(Rows(g, NumColumns)) + Len(rows)
      BY <1>3, <2>1
    <2>6. Len(Rows(g, NumColumns)) = numRows[g]
      BY <1>3, <2>2
    <2> QED BY <2>2, <2>4, <2>5, <2>6 DEF Counted
  <1>5. CASE WriteColumn(g) /\ ~Generic(g)
    <2>1. /\ Rows(g, NumColumns)' = IF NumColumns = col[g] THEN Rows(g, NumColumns) \o chunk[g]
                                                           ELSE Rows(g, NumColumns)
          /\ col[g] \in Columns
      BY <1>0, <1>3, <1>5, SoundFine, ColumnChunkRows
    <2>2. /\ UNCHANGED generic
          /\ IF col[g] < NumColumns THEN UNCHANGED numRows
                                    ELSE numRows' = [numRows EXCEPT ![g] = @ + Len(chunk[g])]
      BY <1>5 DEF WriteColumn
    <2>3. Uncounted(g) = 0 /\ Uncounted(g)' = 0
      BY <1>5, <2>2 DEF Uncounted, Generic
    <2>4. CASE col[g] < NumColumns
      BY <1>3, <2>1, <2>2, <2>3, <2>4 DEF Columns, Counted
    <2>5. CASE ~(col[g] < NumColumns)
      <3>1. col[g] = NumColumns
        BY <2>1, <2>5, ColumnAssumption DEF Columns
      <3>2. Len(Rows(g, NumColumns)') = Len(Rows(g, NumColumns)) + Len(chunk[g])
        <4>1. \A s, t \in Seq(Row) : Len(s \o t) = Len(s) + Len(t)
          OBVIOUS
        <4>2. Rows(g, NumColumns)' = Rows(g, NumColumns) \o chunk[g]
          BY <2>1, <3>1
        <4>3. Len(Rows(g, NumColumns) \o chunk[g]) = Len(Rows(g, NumColumns)) + Len(chunk[g])
          BY <1>3, <4>1
        <4> QED BY <4>2, <4>3
      <3>3. numRows'[g] = numRows[g] + Len(chunk[g])
        BY <1>3, <2>2, <2>5
      <3> QED BY <1>3, <2>3, <3>2, <3>3 DEF Counted
    <2> QED BY <2>4, <2>5
  <1>6. CASE ~Changing(g)
    <2>1. Rows(g, NumColumns)' = Rows(g, NumColumns)
      BY <1>0, <1>3, <1>6, RowsKept
    <2>2. CASE NextChunk(g)
      BY <1>3, <1>6, <2>1, <2>2 DEF Changing, NextChunk, Uncounted, Generic, Counted
    <2>3. CASE WriteColumn(g)
      <3>1. Generic(g) /\ UNCHANGED generic
        BY <1>6, <2>3 DEF Changing, WriteColumn
      <3>2. Uncounted(g) = Len(chunk[g]) /\ Uncounted(g)' = Len(chunk'[g])
        BY <3>1 DEF Uncounted, Generic
      <3>3. \/ UNCHANGED <<numRows, chunk>>
            \/ /\ numRows' = [numRows EXCEPT ![g] = @ + Len(chunk[g])]
               /\ chunk' = [chunk EXCEPT ![g] = << >>]
        BY <2>3 DEF WriteColumn
      <3>4. CASE UNCHANGED <<numRows, chunk>>
        BY <1>3, <2>1, <3>2, <3>4 DEF Counted
      <3>5. CASE /\ numRows' = [numRows EXCEPT ![g] = @ + Len(chunk[g])]
                 /\ chunk' = [chunk EXCEPT ![g] = << >>]
        BY <1>3, <2>1, <3>2, <3>5 DEF Counted
      <3> QED BY <3>3, <3>4, <3>5
    <2>4. CASE ~NextChunk(g) /\ ~WriteColumn(g)
      BY <1>0, <1>6, <2>1, <2>4, CountKept DEF Counted
    <2> QED BY <2>2, <2>3, <2>4
  <1> QED BY <1>1, <1>2, <1>4, <1>5, <1>6 DEF Changing

\* The rows that WriteRowGroup brought stay until they are flushed.
LEMMA StagedStep ==
  ASSUME TypeOK, TypeOK', Control, RowInv, [Next]_vars, Clear(0), Clear(0)', Staged, ~OnColumnPath(0),
         ~(ResetRowGroupColumn /\ pos = NumColumns /\ Group = 0)
  PROVE  Counted(0)' \/ Staged'
  <1>0. Sound(0) /\ Sound(0)' /\ 0 \in Groups
    BY DEF Clear, Groups
  <1>1. job = RowGroupJob(0) /\ pc[0] = "idle" /\ numRows[0] = 0 /\ chunk[0] = << >>
    BY DEF Staged, Control, CallFits, Groups
  <1>2. job # << >> /\ job[1].op = "rowGroup" /\ Group = 0
    BY <1>1, JobTails, JobOps DEF Group
  <1>3. ~ResetRowGroupColumn
    BY <1>0, <1>2, ResetEndsClear
  <1>4. ~NextChunk(0) /\ ~WriteColumn(0)
    BY <1>1 DEF NextChunk, BetweenChunks, WriteColumn
  <1>5. ~Changing(0)
    BY <1>0, <1>3, <1>4, SourceTaken DEF Changing
  <1>6. Rows(0, NumColumns)' = Rows(0, NumColumns)
    BY <1>0, <1>5, RowsKept, CountNumbers
  <1>7. numRows'[0] = 0 /\ Uncounted(0)' = 0
    BY <1>0, <1>1, <1>4, <1>5, CountKept, CountNumbers
  <1>8. CASE job' = job
    BY <1>1, <1>2, <1>6, <1>7, <1>8, JobIdle DEF StartCopyRows, Running, Staged
  <1>9. CASE job' # job
    <2>1. ~TooManyRowGroups
      <3>1. Len(rowGroups) < MaxRowGroups
        BY DEF Clear
      <3>2. rowGroups \in Seq(RowGroup)
        BY DEF TypeOK
      <3>3. Len(rowGroups) \in Nat
        BY <3>2
      <3> QED BY <3>1, <3>3, WriterAssumption DEF TooManyRowGroups
    <2>2. status' # "failed" /\ ~Running("footer")
      BY <1>0, <1>2 DEF Sound, Running
    <2>3. job # OnPath("copyRows") /\ job # OnPath("opaque")
      BY <1>2, JobOps
    <2>4. SkipEmptyRowGroup
      BY <1>2, <1>3, <1>9, <2>1, <2>2, <2>3, JobMoves DEF RowGroupDone
    <2>5. Rows(0, NumColumns) = << >>
      BY <1>0, <1>2, <2>4, SkippedEmpty, CountNumbers
    <2>6. Len(Rows(0, NumColumns)') = 0
      BY <1>6, <2>5
    <2> QED BY <1>7, <2>6 DEF Counted
  <1> QED BY <1>8, <1>9

LEMMA GroupCountedStep ==
  ASSUME FallbackOrReset, TypeOK, TypeOK', Control, Control', RowInv, CountInv, [Next]_vars,
         NEW g \in Groups
  PROVE  GroupCounted(g)'
  <1> SUFFICES ASSUME Clear(g)'
               PROVE  IF OnColumnPath(g)' THEN Staged' ELSE Counted(g)' \/ (g = 0 /\ Staged')
    BY DEF GroupCounted
  <1>1. CASE ResetRowGroupColumn /\ pos = NumColumns /\ Group = g
    BY <1>1, ResetCounted DEF GroupCounted
  <1>2. CASE ~(ResetRowGroupColumn /\ pos = NumColumns /\ Group = g)
    <2>1. Clear(g)
      BY <1>2, ClearStep
    <2>2. IF OnColumnPath(g) THEN Staged ELSE Counted(g) \/ (g = 0 /\ Staged)
      BY <2>1 DEF CountInv, GroupCounted
    <2>3. (OnColumnPath(g) => g = 0) /\ (OnColumnPath(g)' => g = 0)
      BY DEF OnColumnPath
    <2>4. CASE OnColumnPath(g)
      BY <2>1, <2>3, <2>4, PathStaged
    <2>5. CASE ~OnColumnPath(g) /\ OnColumnPath(g)'
      BY <1>2, <2>1, <2>3, <2>5, PathStarts
    <2>6. CASE ~OnColumnPath(g) /\ ~OnColumnPath(g)'
      BY <1>2, <2>1, <2>2, <2>6, CountedStep, StagedStep
    <2> QED BY <2>4, <2>5, <2>6
  <1> QED BY <1>1, <1>2

LEMMA CountInvInit ==
  ASSUME Init
  PROVE  CountInv
  <1>1. TypeOK /\ MaxRowsPerRowGroup \in Nat /\ maxRowsPerWrite \in Nat
    BY TypeInit, WriterAssumption
  <1>2. Len(<< >>) = 0
    OBVIOUS
  <1>3. \A g \in Groups : numRows[g] = 0 /\ chunk[g] = << >>
    BY DEF Init
  <1>4. Limits
    BY <1>1, <1>2, <1>3 DEF Limits
  <1>5. \A g \in Groups : Counted(g)
    <2> TAKE g \in Groups
    <2>1. cw[g][NumColumns] = NewColumnWriter /\ NumColumns \in Columns
      BY <1>1, CountNumbers DEF Init
    <2>2. ColumnRows(NewColumnWriter) = << >>
      <3>1. NewColumnWriter \in ColumnWriterState /\ Blank(NewColumnWriter)
        BY ResetColumnRows, ResetColumnType, Zenon
      <3> QED BY <2>1, <3>1, BlankRows
    <2>3. Len(Rows(g, NumColumns)) = 0
      BY <1>2, <2>1, <2>2 DEF Rows
    <2>4. Uncounted(g) = 0
      BY <1>2, <1>3 DEF Uncounted
    <2> QED BY <1>3, <2>3, <2>4 DEF Counted
  <1>6. \A g \in Groups : ~OnColumnPath(g)
    <2>1. \A p : OnPath(p) # << >>
      BY JobTails, Zenon
    <2> QED BY <2>1 DEF OnColumnPath, Init
  <1> QED BY <1>4, <1>5, <1>6 DEF CountInv, GroupCounted

LEMMA CountInvStep ==
  ASSUME FallbackOrReset, TypeOK, TypeOK', Control, Control', RowInv, CountInv, [Next]_vars
  PROVE  CountInv'
  BY LimitsStep, GroupCountedStep DEF CountInv

\* Between the calls no row is ahead of a column, and none is uncounted.
LEMMA CountsAgree ==
  ASSUME TypeOK, Control, RowInv, CountInv
  PROVE  RowsAccounted
  <1> SUFFICES ASSUME NEW g \in Groups, pc[g] = "idle", job = << >>, status # "failed",
                      Len(rowGroups) < MaxRowGroups, NEW k \in Columns
               PROVE  totalRowCount(cw[g][k]) = numRows[g]
    BY DEF RowsAccounted
  <1>1. Sound(g) /\ ~InReset(g) /\ Clear(g)
    BY DEF Sound, InReset, InAbort, Clear
  <1>2. ~OnColumnPath(g) /\ ~Staged
    <2>1. (\A p : OnPath(p) # << >>) /\ RowGroupJob(0) # << >>
      BY JobTails, Zenon
    <2> QED BY <2>1 DEF OnColumnPath, Staged
  <1>3. chunk[g] = << >>
    BY DEF Control, CallFits
  <1>4. NumColumns \in Columns /\ 1 \in Columns /\ numRows[g] \in Nat /\ Uncounted(g) = 0
    BY <1>3, LastColumn, CountNumbers
  <1>5. Len(Rows(g, NumColumns)) = numRows[g]
    BY <1>1, <1>2, <1>4 DEF CountInv, GroupCounted, Counted
  <1>6. Rows(g, k) = Rows(g, NumColumns)
    <2>1. /\ Rows(g, k) \o Ahead(g, k) = Rows(g, 1) \o Ahead(g, 1)
          /\ Rows(g, NumColumns) \o Ahead(g, NumColumns) = Rows(g, 1) \o Ahead(g, 1)
      BY <1>1, <1>2, <1>4 DEF RowInv, GroupAligned
    <2>2. Ahead(g, k) = << >> /\ Ahead(g, NumColumns) = << >>
      BY <1>3 DEF Ahead
    <2>3. Rows(g, k) \in Seq(Row) /\ Rows(g, NumColumns) \in Seq(Row)
      <3>1. cw[g][k] \in ColumnWriterState /\ cw[g][NumColumns] \in ColumnWriterState
        BY <1>4 DEF TypeOK
      <3> QED BY <3>1, PageRowsType DEF Rows
    <2>4. \A s \in Seq(Row) : s \o << >> = s
      OBVIOUS
    <2> QED BY <2>1, <2>2, <2>3, <2>4
  <1>7. totalRowCount(cw[g][k]) = Len(Rows(g, k))
    BY <1>1, SoundFine, PageRowsType, BufferedType DEF Fine, Rows, BuffersFit, totalRowCount
  <1> QED BY <1>5, <1>6, <1>7

\* In every behaviour of the writer, with any number of goroutines, columns,
\* page and row group sizes, whatever fails and on whichever path rows come,
\* every column of a row group accounts between the calls for as many rows as
\* the row group counts.  The two assumptions leave out Reset of a writer whose
\* dictionaries may fall back to PLAIN, and Write used together with WriteRows.
THEOREM RowsAccountedCorrect ==
  ASSUME FallbackOrReset, OneKindOfWrite
  PROVE  Spec => []RowsAccounted
  <1> DEFINE Inv == TypeOK /\ Control /\ RowInv /\ CountInv
  <1>1. Init => Inv
    BY TypeInit, ControlInit, RowInvInit, CountInvInit
  <1>2. Inv /\ [Next]_vars => Inv'
    <2> SUFFICES ASSUME Inv, [Next]_vars
                 PROVE  Inv'
      OBVIOUS
    <2>1. TypeOK' /\ Control'
      BY TypeStep, ControlStep
    <2>2. RowInv' /\ CountInv'
      BY <2>1, RowInvStep, CountInvStep
    <2> QED BY <2>1, <2>2
  <1>3. Inv => RowsAccounted
    BY CountsAgree
  <1> HIDE DEF Inv
  <1> QED BY <1>1, <1>2, <1>3, PTL DEF Spec
=============================================================================
