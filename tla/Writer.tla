------------------------------- MODULE Writer -------------------------------
(***************************************************************************)
(* The parquet file writer (writer.go): the current row group of the       *)
(* Writer, the row groups made by BeginRowGroup and filled by goroutines   *)
(* of their own, and the one thread that flushes, commits, closes and      *)
(* resets the writer and so produces the file.                             *)
(*                                                                         *)
(* A call is not atomic.  Each iteration of a loop over the columns is a   *)
(* step, so that the goroutines interleave at every use of the shared page *)
(* buffer pool and a failure can hit between any two columns.              *)
(***************************************************************************)
EXTENDS ColumnWriter

CONSTANTS
  RowGroups,           \* row groups made by BeginRowGroup (positive naturals)
  MaxRowsPerRowGroup,  \* WriterConfig.MaxRowsPerRowGroup
  MaxRowGroups,        \* the constant MaxRowGroups
  maxRowsPerWrite,     \* rows written to the columns at a time, 64 in the code
  DeferredBloomFilters,\* is DeferredBloomFiltersBuffers configured?
  MaxCall,             \* bound: rows of one call
  CallKinds,           \* the calls the application makes on the writer: "Write",
                       \* "WriteRows", and WriteRowGroup of a row group that is
                       \* "copyable", only "columnar", or neither ("opaque")
  SourcePage,          \* rows a page of the copyable row groups has
  reencodeBatch,       \* values re-encoded at a time, 1024 in the code
  MaxResets,           \* bound: calls of Reset
  Faults               \* may writes to page buffers and to the output fail?

\* The model of newColumnBuffer covers columns that have not fallen back to
\* PLAIN; only a writer that mixes Write and WriteRows could replace others.
ASSUME MixedCallsAssumption ==
  {"Write", "WriteRows"} \subseteq CallKinds => DictionaryMaxBytes = 0

ASSUME WriterAssumption ==
  /\ RowGroups \subseteq Nat \ {0}
  /\ MaxRowsPerRowGroup \in Nat \ {0}
  /\ MaxRowGroups \in Nat
  /\ maxRowsPerWrite \in Nat \ {0}
  /\ DeferredBloomFilters \in BOOLEAN
  /\ MaxCall \in Nat
  /\ CallKinds \subseteq {"Write", "WriteRows", "copyable", "columnar", "opaque"}
  /\ SourcePage \in Nat \ {0}
  /\ reencodeBatch \in Nat \ {0}
  /\ MaxResets \in Nat
  /\ Faults \in BOOLEAN

VARIABLES
  cw,        \* cw[g][k]: column writer k of row group g
  numRows,   \* numRows[g]: ConcurrentRowGroupWriter.numRows
  pc,        \* pc[g]: what the goroutine using row group g is doing
  todo,      \* todo[g]: rows of its WriteRows call that are not in a chunk yet
  chunk,     \* chunk[g]: rows being written to the columns
  col,       \* col[g]: the column that gets them next
  generic,   \* is the call on the current row group GenericWriter.Write?
  resolved,  \* has GenericWriter.Write installed its column buffers?
  nextRow,   \* identity of the next row the application makes
  free,      \* buffers returned to the page buffer pool, last returned last
  fresh,     \* identity of the next buffer the pool would allocate
  taken,     \* taken[g]: buffer taken from the pool for what is being written for
             \* row group g, the first page of a column or a deferred filter; 0 for none
  job,       \* what the main thread still has to do in its current call
  phase,     \* where it is in writeRowGroup
  pos,       \* loop index of that phase, a column
  source,    \* rows of the row group given to WriteRowGroup
  done,      \* progress of its inner loop: how many of them the current column has
             \* got so far, or how many deferred filters are in the file
  meta,      \* meta[k]: offsets of the column chunk being written
  file,      \* the segments of the output, each with its position
  offset,    \* offsetTrackingWriter.offset
  rowGroups, \* writer.rowGroups with the offset indexes
  deferred,  \* writer.deferredBloomFilters
  status,    \* "open", "closed", or "failed" after an error
  resets     \* number of calls of Reset

rgVars   == <<cw, numRows>>
callVars == <<pc, todo, chunk, col, generic, resolved, nextRow>>
poolVars == <<free, fresh, taken>>
mainVars == <<job, phase, pos, source, done, meta>>
outVars  == <<file, offset, rowGroups, deferred, status, resets>>
vars     == <<rgVars, callVars, poolVars, mainVars, outVars>>

-----------------------------------------------------------------------------
Groups == {0} \cup RowGroups        \* 0 is writer.currentRowGroup

Job == [op : {"rowGroup", "closeColumns", "header", "deferred", "footer", "reset",
              "copyable", "columnar", "opaque", "copyRows"},
        group : Groups]
Phases == {"start", "flush", "header", "pages", "bloom", "append", "reset", "abort", "put"}

\* A segment of the output.  `rows` and `encoding` are those of a data page,
\* `values` those of a dictionary page or of a bloom filter.
Segment == [at : Nat, size : Nat, kind : {"magic", "dictionary", "data", "bloom", "footer"},
            rows : Seq(Row), encoding : {"RLE_DICTIONARY", "PLAIN"}, values : SUBSET Value]

\* The parts of format.ColumnChunk and format.OffsetIndex that locate data;
\* offset 0 stands for absent, as in the code.
ColumnChunk == [dictionaryPageOffset : Nat, dataPageOffset : Nat,
                locations : Seq(PageLocation), bloomFilterOffset : Nat]
RowGroup == [numRows : Nat, columns : [Columns -> ColumnChunk]]
DeferredFilter == [group : Nat, column : Columns, values : SUBSET Value, buffer : Nat \ {0}]

NoChunk == [dictionaryPageOffset |-> 0, dataPageOffset |-> 0,
            locations |-> << >>, bloomFilterOffset |-> 0]
OnRowGroup(g) == [op |-> "rowGroup", group |-> g]
OnWriter(op) == [op |-> op, group |-> 0]

Init ==
  /\ cw = [g \in Groups |-> [k \in Columns |-> NewColumnWriter]]
  /\ numRows = [g \in Groups |-> 0]
  /\ pc = [g \in Groups |-> "idle"]
  /\ todo = [g \in Groups |-> << >>]
  /\ chunk = [g \in Groups |-> << >>]
  /\ col = [g \in Groups |-> 1]
  /\ generic = FALSE /\ resolved = FALSE
  /\ nextRow = 1
  /\ free = << >> /\ fresh = 1 /\ taken = [g \in Groups |-> 0]
  /\ job = << >> /\ phase = "start" /\ pos = 1
  /\ source = << >> /\ done = 0
  /\ meta = [k \in Columns |-> NoChunk]
  /\ file = {} /\ offset = 0 /\ rowGroups = << >> /\ deferred = << >>
  /\ status = "open" /\ resets = 0

-----------------------------------------------------------------------------
(* The page buffer pool.  The memory pool is a sync.Pool, which may also drop *)
(* a buffer; here Get always hands out the buffer returned last, the reuse    *)
(* that a buffer returned too early, or twice, would be exposed by.           *)

PoolGet == IF free = << >> THEN fresh ELSE free[Len(free)]

TakeBuffer ==
  IF free = << >> THEN fresh' = fresh + 1 /\ UNCHANGED free
                  ELSE free' = SubSeq(free, 1, Len(free) - 1) /\ UNCHANGED fresh

PutBuffer(id) == free' = Append(free, id) /\ UNCHANGED fresh

\* PutBuffer unless there is no buffer to return.
PutBufferIfAny(id) == IF id = 0 THEN UNCHANGED <<free, fresh>> ELSE PutBuffer(id)

\* If what row group g goes on with needs a buffer, it has been taken.
BufferReady(g, needed) == needed => taken[g] # 0

\* What was taken for row group g is kept by whatever it was taken for.
KeepTaken(g) == taken' = [taken EXCEPT ![g] = 0] /\ UNCHANGED <<free, fresh>>

\* An error: it goes back to the pool.
ReturnTaken(g) == taken' = [taken EXCEPT ![g] = 0] /\ PutBufferIfAny(taken[g])

-----------------------------------------------------------------------------
(* Writing rows to a row group, by the goroutine that uses it. *)

MainIdle == job = << >> /\ pc[0] = "idle" /\ status = "open"

\* No call is in progress on row group g.
Idle(g) ==
  /\ pc[g] = "idle"
  /\ IF g = 0 THEN MainIdle ELSE \A i \in 1 .. Len(job) : job[i].group # g

\* n rows the application makes for a call.
NewRows(n) == [i \in 1 .. n |-> nextRow + i - 1]

\* The application calls WriteRows, or GenericWriter.Write, with n new rows.
WriteRows(g, n, kind) ==
  /\ Idle(g)
  /\ nextRow + n <= MaxRows + 1
  /\ kind = "Write" => g = 0
  /\ pc' = [pc EXCEPT ![g] = "write"]
  /\ todo' = [todo EXCEPT ![g] = NewRows(n)]
  /\ generic' = IF g = 0 THEN kind = "Write" ELSE generic
  /\ nextRow' = nextRow + n
  /\ UNCHANGED <<rgVars, chunk, col, resolved, poolVars, mainVars, outVars>>

\* The loop of writeRows is between two chunks.
BetweenChunks(g) ==
  /\ pc[g] = "write" /\ chunk[g] = << >>
  /\ (g = 0 /\ job # << >>) => job[1].op = "copyRows"

\* Is the call on row group g GenericWriter.Write?
Generic(g) == g = 0 /\ generic

\* GenericWriter.Write gives a chunk to all the columns before it flushes any.
\* Its first chunk installs column buffers of its own; later ones look up the
\* buffers the columns have (makeWriteFunc).
WriteToAllColumns(columns, rows) ==
  [k \in Columns |->
     WriteValues(IF resolved THEN columns[k] ELSE newColumnBuffer(columns[k]), k, rows)]

\* Mutant: the limit is noticed one row late.
FullTooLate(g) == numRows[g] > MaxRowsPerRowGroup

\* The row group has no room left (remain <= 0).
Full(g) == numRows[g] >= MaxRowsPerRowGroup

\* Mutant: the room left in the row group is ignored.
ChunkLengthUnlimited(g) == Lesser(Len(todo[g]), maxRowsPerWrite)

\* Rows of the next chunk: bounded by maxRowsPerWrite and by the room left.
ChunkLength(g) ==
  Lesser(Lesser(MaxRowsPerRowGroup - numRows[g], Len(todo[g])), maxRowsPerWrite)

\* The next chunk of the call goes to the columns.
NextChunk(g) ==
  LET length == ChunkLength(g)
      rows == SubSeq(todo[g], 1, length)
  IN  /\ BetweenChunks(g)
      /\ ~Full(g)
      /\ chunk' = [chunk EXCEPT ![g] = rows]
      /\ todo' = [todo EXCEPT ![g] = SubSeq(todo[g], length + 1, Len(todo[g]))]
      /\ col' = [col EXCEPT ![g] = 1]
      /\ cw' = IF Generic(g) THEN [cw EXCEPT ![g] = WriteToAllColumns(@, rows)] ELSE cw
      /\ resolved' = (resolved \/ Generic(g))
      /\ UNCHANGED <<numRows, pc, generic, nextRow, poolVars, mainVars, outVars>>

\* writeRows reports ErrTooManyRowGroups.  On the current row group the caller
\* (writer.WriteRows, GenericWriter.Write) flushes and resumes; on a row group
\* of BeginRowGroup the error goes to the application with the rows unwritten.
GroupFull(g) ==
  /\ BetweenChunks(g)
  /\ Full(g)
  /\ IF g = 0
       THEN job' = <<OnRowGroup(0)>> \o job /\ UNCHANGED <<pc, todo>>
       ELSE /\ pc' = [pc EXCEPT ![g] = "idle"]
            /\ todo' = [todo EXCEPT ![g] = << >>]
            /\ UNCHANGED job
  /\ UNCHANGED <<rgVars, chunk, col, generic, resolved, nextRow, poolVars, phase, pos,
                 source, done, meta, outVars>>

\* A column with the chunk in its buffer.
WithChunk(g, k) ==
  IF Generic(g) THEN cw[g][k] ELSE WriteValues(cw[g][k], k, chunk[g])

\* Column writer k of row group g becomes c.
SetColumn(g, k, c) == cw' = [cw EXCEPT ![g] = [@ EXCEPT ![k] = c]]

\* One column gets the chunk and is flushed to a page if it is full
\* (WriteRowValues).  After the last column the rows count as written.
WriteColumn(g) ==
  LET k == col[g]
      c == WithChunk(g, k)
      full == BufferBytes(c) >= BufferSize[k]
  IN  /\ pc[g] = "write" /\ chunk[g] # << >>
      /\ BufferReady(g, full /\ NeedsPageBuffer(c))
      /\ SetColumn(g, k, IF full THEN FlushColumn(c, k, taken[g]) ELSE c)
      /\ KeepTaken(g)
      /\ IF k < NumColumns
           THEN /\ col' = [col EXCEPT ![g] = k + 1]
                /\ UNCHANGED <<numRows, pc, chunk>>
           ELSE /\ numRows' = [numRows EXCEPT ![g] = @ + Len(chunk[g])]
                /\ chunk' = [chunk EXCEPT ![g] = << >>]
                /\ pc' = [pc EXCEPT ![g] = IF todo[g] = << >> THEN "idle" ELSE "write"]
                /\ UNCHANGED col
      /\ UNCHANGED <<todo, generic, resolved, nextRow, mainVars, outVars>>

\* An error ends the call in progress on row group g.  The writer is not used
\* again before Reset; a row group of BeginRowGroup is abandoned.
Fail(g) ==
  /\ pc' = [pc EXCEPT ![g] = IF g = 0 THEN "idle" ELSE "failed"]
  /\ todo' = [todo EXCEPT ![g] = << >>]
  /\ chunk' = [chunk EXCEPT ![g] = << >>]
  /\ status' = IF g = 0 THEN "failed" ELSE status
  /\ job' = IF g = 0 THEN << >> ELSE job

\* The page fails while a full column is flushed: it cannot be encoded, or a
\* page buffer cannot be written to.  GenericWriter.Write counts the rows
\* nevertheless.
WriteColumnFails(g) ==
  LET k == col[g]
      c == WithChunk(g, k)
  IN  /\ Faults
      /\ pc[g] = "write" /\ chunk[g] # << >>
      /\ BufferBytes(c) >= BufferSize[k]
      /\ SetColumn(g, k, FlushColumnFails(c, k, taken[g]))
      /\ ReturnTaken(g)
      /\ numRows' = IF Generic(g) THEN [numRows EXCEPT ![g] = @ + Len(chunk[g])] ELSE numRows
      /\ Fail(g)
      /\ UNCHANGED <<col, generic, resolved, nextRow, phase, pos, source,
                     done, meta, file, offset, rowGroups, deferred, resets>>

\* ConcurrentRowGroupWriter.Flush, called on a row group of BeginRowGroup.
FlushGroup(g) ==
  /\ g # 0 /\ Idle(g)
  /\ pc' = [pc EXCEPT ![g] = "flush"]
  /\ col' = [col EXCEPT ![g] = 1]
  /\ UNCHANGED <<rgVars, todo, chunk, generic, resolved, nextRow, poolVars, mainVars, outVars>>

FlushGroupColumn(g) ==
  LET k == col[g]
  IN  /\ pc[g] = "flush"
      /\ BufferReady(g, NeedsPageBuffer(cw[g][k]))
      /\ SetColumn(g, k, FlushColumn(cw[g][k], k, taken[g]))
      /\ KeepTaken(g)
      /\ IF k < NumColumns
           THEN col' = [col EXCEPT ![g] = k + 1] /\ UNCHANGED pc
           ELSE pc' = [pc EXCEPT ![g] = "idle"] /\ UNCHANGED col
      /\ UNCHANGED <<numRows, todo, chunk, generic, resolved, nextRow, mainVars, outVars>>

\* A page fails in that Flush.
FlushGroupColumnFails(g) ==
  LET k == col[g]
  IN  /\ Faults
      /\ pc[g] = "flush"
      /\ Buffered(cw[g][k]) # << >>
      /\ SetColumn(g, k, FlushColumnFails(cw[g][k], k, taken[g]))
      /\ ReturnTaken(g)
      /\ Fail(g)
      /\ UNCHANGED <<numRows, col, generic, resolved, nextRow, phase, pos, source,
                     done, meta, file, offset, rowGroups, deferred, resets>>

-----------------------------------------------------------------------------
(* writer.writeRowGroup, by the main thread on the row group of its job. *)

Running(op) == job # << >> /\ job[1].op = op
InRowGroup(p) == Running("rowGroup") /\ phase = p
Group == job[1].group

\* The loop over the columns goes on, or ends and the next phase begins.
NextColumnOr(next) ==
  IF pos < NumColumns THEN pos' = pos + 1 /\ UNCHANGED phase
                      ELSE pos' = 1 /\ phase' = next

\* The call ends with an error; the current row group keeps its state.
AbortCall ==
  /\ job' = << >>
  /\ pc' = [pc EXCEPT ![0] = "idle"]
  /\ todo' = [todo EXCEPT ![0] = << >>]
  /\ source' = << >>

\* Early return: the row group has no rows according to its first column.
SkipEmptyRowGroup ==
  /\ InRowGroup("start")
  /\ totalRowCount(cw[Group][1]) = 0
  /\ job' = Tail(job)
  /\ UNCHANGED <<rgVars, callVars, poolVars, phase, pos, source, done, meta, outVars>>

\* Early return: ErrTooManyRowGroups.
TooManyRowGroups ==
  /\ InRowGroup("start")
  /\ totalRowCount(cw[Group][1]) # 0
  /\ Len(rowGroups) = MaxRowGroups
  /\ AbortCall
  /\ UNCHANGED <<rgVars, chunk, col, generic, resolved, nextRow, poolVars, phase, pos,
                 done, meta, outVars>>

StartRowGroup ==
  /\ InRowGroup("start")
  /\ totalRowCount(cw[Group][1]) # 0
  /\ Len(rowGroups) # MaxRowGroups
  /\ phase' = "flush" /\ pos' = 1
  /\ UNCHANGED <<rgVars, callVars, poolVars, job, source, done, meta, outVars>>

\* Flush the last page of the column and complete its filter.
FlushRowGroupColumn ==
  LET c == cw[Group][pos]
      flushed == FlushColumn(c, pos, taken[Group])
  IN  /\ InRowGroup("flush")
      /\ BufferReady(Group, NeedsPageBuffer(c))
      /\ SetColumn(Group, pos, IF c.copied THEN flushed ELSE flushFilterPages(flushed, pos))
      /\ KeepTaken(Group)
      /\ NextColumnOr("header")
      /\ UNCHANGED <<numRows, callVars, job, source, done, meta, outVars>>

\* The last page fails: the deferred reset follows.
FlushRowGroupColumnFails ==
  /\ Faults
  /\ InRowGroup("flush")
  /\ Buffered(cw[Group][pos]) # << >>
  /\ SetColumn(Group, pos, FlushColumnFails(cw[Group][pos], pos, taken[Group]))
  /\ ReturnTaken(Group)
  /\ phase' = "abort" /\ pos' = 1
  /\ UNCHANGED <<numRows, callVars, job, source, done, meta, outVars>>

\* The column is flushed but its filter fails: a page cannot be read back from
\* the page buffer, or not be written to the filter.  The deferred reset follows.
FlushFilterPagesFails ==
  LET c == cw[Group][pos]
  IN  /\ Faults
      /\ InRowGroup("flush")
      /\ pos \in FilterColumns /\ ~c.copied
      /\ BufferReady(Group, NeedsPageBuffer(c))
      /\ SetColumn(Group, pos, FlushColumn(c, pos, taken[Group]))
      /\ KeepTaken(Group)
      /\ phase' = "abort" /\ pos' = 1
      /\ UNCHANGED <<numRows, callVars, job, source, done, meta, outVars>>

\* Mutant: the tracked offset misses what is written.
OutputUntracked(segment) == file' = file \cup {segment} /\ UNCHANGED offset

\* A segment is written at the tracked offset, which moves past it.
Output(segment) ==
  /\ file' = file \cup {segment}
  /\ offset' = offset + segment.size

MagicSize == 4

\* writeFileHeader: the magic bytes, once.
PutMagic ==
  IF offset = 0
    THEN Output([at |-> offset, size |-> MagicSize, kind |-> "magic", rows |-> << >>,
                 encoding |-> "PLAIN", values |-> {}])
    ELSE UNCHANGED <<file, offset>>

WriteHeader ==
  /\ InRowGroup("header")
  /\ PutMagic
  /\ phase' = "pages" /\ pos' = 1
  /\ UNCHANGED <<rgVars, callVars, poolVars, job, source, done, meta, rowGroups, deferred, status, resets>>

DictionarySegment(c, at) ==
  [at |-> at, size |-> HeaderSize + DictionaryBytes(c), kind |-> "dictionary",
   rows |-> << >>, encoding |-> "PLAIN", values |-> c.dictionary]

\* The pages of column c as they appear in the output from position `base` on.
DataSegments(c, base) ==
  { [at |-> base + c.pages[i].at, size |-> c.pages[i].size, kind |-> "data",
     rows |-> c.pages[i].rows, encoding |-> c.pages[i].encoding, values |-> {}]
    : i \in 1 .. Len(c.pages) }

\* Mutant: the offset is taken before the dictionary page is written.
RebasedTooEarly(locations, base) ==
  [i \in 1 .. Len(locations) |-> [locations[i] EXCEPT !.offset = @ + offset]]

\* The offset index with the offsets made absolute.
Rebased(locations, base) ==
  [i \in 1 .. Len(locations) |-> [locations[i] EXCEPT !.offset = @ + base]]

\* The dictionary page, then the data pages of one column.
WriteColumnPages ==
  LET c == cw[Group][pos]
      dict == pos \in DictionaryColumns
      base == IF dict THEN offset + HeaderSize + DictionaryBytes(c) ELSE offset
  IN  /\ InRowGroup("pages")
      /\ file' = file \cup (IF dict THEN {DictionarySegment(c, offset)} ELSE {})
                      \cup DataSegments(c, base)
      /\ offset' = base + c.pageBytes
      /\ meta' = [meta EXCEPT ![pos] =
                   [@ EXCEPT !.dictionaryPageOffset = IF dict THEN offset ELSE 0,
                             !.dataPageOffset = IF c.pages = << >> THEN 0 ELSE base,
                             !.locations = Rebased(c.locations, base)]]
      /\ NextColumnOr("bloom")
      /\ UNCHANGED <<rgVars, callVars, poolVars, job, source, done, rowGroups, deferred, status, resets>>

BloomSize == HeaderSize + 1

BloomSegment(values, at) ==
  [at |-> at, size |-> BloomSize, kind |-> "bloom", rows |-> << >>,
   encoding |-> "PLAIN", values |-> values]

\* The bloom filter of one column: none, kept for Close, or written here.
NoBloomFilter ==
  /\ InRowGroup("bloom")
  /\ ~cw[Group][pos].filter.allocated
  /\ NextColumnOr("append")
  /\ UNCHANGED <<rgVars, callVars, poolVars, job, source, done, meta, outVars>>

\* Mutant: the position after the next.
RowGroupIndexOff == Len(rowGroups) + 2

\* Position of the row group being written in writer.rowGroups.
RowGroupIndex == Len(rowGroups) + 1

DeferBloomFilter ==
  /\ InRowGroup("bloom")
  /\ cw[Group][pos].filter.allocated
  /\ DeferredBloomFilters
  /\ BufferReady(Group, TRUE)
  /\ deferred' = Append(deferred, [group |-> RowGroupIndex, column |-> pos,
                                   values |-> cw[Group][pos].filter.values,
                                   buffer |-> taken[Group]])
  /\ KeepTaken(Group)
  /\ NextColumnOr("append")
  /\ UNCHANGED <<rgVars, callVars, job, source, done, meta, file, offset, rowGroups, status, resets>>

WriteBloomFilter ==
  /\ InRowGroup("bloom")
  /\ cw[Group][pos].filter.allocated
  /\ ~DeferredBloomFilters
  /\ Output(BloomSegment(cw[Group][pos].filter.values, offset))
  /\ meta' = [meta EXCEPT ![pos] = [@ EXCEPT !.bloomFilterOffset = offset]]
  /\ NextColumnOr("append")
  /\ UNCHANGED <<rgVars, callVars, poolVars, job, source, done, rowGroups, deferred, status, resets>>

\* The output fails, or the buffer of a deferred filter, which is returned: the
\* deferred reset follows.
WriteRowGroupFails ==
  /\ Faults
  /\ Running("rowGroup") /\ phase \in {"header", "pages", "bloom"}
  /\ ReturnTaken(Group)
  /\ phase' = "abort" /\ pos' = 1
  /\ UNCHANGED <<rgVars, callVars, job, source, done, meta, outVars>>

\* The metadata of the row group joins that of the file.
AppendRowGroup ==
  /\ InRowGroup("append")
  /\ rowGroups' = Append(rowGroups, [numRows |-> totalRowCount(cw[Group][1]), columns |-> meta])
  /\ phase' = "reset" /\ pos' = 1
  /\ UNCHANGED <<rgVars, callVars, poolVars, job, source, done, meta, file, offset, deferred, status, resets>>

\* Mutant: the row count survives the row group.
KeepNumRows(g) == UNCHANGED numRows

ResetNumRows(g) == numRows' = [numRows EXCEPT ![g] = 0]

\* ConcurrentRowGroupWriter.reset, one column at a time: deferred by
\* writeRowGroup whatever its outcome, and called by writer.reset.
ResetRowGroupColumn ==
  /\ job # << >> /\ phase \in {"reset", "abort"}
  /\ SetColumn(Group, pos, resetColumn(cw[Group][pos]))
  /\ PutBufferIfAny(cw[Group][pos].pageBuffer) /\ UNCHANGED taken
  /\ ResetNumRows(Group)
  /\ meta' = [meta EXCEPT ![pos] = NoChunk]
  /\ NextColumnOr("start")
  /\ IF pos < NumColumns
       THEN UNCHANGED <<job, pc, todo, source, status>>
       ELSE IF phase = "reset"
              THEN job' = Tail(job) /\ UNCHANGED <<pc, todo, source, status>>
              ELSE AbortCall /\ status' = "failed"
  /\ UNCHANGED <<chunk, col, generic, resolved, nextRow, done, file, offset, rowGroups,
                 deferred, resets>>

-----------------------------------------------------------------------------
(* The calls of the main thread. *)

Call(jobs) ==
  /\ MainIdle
  /\ job' = jobs /\ phase' = "start" /\ pos' = 1 /\ done' = 0
  /\ UNCHANGED <<rgVars, callVars, poolVars, source, meta, outVars>>

Flush == Call(<<OnRowGroup(0)>>)

\* Commit of a row group of BeginRowGroup: the rows buffered in the writer go
\* first.  The row group must not be in use.
Commit(g) == g # 0 /\ pc[g] = "idle" /\ Call(<<OnRowGroup(0), OnRowGroup(g)>>)

Close == Call(<<OnWriter("closeColumns"), OnWriter("header"), OnRowGroup(0),
                OnWriter("deferred"), OnWriter("footer")>>)

AfterFlush(path) == <<OnRowGroup(0), OnWriter(path), OnRowGroup(0)>>

\* WriteRowGroup of a row group with n rows: flush, then bring the rows into
\* the current row group, then write it.  A row group that would exceed
\* MaxRowsPerRowGroup always takes the row-oriented path.
WriteRowGroup(n, kind) ==
  LET path == IF n > MaxRowsPerRowGroup THEN "opaque" ELSE kind
  IN  /\ MainIdle
      /\ nextRow + n <= MaxRows + 1
      /\ source' = NewRows(n) /\ done' = 0
      /\ nextRow' = nextRow + n
      /\ job' = AfterFlush(path)
      /\ phase' = "start" /\ pos' = 1
      /\ UNCHANGED <<rgVars, pc, todo, chunk, col, generic, resolved, poolVars, meta, outVars>>

\* A chunk's place in its file; any will do.
SourceOffset == 7

\* loadCopiedChunks, one column.
LoadCopiedChunk ==
  /\ Running("copyable")
  /\ SetColumn(0, pos, loadCopiedChunk(cw[0][pos], pos,
                         SourceChunk(pos, source, SourcePage, SourceOffset)))
  /\ IF pos < NumColumns THEN pos' = pos + 1 /\ UNCHANGED <<job, source>>
                         ELSE pos' = 1 /\ job' = Tail(job) /\ source' = << >>
  /\ UNCHANGED <<numRows, callVars, poolVars, phase, done, meta, outVars>>

\* configureBloomFilters: the filters are sized before the rows come.
WithBloomFilters(columns) ==
  [k \in Columns |-> IF k \in FilterColumns THEN resizeBloomFilter(columns[k]) ELSE columns[k]]

\* The row-oriented path: CopyRows writes the rows through writer.WriteRows.
StartCopyRows ==
  /\ Running("opaque")
  /\ cw' = [cw EXCEPT ![0] = WithBloomFilters(@)]
  /\ pc' = [pc EXCEPT ![0] = "write"]
  /\ todo' = [todo EXCEPT ![0] = source]
  /\ generic' = FALSE
  /\ source' = << >>
  /\ job' = <<OnWriter("copyRows")>> \o Tail(job)
  /\ UNCHANGED <<numRows, chunk, col, resolved, nextRow, poolVars, phase, pos, done, meta, outVars>>

RowsCopied ==
  /\ Running("copyRows") /\ pc[0] = "idle"
  /\ job' = Tail(job)
  /\ UNCHANGED <<rgVars, callVars, poolVars, phase, pos, source, done, meta, outVars>>

\* The column-oriented path (writer_reencode.go), one batch of one column: the
\* columns it finds, where it ends, and the column with its values.
BatchColumns == IF pos = 1 /\ done = 0 THEN WithBloomFilters(cw[0]) ELSE cw[0]
BatchEnd == Lesser(done + reencodeBatch, Len(source))
BatchColumn == WriteValues(BatchColumns[pos], pos, SubSeq(source, done + 1, BatchEnd))
BatchFull == BufferBytes(BatchColumn) >= BufferSize[pos]

\* The column of the batch becomes c.
SetBatchColumn(c) == cw' = [cw EXCEPT ![0] = [BatchColumns EXCEPT ![pos] = c]]

ReencodeBatch ==
  /\ Running("columnar")
  /\ BufferReady(0, BatchFull /\ NeedsPageBuffer(BatchColumn))
  /\ SetBatchColumn(IF BatchFull THEN FlushColumn(BatchColumn, pos, taken[0]) ELSE BatchColumn)
  /\ KeepTaken(0)
  /\ IF BatchEnd < Len(source)
       THEN done' = BatchEnd /\ UNCHANGED <<job, pos, source>>
       ELSE /\ done' = 0
            /\ IF pos < NumColumns THEN pos' = pos + 1 /\ UNCHANGED <<job, source>>
                                   ELSE pos' = 1 /\ job' = Tail(job) /\ source' = << >>
  /\ UNCHANGED <<numRows, callVars, phase, meta, outVars>>

\* A page fails in a batch.  Here and below nothing is reset: the columns keep
\* what they got before.
ReencodeBatchFails ==
  /\ Faults
  /\ Running("columnar") /\ BatchFull
  /\ SetBatchColumn(FlushColumnFails(BatchColumn, pos, taken[0]))
  /\ ReturnTaken(0)
  /\ job' = << >> /\ status' = "failed" /\ source' = << >>
  /\ UNCHANGED <<numRows, callVars, phase, pos, done, meta, file, offset, rowGroups,
                 deferred, resets>>

\* The source cannot be read, in the middle of a copy or between two batches.
WriteRowGroupSourceFails ==
  /\ Faults
  /\ Running("copyable") \/ Running("columnar")
  /\ taken[0] = 0
  /\ job' = << >> /\ status' = "failed" /\ source' = << >>
  /\ UNCHANGED <<rgVars, callVars, poolVars, phase, pos, done, meta, file, offset, rowGroups,
                 deferred, resets>>

\* The source cannot be read between two chunks of CopyRows.
CopyRowsFails ==
  /\ Faults
  /\ Running("copyRows") /\ pc[0] = "write" /\ chunk[0] = << >>
  /\ Fail(0)
  /\ UNCHANGED <<rgVars, col, generic, resolved, nextRow, poolVars, phase, pos, source,
                 done, meta, file, offset, rowGroups, deferred, resets>>

\* Reset may be called at any time, also after Close or after an error.
Reset ==
  /\ job = << >> /\ pc[0] = "idle" /\ resets < MaxResets
  /\ job' = <<OnWriter("reset")>> /\ phase' = "put" /\ pos' = 1
  /\ resets' = resets + 1
  /\ UNCHANGED <<rgVars, callVars, poolVars, source, done, meta, file, offset, rowGroups, deferred, status>>

\* ColumnWriter.Close of one column.
CloseColumn ==
  LET c == cw[0][pos]
  IN  /\ Running("closeColumns")
      /\ BufferReady(0, NeedsPageBuffer(c))
      /\ SetColumn(0, pos, FlushColumn(c, pos, taken[0]))
      /\ KeepTaken(0)
      /\ IF pos < NumColumns THEN pos' = pos + 1 /\ UNCHANGED job
                             ELSE pos' = 1 /\ job' = Tail(job)
      /\ UNCHANGED <<numRows, callVars, phase, source, done, meta, outVars>>

CloseColumnFails ==
  /\ Faults
  /\ Running("closeColumns")
  /\ Buffered(cw[0][pos]) # << >>
  /\ SetColumn(0, pos, FlushColumnFails(cw[0][pos], pos, taken[0]))
  /\ ReturnTaken(0)
  /\ job' = << >> /\ status' = "failed"
  /\ UNCHANGED <<numRows, callVars, phase, pos, source, done, meta, file, offset, rowGroups,
                 deferred, resets>>

CloseHeader ==
  /\ Running("header")
  /\ PutMagic
  /\ job' = Tail(job)
  /\ UNCHANGED <<rgVars, callVars, poolVars, phase, pos, source, done, meta, rowGroups, deferred, status, resets>>

\* Row group r with the bloom filter of column k at `at`.
LocateFilter(r, k, at) ==
  LET located == [r.columns[k] EXCEPT !.bloomFilterOffset = at]
  IN  [r EXCEPT !.columns = [r.columns EXCEPT ![k] = located]]

\* writeDeferredBloomFilters, one filter.
WriteDeferredBloomFilter ==
  LET d == deferred[done + 1]
  IN  /\ Running("deferred") /\ phase = "start" /\ done < Len(deferred)
      /\ Output(BloomSegment(d.values, offset))
      /\ rowGroups' = [rowGroups EXCEPT ![d.group] = LocateFilter(@, d.column, offset)]
      /\ done' = done + 1
      /\ UNCHANGED <<rgVars, callVars, poolVars, job, phase, pos, source, meta, deferred, status, resets>>

DeferredBloomFiltersWritten ==
  /\ Running("deferred") /\ phase = "start" /\ done = Len(deferred)
  /\ phase' = "put"
  /\ UNCHANGED <<rgVars, callVars, poolVars, job, pos, source, done, meta, outVars>>

\* The buffers of the deferred filters go back to the pool, at the end of
\* writeDeferredBloomFilters and at the start of writer.reset.
PutDeferredBuffer ==
  /\ job # << >> /\ phase = "put" /\ deferred # << >>
  /\ PutBuffer(deferred[1].buffer) /\ UNCHANGED taken
  /\ deferred' = Tail(deferred)
  /\ UNCHANGED <<rgVars, callVars, mainVars, file, offset, rowGroups, status, resets>>

DeferredBuffersReturned ==
  /\ job # << >> /\ phase = "put" /\ deferred = << >>
  /\ IF job[1].op = "reset"
       THEN /\ phase' = "reset"
            /\ file' = {} /\ offset' = 0 /\ rowGroups' = << >> /\ status' = "open"
            /\ UNCHANGED job
       ELSE /\ phase' = "start" /\ job' = Tail(job)
            /\ UNCHANGED <<file, offset, rowGroups, status>>
  /\ UNCHANGED <<rgVars, callVars, poolVars, pos, source, done, meta, deferred, resets>>

FooterSize == HeaderSize

WriteFooter ==
  /\ Running("footer")
  /\ Output([at |-> offset, size |-> FooterSize, kind |-> "footer", rows |-> << >>,
             encoding |-> "PLAIN", values |-> {}])
  /\ status' = "closed"
  /\ job' = << >>
  /\ UNCHANGED <<rgVars, callVars, poolVars, phase, pos, source, done, meta, rowGroups, deferred, resets>>

\* The output fails in Close; the deferred filters' buffers are returned if
\* their writing was under way.
CloseFails ==
  /\ Faults
  /\ \/ Running("header") /\ job' = << >> /\ UNCHANGED phase
     \/ Running("footer") /\ job' = << >> /\ UNCHANGED phase
     \/ Running("deferred") /\ phase = "start" /\ done < Len(deferred)
        /\ job' = <<OnWriter("deferred")>> /\ phase' = "put"
  /\ status' = "failed"
  /\ UNCHANGED <<rgVars, callVars, poolVars, pos, source, done, meta, file, offset, rowGroups, deferred, resets>>

-----------------------------------------------------------------------------
\* The call that works on row group g is about to write the first page of a
\* column (writePageTo), or a filter that is deferred (writeRowGroup).
NeedsBuffer(g) ==
  \/ LET c == WithChunk(g, col[g])
     IN  /\ pc[g] = "write" /\ chunk[g] # << >>
         /\ BufferBytes(c) >= BufferSize[col[g]] /\ NeedsPageBuffer(c)
  \/ pc[g] = "flush" /\ NeedsPageBuffer(cw[g][col[g]])
  \/ InRowGroup("flush") /\ Group = g /\ NeedsPageBuffer(cw[g][pos])
  \/ InRowGroup("bloom") /\ Group = g /\ cw[g][pos].filter.allocated /\ DeferredBloomFilters
  \/ g = 0 /\ Running("columnar") /\ BatchFull /\ NeedsPageBuffer(BatchColumn)
  \/ g = 0 /\ Running("closeColumns") /\ NeedsPageBuffer(cw[0][pos])

\* It takes the buffer from the pool.  Whoever else uses the pool may do so
\* before the page or the filter is written, or has failed.
AcquireBuffer(g) ==
  /\ NeedsBuffer(g) /\ taken[g] = 0
  /\ taken' = [taken EXCEPT ![g] = PoolGet]
  /\ TakeBuffer
  /\ UNCHANGED <<rgVars, callVars, mainVars, outVars>>

\* The steps inside a call on row group g.
GroupStep(g) ==
  \/ NextChunk(g) \/ GroupFull(g) \/ WriteColumn(g) \/ WriteColumnFails(g)
  \/ FlushGroupColumn(g) \/ FlushGroupColumnFails(g)

\* The steps inside a call of the main thread.
MainStep ==
  \/ SkipEmptyRowGroup \/ TooManyRowGroups \/ StartRowGroup
  \/ FlushRowGroupColumn \/ FlushRowGroupColumnFails \/ FlushFilterPagesFails
  \/ WriteHeader \/ WriteColumnPages
  \/ NoBloomFilter \/ DeferBloomFilter \/ WriteBloomFilter \/ WriteRowGroupFails
  \/ AppendRowGroup \/ ResetRowGroupColumn
  \/ CloseColumn \/ CloseColumnFails \/ CloseHeader
  \/ WriteDeferredBloomFilter \/ DeferredBloomFiltersWritten
  \/ PutDeferredBuffer \/ DeferredBuffersReturned
  \/ WriteFooter \/ CloseFails
  \/ LoadCopiedChunk \/ StartCopyRows \/ RowsCopied \/ CopyRowsFails
  \/ ReencodeBatch \/ ReencodeBatchFails \/ WriteRowGroupSourceFails

\* The calls the application makes.
ApplicationCall ==
  \/ \E g \in Groups, n \in 1 .. MaxCall :
       \E kind \in CallKinds \cap {"Write", "WriteRows"} : WriteRows(g, n, kind)
  \/ \E n \in 1 .. MaxCall :
       \E kind \in CallKinds \cap {"copyable", "columnar", "opaque"} : WriteRowGroup(n, kind)
  \/ \E g \in Groups : FlushGroup(g) \/ Commit(g)
  \/ Flush \/ Close \/ Reset

Next ==
  \/ ApplicationCall
  \/ MainStep
  \/ \E g \in Groups : GroupStep(g) \/ AcquireBuffer(g)

Spec == Init /\ [][Next]_vars

\* A call that is running is not suspended for ever by the Go scheduler.
FairSpec ==
  Spec /\ WF_vars(MainStep)
       /\ \A g \in Groups : WF_vars(GroupStep(g)) /\ WF_vars(AcquireBuffer(g))

-----------------------------------------------------------------------------
(* Invariants *)

TypeOK ==
  /\ cw \in [Groups -> [Columns -> ColumnWriterState]]
  /\ numRows \in [Groups -> Nat]
  /\ pc \in [Groups -> {"idle", "write", "flush", "failed"}]
  /\ todo \in [Groups -> Seq(Row)]
  /\ chunk \in [Groups -> Seq(Row)]
  /\ col \in [Groups -> Columns]
  /\ generic \in BOOLEAN /\ resolved \in BOOLEAN
  /\ nextRow \in 1 .. MaxRows + 1
  /\ free \in Seq(Nat \ {0}) /\ fresh \in Nat \ {0} /\ taken \in [Groups -> Nat]
  /\ job \in Seq(Job) /\ phase \in Phases /\ pos \in Columns
  /\ source \in Seq(Row) /\ done \in Nat
  /\ meta \in [Columns -> ColumnChunk]
  /\ file \in SUBSET Segment /\ offset \in Nat
  /\ rowGroups \in Seq(RowGroup)
  /\ deferred \in Seq(DeferredFilter)
  /\ status \in {"open", "closed", "failed"}
  /\ resets \in Nat

\* The buffers held for row group g: the page buffers of its columns and, as
\* number 0, the one that was taken and has not been used yet.
Holders == 0 .. NumColumns
HeldBuffer(g, k) == IF k = 0 THEN taken[g] ELSE cw[g][k].pageBuffer

\* A buffer has one owner: the pool, one column writer, one deferred bloom
\* filter, or the call that has just taken it.  A buffer returned twice, or used
\* after it was returned, would have two, and the pages of two columns would be
\* mixed (the guarantee of the BufferPool interface).  Every early return and
\* error path has to keep it: writePageTo and writeRowGroup return what they
\* took, ColumnWriter.reset what a column still holds, writer.reset and
\* writeDeferredBloomFilters what the deferred filters hold.
PoolSafe ==
  /\ \A i, j \in 1 .. Len(free) : free[i] = free[j] => i = j
  /\ \A g, h \in Groups : \A k, m \in Holders :
       (HeldBuffer(g, k) # 0 /\ HeldBuffer(g, k) = HeldBuffer(h, m)) => (g = h /\ k = m)
  /\ \A i, j \in 1 .. Len(deferred) : deferred[i].buffer = deferred[j].buffer => i = j
  /\ \A i \in 1 .. Len(free) :
       /\ \A g \in Groups, k \in Holders : free[i] # HeldBuffer(g, k)
       /\ \A j \in 1 .. Len(deferred) : free[i] # deferred[j].buffer
  /\ \A j \in 1 .. Len(deferred) :
       \A g \in Groups, k \in Holders : deferred[j].buffer # HeldBuffer(g, k)

\* Segments of the output do not overlap and all end before the tracked
\* offset, whatever sizes the metadata predicted.
SegmentsDisjoint ==
  /\ \A s \in file : s.at + s.size <= offset
  /\ \A s, t \in file : s = t \/ s.at + s.size <= t.at \/ t.at + t.size <= s.at
=============================================================================
