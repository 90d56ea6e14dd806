# A TLA+ model of parquet-go

This directory models the parts of parquet-go in which several pieces of state
have to agree over many steps: the writer that turns rows into column chunks,
pages, indexes and filters; the readers of pages, rows and metadata; the readers
that merge sorted row groups; and, in between, what becomes of a value: how rows
are shredded into columns, kept and sorted in buffers, encoded, indexed and
converted. TLC checks small instances; TLAPS proves the theorems listed below for
every value of the constants.

    tlc -workers 2 -config Writer_fallback.cfg MCWriter     # one run
    tlapm WriterRowProofs.tla                               # one module of proofs

`PROJECT.json` lists every run, the source lines behind every definition, a
mutation of the code for every property (TLC must find the property violated
under it), the findings and the hazards the properties are aimed at.

## 1. The system

| Component | State | Operations | Interaction |
|---|---|---|---|
| Column writer (`writer.go`, `ColumnWriter`) | column buffer, PLAIN fallback buffer, dictionary, encoded pages in a pooled buffer, offset index, filter | write values, flush a page, fall back to PLAIN, complete the filter, reset | driven by its row group; takes and returns page buffers |
| Row group writer (`ConcurrentRowGroupWriter`) | one column writer per leaf, row count | `WriteRows`, `Write`, `Flush`, `Commit`, reset | filled by a goroutine of its own; commits through the file writer |
| File writer (`writer`, `Writer`, `GenericWriter`) | output and tracked offset, metadata of the row groups, deferred bloom filters, the current row group | `Write`, `WriteRows`, `WriteRowGroup`, `BeginRowGroup`, `Flush`, `Close`, `Reset` | one thread; the only one that touches the output |
| Copy and re-encode paths (`writer_copy.go`, `writer_reencode.go`) | staged chunks | verbatim copy, column-oriented re-encoding, packing of segments | chosen by `WriteRowGroup` |
| Page buffer pools (`buffer_pool.go`) | free buffers | get, put | shared by all goroutines |
| Merge readers (`merge.go`, `dedupe.go`) | read-ahead buffers, tree of losers, winner, streak of wins | `ReadRows`, `SeekToRow`, `Close` | pull from one reader per row group |
| Merge segmentation (`merge.go`, `merge_refine.go`, `row_range.go`) | segments, bounds of the sorting columns | overlap detection, slicing at page boundaries | feeds the merge readers and the copy path |
| Shredding and assembly (`row.go`, `column_buffer_write.go`, `column_buffer_reflect.go`) | levels of the path to a leaf | `Deconstruct`, `writeRowsFuncOf`, `writeValueFuncOf`, `Reconstruct` | between Go values and column buffers |
| Column buffers (`column_buffer_*.go`) | values, levels, indirection of the rows | append, swap, less, page, reset | sorted by `Buffer` and `SortingWriter`; flushed by the column writer |
| Typed columns, dictionaries and pages (`type_*.go`, `dictionary_*.go`, `page_*.go`) | entries, hash table | insert, lookup, bounds | one of each per leaf; the writer moves from one to the other |
| Bounds, order and packing kernels (`*_simd_amd64.go`) | none | minimum, maximum, order, bit packing, byte transposition | pages, indexes, encodings; chosen by the processor |
| Encodings (`encoding/`) | none | encode, decode | column writer and page reader |
| Column and offset indexes, search (`column_index.go`, `search.go`, `multi_row_group.go`) | bounds of each page | build, truncate, reset, search | written by the column writer, read for seeks and look-ups |
| File and page readers (`file.go`) | position in a chunk, dictionary, page kept, buffered section | `ReadPage`, `SeekToRow`, `Close` | lazily loaded offset index; decryption |
| Asynchronous pages (`page.go`) | two channels, version | the same | a goroutine reads ahead |
| Several row groups as one (`multi_row_group.go`) | current chunk and its pages | the same | over the page readers of the chunks |
| Row readers (`row_group.go`, `reader.go`) | a value reader per column, row index | `ReadRows`, `SeekToRow`, `Reset` | over page readers |
| Thrift and metadata (`encoding/thrift`, `format`) | values decoded into | encode, decode, skip, reset | footers, page headers, indexes |
| Value conversion (`convert.go`, `type_*.go`) | none | `ConvertValue` | readers with a schema of their own |
| Sorting writer and buffers (`sorting.go`, `buffer.go`, `row_buffer.go`) | rows, temporary row groups | write, sort, spill, merge | writer, then merge readers |
| Reference counted buffers (`internal/memory`) | count per buffer | retain, release | every page |
| Compression, bloom filters, hashing, encryption, variants | keys, blocks | transformations | column writer and page reader |

What is hard in this code, and so what the properties are about:

* every column of a row group is cut into pages on its own schedule, yet all
  columns must hold the same rows, in the same order, and the row count is
  taken from the first one;
* page offsets are accumulated from sizes before anything is written and are
  made absolute later, after a dictionary page whose size is known last; for
  copied chunks they first have to be made relative to another file's chunk;
* the dictionary keeps growing after pages refer to it, may be abandoned in the
  middle of a row group, and three consumers (pages, dictionary page, bloom
  filter) assume different things about it;
* page buffers are pooled and shared by goroutines, returned on normal and on
  error paths, by `reset` that runs deferred, and again by `Reset`;
* a writer is reused: whatever `reset` forgets becomes part of the next file;
* a row group can fill up in the middle of a call, which is then resumed;
* one seek has three implementations (from the start of a chunk, through an index
  that may be loaded between two calls, and back into the page read last), and a
  goroutine that reads ahead may hold a page of the position before;
* rows are assembled from columns whose pages end in different places, and a row
  of a repeated column ends only where the next one begins;
* a value takes one of several ways that must agree: three ways into a column, the
  dictionary or the plain buffer, a vector kernel or the portable loop;
* metadata is decoded into values that were used before;
* a merge reads ahead from every input, must never refill a buffer whose rows it
  has already handed out in this call, and short-cuts comparisons when one
  input wins several times in a row.

The full list, each item at its line, is under `hazards` in `PROJECT.json`.

## 2. Modules

    ColumnWriter            methods of one column, as operators on records
      Writer                threads, row groups, output; actions
        WriterProperties    what a reader of the file may rely on
          MCWriter          instances for TLC
    RowLog                  abstract specification of the writer
    WriterProofs            what each method of a column preserves, induction over pages;
                            types, control flow, ownership of page buffers, disjoint segments
      WriterRowProofs       rows and row counts agree
        WriterLogProofs     what the file holds: locations, dictionaries, rows, sizes, filters;
                            the writer implements RowLog

    SortedMerge             abstract specification of a merge
    BufferedRowReader       inputs and buffers of a merge, the call in progress
      MergedRowReader2      two readers
        Merge2Proofs        it implements SortedMerge
      MergedRowReader       three and more readers, the tournament
        TournamentProofs    the runner-up is on the winner's path; it implements SortedMerge
    RunLength               the search for the end of a run

    SeekablePages           abstract specification of a reader with a position
    FilePages               pages of a column chunk of a file
    AsyncPages              pages read ahead by a goroutine
    MultiPages              pages of several row groups read as one
    RowGroupRows            rows assembled from columns, and the Reader above them
      PageReaderProofs      the four implement SeekablePages; no page read ahead is
                            lost, none is read with the ordinal of another, and
                            every row has all its values
    Thrift                  metadata on its way through the Thrift protocols
      MCReading             the five of them, for TLC

    Shredding               Go values to columns and back
    ColumnBuffers           columns in memory: layout, sorting, pages
    TypedColumns            the values of each type: buffer, dictionary, bounds
    Conversions             from type to type
    Encodings               pages to units of bytes and back
    PackingKernels          the vector kernels of the encodings
    VectorKernels           the vector kernels of bounds and order
      KernelProofs          they report the bounds and the order of every page
    PageIndex               column indexes and the search in them
      AlgorithmProofs       the indexes tell the truth, the search finds the first page,
                            and so does the search of RunLength for the end of a run;
                            columns of every type keep their values and bound them;
                            values survive conversions
      MCAlgorithms          these and RunLength, for TLC

### ColumnWriter

A column writer is a record; every method of the Go type is an operator from the
record before to the record after. It has no variables so that `Writer` can hold
one record per column and row group. Correspondence of the fields: `columnBuffer`
says which buffer the Go pointer refers to (`nil`, the original buffer or the
PLAIN one of the fallback); `original` and `plain` are their contents;
`hasSwitchedToPlain`, `dictionary`, `numRows` and `filter` are the Go fields;
`pageBuffer` is the identity of the buffer taken from the pool, `pages` and
`pageBytes` what was written to it; `locations` is `offsetIndex.PageLocations`
and `totalCompressedSize` the counter of the column metadata from which the
offsets are computed.

Data abstraction: a row is a number and has one value in each column; a value is
one byte, a page header `HeaderSize` bytes; compression, levels, statistics,
checksums and encryption are left out. None of the properties tells encodings
apart beyond "indexes into the dictionary" and "values".

### Writer

One main thread runs `Flush`, `Commit`, `Close`, `Reset`, `WriteRowGroup` and
writes to the current row group (number 0); each row group of `BeginRowGroup`
(the set `RowGroups`) has a goroutine that writes to it. A call is a sequence of
steps, one per column of every loop over the columns. `job` is the call stack of
the main thread (the row group being written, then what remains of the call),
`phase` and `pos` its position in `writeRowGroup`; `pc`, `todo`, `chunk`, `col`
the position of a writing call. `file` is the set of segments in the output,
`offset` the tracked offset; `rowGroups`, `meta` and `deferred` are the metadata
of finished row groups, of the row group being written, and
`deferredBloomFilters`. `free` is the page buffer pool, and `taken[g]` the buffer
that has been taken for row group `g` and not been used yet.

Decisions:

* *Errors.* With `Faults`, a page, a filter, the output or a source may fail at every
  step that writes or reads it, and each error path is an action. After an error the writer is
  used again only through `Reset`; a comment of `writeRows` says that
  applications are not expected to go on after an error. A row group of
  `BeginRowGroup` whose call failed is abandoned.
* *The pool.* A buffer is taken in a step of its own, `AcquireBuffer`, before the first page
  of a column or a deferred filter is written, and others may use the pool before that
  page or filter is finished or fails. Success keeps the buffer (`KeepTaken`: it becomes
  the column's or the deferred filter's); an error returns it (`ReturnTaken`), and
  `dropPageBuffer` clears the column's reference as `writePageTo` does, without which the
  deferred reset would return the buffer again. The memory pool is a `sync.Pool`. `PoolGet` hands out the buffer
  that was returned last, and a fresh one if there is none: reuse as early as
  possible is what exposes a buffer returned too early. Buffers of deferred
  filters come from another pool object in the code; the model uses one pool, in
  which a confusion of owners is easier, not harder, to reach.
* *WriteRowGroup.* Whether a row group can be copied or must be re-encoded
  depends on predicates over metadata of two files (`columnChunkIsCopyable`,
  `bloomFilterIsCopyable`, ...). Their outcome is an input, the `kind` of the row
  group; the three paths are modelled completely.
* *Write and WriteRows.* The first `GenericWriter.Write` installs new column
  buffers. Where this is not the question of a run, the application uses one
  kind of call (`MixedCallsAssumption` states when both may be used).

### RowLog

The abstract specification: rows of a call are pending, then held by a row group,
then part of the file. A publication appends all rows held by one row group, in
order. Rows vanish only with an error or with `Reset`. `WriterProperties` maps the
writer to it once for each of two columns that are paged differently, and
`WriterLogProofs` proves that the mapping is a refinement.

### BufferedRowReader, MergedRowReader2, MergedRowReader

A row is a pair of reader and position; the comparison sees the row's key. `taken`
and `used` say how much was read from a reader and emitted, so that the rows
between them are the window of the Go buffer; `len` and `full` decide how the
buffer grows. A read returns any number of rows that fit, the end, or an error
(`Fill`, `FillEOF`, `FillFails`). `want`, `n` and `out` are the slice of the call,
the rows written to it and everything emitted so far. The caller chooses the
length of the slice at every call, and `Retries` says after which failures it
calls again.

`MergedRowReader2` has one action for each part of `ReadRows`: reading from a
reader in `initialize` or at the start of the call, draining the last reader, and
one game: `Win` (with `emitRun` once the streak is long enough) or `Tie`.
`MergedRowReader` keeps `losers`, `winner`, `winnerLeaf`, `count` and `streak` of
the code; `PathFrom` is the walk `offset = (offset - 1) / 2` from a leaf to the root, and
`Replayed` folds the games along it. Both use `IsRun`, what `runLength` promises;
module `RunLength` models its code and shows that it keeps the promise.

`SortedMerge` is the abstract specification: a step emits some rows, the next ones
of their readers, sorted, and none larger than a row that remains; the end is
reported when nothing is left. Equal keys of different readers may come in any
order, because `MergeRowReaders` promises none.

### SeekablePages and its implementations

`SeekablePages` has the position, and what the last call has returned: a page or
batch of rows that starts at the position, the end, a failure, a seek, a seek
refused. A page after a seek must not begin in the middle of a row. Each
implementation instantiates it with a mapping of its own state.

* `FilePages` keeps the fields of the Go struct, except that the position of the
  buffered section is a page number rather than a byte offset, next to the page
  number the code believes in. Inputs are the chunk (pages, dictionary, encryption,
  V1 or V2, offset index absent, loaded, or loaded during the first seek) and the
  failures of reads. `PagesDecipherable` is about the ordinals given to decryption.
* `AsyncPages` has the caller and the goroutine, one step for each channel
  operation. The seek channel holds one entry, the page channel none; a page in
  the hands of one side is counted until it is released. The wrapped reader is
  represented by its position and returns any number of rows up to a page.
* `MultiPages` flattens nested row groups as the constructor does, and seeks and
  reads over chunks that may be empty.
* `RowGroupRows` has a column of one value per row and a repeated one, a value buffer
  smaller than a row, and the loop of `ReadRows` over columns; `Reader.SeekToRow`
  and `Reset` are on top of it. A read that fails or a seek out of range is a
  result. `RowsWhole` says that every row handed out has all its values and no
  others.

`Thrift` is the exception among the readers: it has no position. The encoder and
decoder work on any type description; the types of `format/parquet.go` are written
out. `Exchanges` pairs a writer's type with the type of a reader of another version
(a field dropped, a field of another type), and `FooterDecoder` decodes footers
one after the other into the same value, one of which may be cut off.

### Columns in memory

`ColumnBuffers` has a record per column, one operator per method, and the history
variable `rows`: the rows that the column must hold. A page is what a reader
sees of the column, with or without nesting; `PageShowsRows` compares the two, and
`LessFollowsRows` the comparison of the code with that of the rows. `TypedColumns`
leaves layout out and is about values: for each storage, what each kind of
Go value becomes in the buffer and in the dictionary (the two are separate code and a
column moves from one to the other), the order of the type, and the bounds of pages.
Widths are scaled: 32, 64, 96 and 128 bits are 2 to 5. `Conversions` follows a
value through `ConvertValue` to another type and back. `Shredding` has the three
ways in and the way out as recursive operators over a schema; the bitmap of nulls,
which is scanned a word at a time, is kept with words of `WordSize` bits.

### Algorithms

`Encodings` represents a page by its units (headers, packed groups, strings), so that
what the decoder reads is decided by what the encoder wrote. Packing keeps the low
bits of a value; the block, group and chunk sizes are constants. `PackingKernels`
follows the vector kernels at their real sizes on symbolic bits: a vector is a set of
pairs of a position and the name of an input bit, so one evaluation covers every input.
`VectorKernels` has the loads of the bounds and order kernels as sequences of
indexes, so that "every element is read and none outside" is a statement about
them, next to what the reductions make of the values, NaN included. `PageIndex` has
the column indexers with their reset, the truncation of bounds, the indexes of
pages in memory and of several chunks, and the search. Their properties compare
with direct definitions: the rows written, the least value of a page, the first
page that may hold a value.

## 3. Runs

| Run | Configuration | Shows |
|---|---|---|
| `writer_fallback` | `Write`, dictionary limit of one entry, row groups of 5 rows, file of 2 | offsets exact, dictionary covers its pages, limits hold, every call returns |
| `writer_concurrent` | one goroutine besides the main thread, failures everywhere, deferred filters, re-encoded row groups, a `Reset` after `Close` or an error | no buffer has two owners; columns agree; row counts agree |
| `writer_faults` | failures everywhere, deferred filters, copy and re-encode paths, two `Reset`s | segments disjoint; filters complete; refinement of `RowLog`: rows lost only with an error |
| `merge_two` | two readers, a failing read, calls with room for 0, 1 or 3 rows | refinement of `SortedMerge`; every call returns |
| `merge_three` | three readers, a failing read, calls with room for 1 or 3 rows | the same; the runner-up is on the winner's path; no refill of rows just emitted; progress |
| `reading` | the readers one at a time: chunks of every make, seeks, one failure, `Close`; metadata of this and other versions | four refinements of `SeekablePages`; ordinals; pages released once; whole rows; calls return; metadata survives |
| `algorithms` | every algorithm over its inputs up to the bounds | the comparisons with direct definitions of section 2 |
| `fallback_filter` | violation | the filter of a column that fell back to PLAIN misses values |
| `column_swap` | violation | an empty byte array and its neighbour are not exchanged |
| `lost_time` | violation | an optional time in a struct reached through a pointer is lost |
| `search_null_pages` | violation | the binary search misses a page that holds the value |
| `seek_twice` | violation | a second seek is ignored |

*Bounds.* Two columns, one with a dictionary and a page size of 2 rows, one
without and with pages of 3 rows: their pages never end at the same rows, and
one of them is flushed while the other is not. 3 to 8 rows give two or three row
groups, with full pages, partial pages and rows still in the buffer. One
goroutine besides the main thread suffices for every pair of owners of a buffer; the
theorem `PoolCorrect` covers any number. The one `Reset` of `writer_concurrent` follows a
`Close` or an error, also one between two deferred filters, and tells whether their
buffers are returned twice. The two of `writer_faults` allow a failure, a reuse and a second
reset of the reused writer.

For the merge, buffers of 3 rows that grow to 4 and runs from the second win on
(`minRowBufferSize`, `maxRowBufferSize` and `runDetectionStreak` are 24, 192 and 3
in the code) let a run begin inside a buffer, cross the other reader's
head, hit the end of the slice and hit the end of the buffer. Three keys are
needed for a run that goes too far to be out of order rather than a tie. Three
readers give the smallest tree in which the runner-up is not always at the
root and one subtree is deeper than the other. `MergedRowReader2` is covered for all
sizes by `Merge2Correct`.

For the readers, chunks of three or four pages, with a page that begins inside a
row and one that holds no row start at all, let a seek land before, in and behind
the page read last; one seek is made between two reads, because two are the
finding `seek_twice`. Row groups of zero to three rows with empty ones at the
start, in the middle and at the end have every kind of boundary. Four calls of the
asynchronous reader allow a read, a seek that overtakes it, a seek that replaces
another, and a close. A value buffer of two and rows of one, three and two values
make rows end inside, at and beyond the buffer. A footer is cut off after every fifth
token (`CutStep`), before and after whole ones. Failures of a file are not retried
(`RetryReads`), and rows are not sought after `Reset` (`SeekAfterReset`): see the
hazards.

For the algorithms, every bound crosses the unit of the code: with vectors of 2 and 1
lanes, 11 elements are two rounds of the kernels with two accumulators, or one of the
kernel with four (which the code keeps for short pages, `MaxSmallPage`), and every
remainder; 7 rows span two words of 4 bits; 5 to 10 values span several groups,
blocks and chunks; three rows in a buffer make all permutations of which one is a
cycle; two values in a typed column are the smallest page with two bounds, and with
2-bit numbers they take all pairs of values; 3 pages, split into up to 3 chunks in
every way, let the search go wrong on either side of the page that holds the value. The packing kernels run at
their real sizes, for every width of 32-bit values and for the widths of 64-bit
values that have a kernel of their own and some that do not.

*Deadlock* is not checked: an application may stop calling, and the calls of a
behaviour are bounded.

*Fairness* (`FairSpec`): weak fairness of the steps inside a call, of the main
thread and of each goroutine, and of `AcquireBuffer`. Nothing is assumed about the application making
calls. It is what the Go scheduler gives to a runnable goroutine; no step of the
writer blocks on another. The merge readers run in the caller's goroutine: weak
fairness of the steps of a call says that the call goes on. `AsyncFairness` is weak
fairness of the goroutine that reads ahead and of the steps of a call in progress:
that both always get out of their channel operations, whatever the other does, is
what `AsyncCallsReturn` shows.

### Findings

1. `fallback_filter`. `flushFilterPages` builds the filter of a dictionary column
   from the dictionary only. After the fallback to PLAIN, values do not enter the
   dictionary, so the filter has false negatives.
2. `column_swap`. A byte array column puts its memory in order only if its offsets
   are out of order. An empty value shares the offset of the next one: exchanging the
   two exchanges lengths and leaves offsets in order, and the page, which cuts values
   by offsets, shows them as before.
3. `lost_time`. `writeRowsFuncOfTime` takes any definition level above zero as a sign
   that a pointer has counted the level of the time itself. For an optional time that
   is a plain field of a struct reached through a pointer or a list this is the
   parent's level: a null is written.
4. `search_null_pages`. The order of a column index says nothing about pages of
   nulls, but `binarySearch` compares with nulls last, so a null page sends it to the
   wrong half.
5. `seek_twice`. A seek into the page read last sets `serveLastPage`; a following
   seek elsewhere does not take it back, and the next `ReadPage` serves the old page.

Disagreements met while modelling that have no run of their own, with the constant
that keeps them out of the runs or the reason that they are not reached:

* Rows in the PLAIN buffer survive `Reset`, and the reset after a failed
  `writeRowGroup` (`writer.go:2670`; no run has a fallback and `Reset` or failures).
* A `WriteRowGroup` refused with `ErrTooManyRowGroups` leaves its rows in the column
  buffers (`writer.go:1503`; `WriteAlone` in section 4).
* The first `GenericWriter.Write` replaces column buffers in which `WriteRows` has put
  rows (`writer.go:208`; `CallKinds`).
* Both merge readers set `initialized` before `initialize` has succeeded: after a
  failure there, the next call reports the end (`merge.go:585`; `Retries`).
* Sorting columns of a row group are copied into a slice of length zero
  (`writer.go:1749`), and the ordinals of encrypted pages and the adjustment of their
  sizes are taken at other times than the pages are written (`writer.go:1510`,
  `writer.go:2622`): metadata the model leaves out.
* A merged reader that returns neither rows nor an error makes the merge emit stale
  rows (`merge.go:1007`); the readers of this repository do not do it.
* A row group reader does not go back to the first row on `Reset`, and skips a seek to the
  row it believes to be at (`row_group.go:269`; `SeekAfterReset`).
* A byte array column written to after `Page` lacks its last offset
  (`column_buffer_byte_array.go:61`; `WriteAfterPage`), and `Less` of an optional column
  after `Page` compares values that have moved.
* After a seek by scanning in a chunk with a dictionary page, `index` counts the
  dictionary page (`f.index = 1`, `file.go:1564`). If the offset index of the chunk is
  loaded later (`SkipPageIndex`, then `FileColumnChunk.OffsetIndex`), the next seek
  compares this count with a page number and may leave the reader where it is. No chunk
  of the run has both (`MCChunks`, `OneSeekAtATime`); TLC finds `FilePagesSeek` violated
  when one is added.
* Bounds cut to bytes of 0xFF, null pages of 128-bit and fixed-length columns, and
  `IsDescending` of several chunks (`multi_row_group.go:434`) are not what a page holds;
  `IndexTruthful` excludes them by name.
* Not reached by any module: `multiBloomFilter.Check` (`multi_row_group.go:303`), the
  error shadowed in the filter of `filter.go:72`, the position of `forwardRowSeeker`
  (`row.go:250`), and `booleanPage.Data` of a slice (`page_boolean.go:46`).

## 4. Proofs

The first part of `WriterProofs` states, for each method of a column writer, that the result
is a well-typed column writer, what happens to its page buffer, and which rows its
pages, buffers and dictionary hold. The proofs of the specification cite these lemmas
by name and never expand the methods. It also holds the inductions over pages: that
rows concatenated from pages have the sum of the lengths, and that the rows of a part
are rows of the whole. They go by the least prefix or by induction over finite sets,
on the recursive functions behind `FlattenSeq` and the sums.

The invariants of the writer build on each other:

* `TypeCorrect == Spec => []TypeOK`. `TypeOK` is inductive. Its content is
  arithmetic as much as types: locations of copied chunks stay natural
  numbers when the data page offset is subtracted, loops stay within the columns,
  and a deferred filter names a column that exists.
* `ControlCorrect == Spec => []Control`. Everything else needs to know which steps
  can meet. `JobShape` lists the call stacks of the main thread, `PhaseFits` the
  phases and columns that belong to each, `StatusFits` says that a row group has no
  goroutine while a job works on it, `SourceFits` which row group the main thread
  reads from when it re-encodes or copies, `CallFits` what the chunk of a writing call is
  while it goes from column to column, and `RoomFits` that there is room in the metadata for a row
  group whose writing has begun.
* `PoolCorrect == Spec => []PoolSafe`: no page buffer has two owners. `PoolSafe` is not
  inductive, since nothing in it says that a fresh buffer is not in use. The
  invariant is `PoolInv == PoolSafe /\ PoolBounded`, where `PoolBounded` says that
  every buffer in the pool, in a column writer, in a deferred filter or just taken is
  below `fresh`. A call that has taken a buffer and not used it is an owner (`Holders`,
  number 0). One step of the proof for each action, grouped by what the action does
  to ownership: it leaves it alone, takes a buffer, gives what was taken to a column or to a
  filter, returns it on an error, or returns what a column or a filter has held.
* `FileSegmentsDisjoint == Spec => []SegmentsDisjoint`. The invariant adds that
  every segment has a positive size and that the pages of a page buffer follow each
  other (`AllLaidOut`), also those of a copied chunk: the pages of a column are
  written at once, at places that were computed when they were encoded.
* `RowsAccountedCorrect`: `Spec => []RowsAccounted`. Between two
  columns of a call the columns differ, so that the invariant speaks of the rows a
  column is still to get: with those of the chunk (`Ahead`), or of the row group given
  to `WriteRowGroup` (`Taken`), all columns have the same rows (`RowInv`). `CountInv`
  relates them to the counter that the limit is enforced with, which `Write` updates
  later than the columns and `WriteRowGroup` not at all.
* `LocationsCorrect`, `ColumnsAlignedCorrect`, `DictionaryCorrect` and `SizesCorrect`:
  four properties of the finished file from one invariant, `ContentInv`. `GroupKept`
  says of each row group in memory that the locations of a column are those of its
  encoded pages, relative to the first, that the dictionary holds what the pages
  refer to, and that the columns hold the same rows; `CurrentWritten` says which
  part of that is in the output at each phase of `writeRowGroup`, with offsets that
  become absolute in the middle of it; `FileWritten` says the same of finished row
  groups, whose pages stay where they are because the output only grows. That the
  segment found at an offset is the one that was written there is
  `SegmentsDisjoint`. `GroupFits` says that a column is flushed before its buffer
  passes the page size by more than one write.

* `BloomFiltersCorrect == Spec => []BloomFilterComplete`. `FilterInv`, on top of
  `ContentInv`, follows a filter through the code. In a column writer (`Filtered`), a
  filter that was sized beforehand has the values of the encoded pages, except that
  those of a dictionary column are still only in the dictionary. Once the column is
  flushed (`Complete`) the filter has them all: it was filled page by page, or sized and filled
  from the dictionary or from the page buffer. After the bloom phase
  (`CurrentFiltered`, `FileFiltered`) it is in the file at the offset the metadata
  gives, or among the deferred filters under the ordinal and the column of its
  chunk. `FilterControl` supplies what this needs to know of control: a deferred
  filter belongs to a row group of the metadata or to the one being written
  (`DeferredFits`), an offset never survives in metadata that is used again
  (`MetaClean`), and the footer comes after the last deferred filter
  (`CloseOrder`, `FileLocated`).
* `WriterImplementsRowLog == Spec => ImplementsRowLog`: no row is lost, doubled or
  moved without an error. The invariant is `LogInv`: `ContentInv`, and what it does not
  say of the buffers that a failed call leaves behind, since a page buffer that fails
  late must not take rows of the next row group with it. Each action
  falls in one of four groups: it changes the rows of a column (`Changing`), a page or the filter fails (`Dropping`), a row group is emptied because it was published or reset
  (`Begins`), or it only works on pages, offsets and filters. `FileRowsJoin`
  carries the publication: the metadata appended to the file adds the rows the
  row group held, because its segments are where `ContentInv` says.

Six hypotheses restrict these results. They are on the constants, and each excludes
something the code gets wrong (section 3, Findings) or a limit it does not keep:
`FallbackOrReset` excludes a writer that both may fall back to PLAIN and is `Reset`, since
rows left in the PLAIN buffer come back; `OneKindOfWrite` excludes `Write` on a writer
that also has `WriteRows`, since the first `Write` drops rows. `NoFilterFallback`, for
`BloomFiltersCorrect` only, excludes dictionary columns that have a filter and may fall
back, whose filter then lacks the values of the PLAIN pages (the run
`fallback_filter`). `RowsAtATime`, for
`SizesCorrect` only, excludes row groups that are copied or re-encoded: a copied page
has the size it had, and the re-encoding hands over up to 1024 values at a time where
`WriteRows` stops after 64 (`maxRowsPerWrite`), so that neither promises pages of the
size asked for. Two more are for `WriterImplementsRowLog` only. `FallbackOrFaults`:
when `writeRowGroup` fails on one column, rows of another column
that had fallen back to PLAIN stay in that buffer and come back with the next fallback.
`WriteAlone`: a `WriteRowGroup` refused with `ErrTooManyRowGroups` has
already put its rows into the column buffers, and the first `Write` replaces these.
TLC finds `ImplementsRowLog` violated when `FallbackOrReset`, `FallbackOrFaults` or
`WriteAlone` is dropped; the run `writer_faults` satisfies all three. The theorem also
asks for a second column, which `ImplementsRowLog` names.

* `RunLengthIsCorrect == Spec => [](RunLengthCorrect /\ WithinWindow)`. The loop
  invariant says that the rows up to `lo` qualify and the row at `hi`, or the last
  row, does not; sortedness carries this to all rows between the probes.
* `Merge2Correct == Spec => ImplementsMerge`, for callers that do not call again
  after their first call failed (section 3 says why). The invariant
  has three parts: `Windows` (what is emitted was read, what was read exists),
  `Control` (at each point of a call, which readers are settled, that is in use or
  used up, and which have a head to compare), and `Fresh` (the last reader is
  drained only by a call that has emitted nothing, so that it fits the slice).
  `MergeStep` lists what a batch must satisfy to be a step of `SortedMerge`, `RunStep`
  shows it for a run of one reader, and `WinStep`, `DrainStep` and `TieStep` reduce
  the actions to these two.
* `RunnerUpIsOnPath == Spec => []RunnerUpOnPath` and `TournamentCorrect == Spec =>
  ImplementsMerge`, for any number of readers. The tree keeps only losers; the
  invariant `TournamentInv` speaks of the winners as well, by a function `w` from
  positions to readers. `Tree` says that at each node one of the winners of the two
  positions below wins again and the other is the loser kept there, and `Ordered`
  that the winner's head is not the larger one. While the winner's own head is stale,
  because its buffer was consumed, read again or run dry, the games on the line from
  its leaf to the root are undecided, and `Standing` asks for `Ordered` elsewhere
  only. This is still enough for `RunnerUpOnPath`: any other reader lost to one that
  lost to the winner. `ReplayTree` shows that the games `replayGames` plays
  again, with the invariant after each of them, make the tree ordered everywhere, also when
  the winner leaves it; the tree that `playInitialGames` makes is built from its lower positions
  upwards. `Seated` and `Finished` count the readers that are left while
  `initialize` reads and when the merge ends. `SortedMerge` takes runs, and a run is a
  step of it because `runBound` stops at a head on the winner's path.
  The first theorem has no hypothesis, the second that of the two-way merge.
* `NoRefillAfterEmitCorrect` and `ReadRowsProgressCorrect`, for the tournament: by
  `RowsInHand`, a call that has emitted rows goes on only with a winner that has more
  of them in its buffer, so that it neither reads nor leaves with nothing.
* `AsyncPagesImplementSeek == Spec => AsyncPagesSeek` and `NoPageLost == Spec =>
  []PagesReleased`. The invariant is about what the two goroutines know of each
  other: `OffersOnePage` says where the page counted as not released is, `OfferIsNext`
  that a page offered under the reader's version starts at the reader's position (a
  page of an older version may start anywhere), and `VersionsAgree` that
  the goroutine is behind only while a seek is in the channel. With this, a page that
  passes the comparison of versions is a step of `SeekablePages` and every other step
  of the goroutine is a stutter.
* `MultiPagesImplementSeek == MultiSpec => MultiPagesSeek`. The invariant says that the
  open chunk is one of the list and the reader inside it (`OpenInside`), and that
  behind the last chunk no row is left (`NothingBehind`). The position is a sum of row
  counts, and `RowsBefore` adds them with a fold that chooses the order of the terms:
  `SumsRemove` shows that any term may be added last, from which the recursion and the
  monotony of `RowsBefore` follow, and with them that a seek comes to the one chunk that
  has the row.

* `PagesDecipherableCorrect == FilePagesSpec => []PagesDecipherable`, with failures and
  retries and any number of seeks. The ordinal is a field of the buffered reader, which
  a seek replaces as a whole; `OrdinalFollows` says what it is at every place of
  the section, before the dictionary, at a page, and inside one that was not read to
  its end.
* `FilePagesImplementSeek == FilePagesSpec => FilePagesSeek`, for chunks of any pages.
  `PlaceInv` says that `index` is the number of the next page wherever an offset index
  can make use of it (`IndexFollows`), that the page kept for another seek is the one
  before it (`LastPageBehind`), that the scan of a seek starts at the beginning of a row
  (`RowBegun`), and where a failed read may leave the section (`FailureEnds`). The
  position is the row of the section plus the rows to skip, or of the kept page. The
  hypothesis `OneSeekAtATime` has three parts, without which the code breaks the promise:
  at most one seek between two reads (a second one is the finding `seek_twice`), no call
  after a failed one (part of a page was read then), and no index loaded late for a chunk
  with a dictionary (section 3).
* `RowsWholeCorrect == RowsSpec => []RowsWhole` and `RowsImplementSeek == RowsSpec =>
  RowsSeek`, for a flat and a repeated column with any number of values in each row, buffers of any
  size and columns that are read in pieces of any length. Both columns are read one after
  the other and nothing but the values themselves says where a row ends, so the invariant
  `RowsInv` says that each column comes to the same row: `ColumnsAtRow` between two
  calls, and inside the loop `LoopPlaces`, by which the columns before the current one
  stand behind the last row of the slice and those after it before the first.
  `LoopRows` is what the slice holds meanwhile, whole rows, empty ones and the
  row being assembled, `TakenOfRow` values of which have been moved, and `LoopCount` is the
  number of rows that the call will report. `ValuesInRowIs` shows that the scan for the
  next value with repetition level 0 stops at the end of the row or of the buffer,
  whichever comes first, also when a row ended exactly where the previous buffer did.
  `~SeekAfterReset` excludes seeks of a reader that has been reset, because there the code
  breaks the promise (`row_group.go:269`, section 3).

* `IndexTruthfulCorrect == IndexSpec => []IndexTruthful` and `SearchFindsFirstCorrect ==
  IndexSpec => []SearchFindsFirst`, for every kind of column, any pages and chunks and any
  limit on the size of bounds. The invariant `IndexInv` says that the indexer has one entry for each
  page since the last `Reset` (`IndexerHolds`), and of each chunk that its index covers its
  pages and that the order it claims is that of its bounds (`ChunkHolds`). What a
  chunk claims follows from the order of neighbours (`AscendingPairs`) and from what the
  cut of a bound keeps: `CutMonotone` says that cutting does not reverse an order, and
  `CutCovers` that an incremented maximum is above everything it was cut from, unless it is
  all 0xFF. The pages of all chunks are one sequence, whose entry `p` is found by
  `mapPageIndex`: `FlattenIs` and `IndexUnique` show that this is the entry of page `p`.
  `SpansRise` carries an ascending order from chunk to chunk, which needs a bound in each of
  them: `LastBounded` of a chunk of null pages compares nothing. `BisectionEnds` shows that
  `binarySearch` ends at the first page it may not go behind, for every index in which these
  pages are a suffix; null pages in the middle destroy just that, hence the hypothesis of
  `SearchFindsFirst` and the finding `search_null_pages`. `BoundsRecorded` excludes columns
  written without page bounds and null pages of fixed-length and 128-bit columns, whose
  indexers drop the null bounds: the bounds behind them then belong to other pages
  (section 3).
* `FallbackKeepsValuesCorrect == TypedSpec => []FallbackKeepsValues` and
  `BoundsCoverPagesCorrect == TypedSpec => []BoundsCoverPages`, for every type, columns of
  any length and the kinds of Go values of the model. By `TypedInv` every index of the
  dictionary leads to the value that the Go value at its place inserts (`IndexesLead`), and
  the values of the buffer are the ones its Go values write (`PlainFollows`). A dictionary and
  a buffer are two implementations of the same conversion, and `ValuesOfBoth` goes
  through the eleven storages to show that they agree up to what the type compares as
  equal, wherever neither panics. `LessIsPlace` says that each of the orders is that of an
  integer, the `Place` of a value, from which `MinMaxIs` follows: some value of a page is
  least and some is greatest. `TypesAreSound` is the fact about the table of types
  that it needs: a page compares its values as the readers of the type do.
* `ConversionsKeepValuesCorrect == ConvertSpec => []ConversionsKeepValues`, for any number
  of conversions in any order. That a value shows its number is not inductive: bytes carry no
  sign, an unsigned number has the bits of a signed one, and an array of a fixed
  length stays one in a column of byte arrays. `ConvInv` says how a value of each type has its
  number (`Has`): in the bits the type gives it, or in which forms of bytes. `PlainStep` shows
  that each of the conversions between the plain types, other than the four that
  `ChangesNumbers` names, is refused or keeps this; `DayConverts` does the same for dates and
  timestamps.
* `KernelsScanEverythingCorrect == KernelSpec => []KernelsScanEverything`, for every number
  of lanes, every length of a page and every size up to which the wider unroll is used; the
  values are the four codes of the model, and of the page only that it is a sequence of
  them is used (`PagesAreCodes`). By the arithmetic of the loops, the vectors that an accumulator
  loads read every element and nothing outside the page (`VectorsReadEverything`), and the
  pairs that an order kernel compares are those of all neighbours, however its last
  vectors overlap (`EveryPairCompared`). What a kernel reports is the best of the bests of
  parts of the page. Each order is that of an integer, the rank of a value; `BestOf`
  returns one of its candidates, and no better one is among them, so it does not matter in
  which parts and in which order a page is read (`WinsParts`). NaN has no rank: the merging
  kernels start with the first element and never take a NaN that comes later; the fast ones may,
  but only if a vector has one, and then the sum of the vectors shows it, because they load
  every element. 128-bit values are ranked by value, then by index, as the tie-break between
  lanes does, so that the first of equal values is found. All pairs are in order if the
  neighbours are, because the orders are transitive (`NeighboursSuffice`), also that of floats,
  which no NaN is in.

Assumptions: `ColumnAssumption`, `ValueAssumption`, `WriterAssumption` and
`MixedCallsAssumption` for the writer, `MergeAssumption`, `TwoReaders` and
`RunLengthAssumption` for the merge, `AsyncAssumption`, `MultiAssumption`,
`FilePagesAssumption` and `RowGroupRowsAssumption` for the readers of pages and rows,
`IndexAssumption` for the indexes, `TypedAssumption` for the types of columns and
`KernelAssumption` for the kernels (a vector has a lane, bounds are naturals), on the constants only; TLC evaluates them in every run.

Only model-checked: liveness (`CallsReturn`, `AsyncCallsReturn`), which is out of the
prover's reach, and what is built on recursive definitions.
`Thrift`, `Shredding`, `Encodings`, `PackingKernels` and `ColumnBuffers` compute by
recursion over data: the induction theorems of the library take an operator as a
parameter, which the provers cannot instantiate, and modules with recursive
operators cannot be proved about at all.
Where the proofs above need induction, on
prefixes, finite sets, sums, the nodes of the tournament or the ranges of a bisection, they
go by the least or the greatest element of a set of naturals. The sums and the
concatenation of `PageIndex` and the accumulators of `VectorKernels` are folds of the
library, whose recursive functions `ClimbsExist`, `FlattenExists` and `FoldExists` show to be there.

## 5. Not modelled

* *Bytes.* Pages are rows and sizes in the writer and sequences of units in the
  encodings; compression, checksums and the varints of headers are left out, and so
  is what decoders do with corrupt pages.
* *Levels in the writer.* Rows have one value in each column there; repetition is in
  `ColumnBuffers`, `Shredding`, `RowGroupRows` and in the pages of `FilePages`. A batch of
  `copyColumnValues` that ends inside a row (`writer_reencode.go:221`) is in no run.
* *The limit of 1 GB* on dictionaries of byte arrays (`writer.go:2101`): a second reason for the
  same fallback.
* *Some errors of readers.* In `MultiPages` the pages of a chunk neither fail to be read,
  to seek or to be closed (`multi_row_group.go:513-519`, `538-540`, `567`), and in
  `RowGroupRows` a column's `SeekToRow` does not fail (`row_group.go:271-273`). A
  successful read of an input of a merge has at least one row (`merge.go:1007-1013`).
* *Shortcuts*: whole bytes of booleans written at once
  (`column_buffer_boolean.go:106-157`), byte arrays among decimals
  (`type_decimal.go:67-70`), the fallback of `mapPageIndex` for pages out of range
  (`multi_row_group.go:332-340`), the index of a column without a type,
  `indexedColumnIndex.IsAscending` (`dictionary.go:413-420`), and the order kernels of
  `order_purego.go`, which take pairs with NaN as ordered.
* *Opening files*, prefetching and the modes of reading a footer: I/O without state
  that later calls depend on, except for the offset index, which `FilePages` has.
* *Merge segmentation* (`merge_refine.go`, `row_range.go`) and the packing of segments
  by `WriteRowGroup`; the merge readers assume nothing about the overlap of inputs.
* *Sorting writer and row buffers*: a sort over `ColumnBuffers`, then `Writer`, then the
  merge readers. The composition is not a module.
* *Row reader wrappers* (filter, transform, dedupe, scan): one loop each.
* *Conversion of rows between schemas* and *schema construction* by reflection.
* *Hash probing* and *bloom filter* kernels: the table is a map, the filter a set.
* *Reference counts*: `AsyncPages` checks that pages are released once; retaining by
  slices of pages is left out.
* *Variants*: a codec of its own over recursive values.
* *Cryptography*, keys and the writer's side of encryption.
* *Thrift messages*, strict mode, embedded structs; a nil and an empty byte slice
  are one value.

## 6. Plan

1. `MergeSegments`: overlap detection from column indexes and the refinement of
   segments at page boundaries: the concatenation of the segments is sorted and
   complete. Proof: the cuts partition the rows.
2. `SortingWriter`, composed of `ColumnBuffers`, `Writer` and the merge readers, and the
   packing of segments by `WriteRowGroup`.
3. `Writer` and `FilePages` composed through the offset index that one leaves and the
   other reads.
4. Reference counts of page memory.
