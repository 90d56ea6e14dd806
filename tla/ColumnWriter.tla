---------------------------- MODULE ColumnWriter ----------------------------
(***************************************************************************)
(* One column of a row group under construction (type ColumnWriter of      *)
(* writer.go): the in-memory column buffer, the encoded data pages held in *)
(* a page buffer, the offset index being accumulated, the dictionary and   *)
(* its fallback to PLAIN, and the bloom filter.                            *)
(*                                                                         *)
(* The module has no variables.  A column writer is a record and every     *)
(* method is an operator from the state before to the state after, so that *)
(* module Writer can keep one record per column and per row group and the  *)
(* proofs can state what each method preserves as a lemma on records.      *)
(*                                                                         *)
(* A row is a positive number (its identity); ValueOf(k, r) is the value    *)
(* row r has in column k.  Sizes are in abstract bytes: a value counts for *)
(* one, a page header for HeaderSize.                                      *)
(***************************************************************************)
EXTENDS Naturals, Sequences, FiniteSets

CONSTANTS
  NumColumns,          \* number of leaf columns
  Value,               \* the values a column may hold
  ValueOf(_, _),       \* ValueOf(k, r): the value of row r in column k
  BufferSize,          \* BufferSize[k]: ColumnWriter.bufferSize of column k
  DictionaryColumns,   \* the columns configured with a dictionary encoding
  DictionaryMaxBytes,  \* WriterConfig.DictionaryMaxBytes, 0 for no limit
  FilterColumns,       \* the columns configured with a bloom filter
  HeaderSize,          \* size of an encoded page header
  MaxRows              \* bound: rows handed to the writer in a behaviour

Columns == 1 .. NumColumns

ASSUME ColumnAssumption ==
  /\ NumColumns \in Nat \ {0}
  /\ DictionaryColumns \subseteq Columns
  /\ FilterColumns \subseteq Columns
  /\ DictionaryMaxBytes \in Nat
  /\ HeaderSize \in Nat \ {0}
  /\ BufferSize \in [Columns -> Nat \ {0}]
  /\ MaxRows \in Nat

Row == 1 .. MaxRows

ASSUME ValueAssumption ==
  /\ IsFiniteSet(Value)
  /\ \A k \in Columns, r \in Row : ValueOf(k, r) \in Value

-----------------------------------------------------------------------------

\* The pages of a chunk in its page buffer: `at` is where the page starts in
\* that buffer, `size` the bytes it takes there, header included.
Page == [rows : Seq(Row), encoding : {"RLE_DICTIONARY", "PLAIN"}, at : Nat, size : Nat]

\* format.PageLocation, an entry of the offset index.
PageLocation == [offset : Nat, size : Nat, firstRow : Nat]

Filter == [allocated : BOOLEAN, values : SUBSET Value]

ColumnWriterState ==
  [ columnBuffer        : {"nil", "original", "plain"},  \* which buffer c.columnBuffer is
    original            : Seq(Row),     \* content of originalColumnBuffer
    plain               : Seq(Row),     \* content of plainColumnBuffer
    hasSwitchedToPlain  : BOOLEAN,
    dictionary          : SUBSET Value,
    pageBuffer          : Nat,          \* buffer taken from the pool, 0 for nil
    pages               : Seq(Page),    \* what was written to that buffer
    pageBytes           : Nat,          \* write position in that buffer
    locations           : Seq(PageLocation),
    numRows             : Nat,          \* rows in encoded pages
    totalCompressedSize : Nat,
    filter              : Filter,
    copied              : BOOLEAN ]     \* staged for a verbatim copy

NoFilter == [allocated |-> FALSE, values |-> {}]

\* A column writer as newConcurrentRowGroupWriter makes it.
NewColumnWriter ==
  [ columnBuffer |-> "nil", original |-> << >>, plain |-> << >>,
    hasSwitchedToPlain |-> FALSE, dictionary |-> {},
    pageBuffer |-> 0, pages |-> << >>, pageBytes |-> 0, locations |-> << >>,
    numRows |-> 0, totalCompressedSize |-> 0, filter |-> NoFilter,
    copied |-> FALSE ]

\* The values that a sequence of rows has in column k.
ValuesOf(k, rows) == { ValueOf(k, rows[i]) : i \in 1 .. Len(rows) }

\* The content of the buffer c.columnBuffer points to.
Buffered(c) ==
  IF c.columnBuffer = "plain" THEN c.plain
  ELSE IF c.columnBuffer = "original" THEN c.original ELSE << >>

totalRowCount(c) == c.numRows + Len(Buffered(c))

\* columnBuffer.Size(), one byte a value.
BufferBytes(c) == Len(Buffered(c))

\* Dictionary.Size(), one byte an entry.
DictionaryBytes(c) == Cardinality(c.dictionary)

-----------------------------------------------------------------------------
(* Methods *)

\* The column buffer's WriteValues.  The original buffer of a dictionary
\* column is indexed: writing to it inserts the new values in the dictionary.
\* The PLAIN buffer of the fallback never touches the dictionary.
WriteValues(c, k, rows) ==
  IF c.columnBuffer = "plain"
    THEN [c EXCEPT !.plain = @ \o rows]
    ELSE [c EXCEPT !.columnBuffer = "original",
                   !.original = @ \o rows,
                   !.dictionary = IF k \in DictionaryColumns
                                    THEN @ \cup ValuesOf(k, rows) ELSE @]

\* The buffer a page was just made from is emptied.
ResetBuffer(c) ==
  IF c.columnBuffer = "plain" THEN [c EXCEPT !.plain = << >>]
                              ELSE [c EXCEPT !.original = << >>]

\* The encoding of the next data page: c.encoding.
PageEncoding(c, k) ==
  IF k \in DictionaryColumns /\ ~c.hasSwitchedToPlain THEN "RLE_DICTIONARY" ELSE "PLAIN"

PageSize(rows) == HeaderSize + Len(rows)

\* The filter bits are set as pages are written only if the filter was sized
\* beforehand and the page is not a page of dictionary indexes.
writePageToFilter(c, k, rows) ==
  IF c.filter.allocated /\ PageEncoding(c, k) = "PLAIN"
    THEN [c.filter EXCEPT !.values = @ \cup ValuesOf(k, rows)]
    ELSE c.filter

\* writeDataPage up to and including recordPageStats; `id` is the buffer taken
\* from the pool if the column had none.  The location's offset is the
\* size accumulated so far in the metadata, not a position of the buffer.
writeDataPage(c, k, rows, id) ==
  [c EXCEPT
    !.pageBuffer = IF @ = 0 THEN id ELSE @,
    !.pages = Append(@, [rows |-> rows, encoding |-> PageEncoding(c, k),
                         at |-> c.pageBytes, size |-> PageSize(rows)]),
    !.pageBytes = @ + PageSize(rows),
    !.locations = Append(@, [offset |-> c.totalCompressedSize,
                             size |-> PageSize(rows),
                             firstRow |-> c.numRows]),
    !.numRows = @ + Len(rows),
    !.totalCompressedSize = @ + PageSize(rows),
    !.filter = writePageToFilter(c, k, rows)]

\* Does the dictionary exceed its limit?  Decided before the page is written.
DictionaryTooLarge(c, k) ==
  /\ k \in DictionaryColumns
  /\ ~c.hasSwitchedToPlain
  /\ DictionaryMaxBytes > 0
  /\ DictionaryBytes(c) > DictionaryMaxBytes

\* Mutant: the encoding of later pages is not switched.
fallbackOfBufferOnly(c) == [c EXCEPT !.columnBuffer = "plain"]

\* Later rows go to the PLAIN buffer, as the last row group left it.
fallbackDictionaryToPlain(c) ==
  [c EXCEPT !.columnBuffer = "plain", !.hasSwitchedToPlain = TRUE]

\* Mutant: a last page that is not full is not flushed.
FlushFullPage(c, k, id) ==
  IF BufferBytes(c) < BufferSize[k] THEN c
  ELSE ResetBuffer(writeDataPage(c, k, Buffered(c), id))

\* ColumnWriter.Flush when nothing fails.
FlushColumn(c, k, id) ==
  IF Buffered(c) = << >> THEN c
  ELSE LET written == ResetBuffer(writeDataPage(c, k, Buffered(c), id))
       IN IF DictionaryTooLarge(c, k) THEN fallbackDictionaryToPlain(written) ELSE written

\* Mutant: the column keeps its reference to the buffer it has returned.
keepPageBuffer(c) == c

\* The deferred function of writePageTo, of the column: the page buffer was
\* taken for the page that failed and is not the column's any more.
dropPageBuffer(c) == [c EXCEPT !.pageBuffer = 0]

\* ColumnWriter.Flush when the page cannot be encoded or written; `id` is the
\* buffer taken for it, 0 for none.  The rows of the page are dropped by the
\* deferred Reset of the column buffer, the filter may already have its values.
FlushColumnFails(c, k, id) ==
  LET dropped == ResetBuffer([c EXCEPT !.filter = writePageToFilter(c, k, Buffered(c))])
  IN  IF c.pageBuffer = 0 THEN dropPageBuffer([dropped EXCEPT !.pageBuffer = id]) ELSE dropped

\* Flush needs a page buffer from the pool.
NeedsPageBuffer(c) == Buffered(c) # << >> /\ c.pageBuffer = 0

resizeBloomFilter(c) == [c EXCEPT !.filter = [allocated |-> TRUE, values |-> {}]]

\* flushFilterPages: the filter of a dictionary column is built from the
\* dictionary; a filter sized beforehand was filled as pages were written;
\* otherwise the encoded pages are read back.
flushFilterPages(c, k) ==
  IF k \notin FilterColumns THEN c
  ELSE IF k \in DictionaryColumns
    THEN [c EXCEPT !.filter = [allocated |-> TRUE, values |-> c.dictionary]]
  ELSE IF c.filter.allocated \/ c.pageBuffer = 0 THEN c
  ELSE [c EXCEPT !.filter =
          [allocated |-> TRUE,
           values |-> UNION { ValuesOf(k, c.pages[i].rows) : i \in 1 .. Len(c.pages) }]]

\* The column buffer that GenericWriter.Write installs in its first call, over
\* whatever buffer the column has.
newColumnBuffer(c) == [c EXCEPT !.columnBuffer = "original", !.original = << >>]

-----------------------------------------------------------------------------
(* Verbatim copy of a column chunk of another file (writer_copy.go) *)

Lesser(a, b) == IF a <= b THEN a ELSE b

\* Page i of a chunk whose pages have n rows each, the last one at most n.
SourcePageRows(rows, n, i) == SubSeq(rows, (i - 1) * n + 1, Lesser(i * n, Len(rows)))
SourcePageCount(rows, n) == (Len(rows) + n - 1) \div n

\* A chunk of a source file that starts at `base`: its dictionary page, if it
\* has one, then its pages; the locations of its offset index are absolute.
SourceChunk(k, rows, n, base) ==
  LET dict == IF k \in DictionaryColumns THEN HeaderSize + Cardinality(ValuesOf(k, rows)) ELSE 0
      data == base + dict
      encoding == IF k \in DictionaryColumns THEN "RLE_DICTIONARY" ELSE "PLAIN"
      count == SourcePageCount(rows, n)
      at(i) == (i - 1) * (HeaderSize + n)
  IN  [ dictionaryPageOffset |-> IF dict = 0 THEN 0 ELSE base,
        dataPageOffset |-> data,
        totalCompressedSize |-> dict + count * HeaderSize + Len(rows),
        pages |-> [i \in 1 .. count |->
                     [rows |-> SourcePageRows(rows, n, i), encoding |-> encoding,
                      at |-> at(i), size |-> PageSize(SourcePageRows(rows, n, i))]],
        locations |-> [i \in 1 .. count |->
                     [offset |-> data + at(i), size |-> PageSize(SourcePageRows(rows, n, i)),
                      firstRow |-> (i - 1) * n]],
        numRows |-> Len(rows),
        values |-> ValuesOf(k, rows) ]

\* Mutant: the length of the dictionary page is subtracted twice.
RelativeToDictionary(src) ==
  [i \in 1 .. Len(src.locations) |->
     [src.locations[i] EXCEPT !.offset =
        @ - src.dataPageOffset - (src.dataPageOffset - src.dictionaryPageOffset)]]

\* The page locations of a source chunk, relative to its first data page.
RelativeLocations(src) ==
  [i \in 1 .. Len(src.locations) |->
     [src.locations[i] EXCEPT !.offset = @ - src.dataPageOffset]]

\* loadCopiedChunk: the locations become relative to the data pages, whose
\* length is what remains of the chunk after the dictionary page.  The source
\* carries a filter when the column is configured with one (otherwise it would
\* not be copyable).
loadCopiedChunk(c, k, src) ==
  LET dictLength == IF src.dictionaryPageOffset = 0 THEN 0
                    ELSE src.dataPageOffset - src.dictionaryPageOffset
  IN  [c EXCEPT
        !.copied = TRUE,
        !.pages = src.pages,
        !.pageBytes = src.totalCompressedSize - dictLength,
        !.dictionary = IF dictLength = 0 THEN {} ELSE src.values,
        !.locations = RelativeLocations(src),
        !.numRows = src.numRows,
        !.totalCompressedSize = src.totalCompressedSize,
        !.filter = IF k \in FilterColumns THEN [allocated |-> TRUE, values |-> src.values]
                                          ELSE @]

-----------------------------------------------------------------------------
\* Mutant: the rows that were buffered survive.
restoreColumnBuffer(c) ==
  [c EXCEPT !.columnBuffer = IF @ = "nil" THEN "nil" ELSE "original",
            !.hasSwitchedToPlain = FALSE]

\* The original column buffer comes back, empty.  The buffer of the PLAIN
\* fallback is not emptied.
resetColumnBuffer(c) ==
  [c EXCEPT !.columnBuffer = IF @ = "nil" THEN "nil" ELSE "original",
            !.original = << >>,
            !.hasSwitchedToPlain = FALSE]

\* The page buffer goes back to the pool.
putPageBuffer(c) == [c EXCEPT !.pageBuffer = 0, !.pages = << >>, !.pageBytes = 0]

\* ColumnWriter.reset.
resetColumn(c) ==
  [putPageBuffer(resetColumnBuffer(c)) EXCEPT
     !.dictionary = {},
     !.locations = << >>, !.numRows = 0, !.totalCompressedSize = 0,
     !.filter = NoFilter,
     !.copied = FALSE]
=============================================================================
