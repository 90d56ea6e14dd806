---------------------------- MODULE RowGroupRows ----------------------------
(***************************************************************************)
(* Rows assembled from the columns of a row group (rowGroupRows and         *)
(* columnChunkValueReader), and the Reader on top of them.                  *)
(*                                                                         *)
(* A value is its row and whether it continues the row.  Column 1 has one   *)
(* value in each row; column 2 is repeated and has Width[row] values.  The  *)
(* reader of a column stands behind `next' values, of which the last        *)
(* `avail' are still in the buffer.                                         *)
(***************************************************************************)
EXTENDS Naturals, Sequences, SequencesExt

CONSTANTS Width,          \* Width[i + 1]: values of row i in the repeated column
          BatchSizes,     \* lengths of the slices given to ReadRows
          bufsize,        \* rowGroupRows.bufsize
          MaxRowCalls,    \* bound on the calls of a behaviour
          SeekAfterReset  \* whether rows are sought after Reset

NumRows == Len(Width)
Columns == {1, 2}

ASSUME RowGroupRowsAssumption ==
    /\ Width \in Seq(Nat \ {0})
    /\ BatchSizes \subseteq Nat
    /\ bufsize \in Nat \ {0} /\ MaxRowCalls \in Nat
    /\ SeekAfterReset \in BOOLEAN

VARIABLES cols,           \* columnChunkRows of each column
          r,              \* rowGroupRows and its call in progress
          reader,         \* Reader and the reader struct it wraps
          batch,          \* the rows of the slice: sequences of values
          answer          \* what the last call has returned

rowVars == <<cols, r, reader, batch, answer>>

Q == INSTANCE SeekablePages WITH numRows <- NumRows, position <- reader.rowIndex,
                                 result <- answer

Value(column, row, rep) == [column |-> column, row |-> row, rep |-> rep]
RowValues(column, row) ==
    IF column = 1 THEN <<Value(1, row, 0)>>
    ELSE [i \in 1..Width[row + 1] |-> Value(2, row, IF i = 1 THEN 0 ELSE 1)]
Values(column) == FlattenSeq([i \in 1..NumRows |-> RowValues(column, i - 1)])
ValuesBefore(column, row) ==
    Len(FlattenSeq([i \in 1..(IF row < NumRows THEN row ELSE NumRows) |-> RowValues(column, i - 1)]))

Unread == [next |-> 0, avail |-> 0]

RowsInit ==
    /\ cols = [k \in Columns |-> Unread]
    /\ r = [pc |-> "idle", rowIndex |-> 0, begun |-> FALSE, n |-> 0, column |-> 1,
            i |-> 1, numValuesInRow |-> 1, eof |-> FALSE, rowCount |-> 0]
    /\ reader = [rowIndex |-> 0, open |-> FALSE, calls |-> 0, reset |-> FALSE]
    /\ batch = <<>>
    /\ answer = Q!Sought(0)

\* rowGroupRows.SeekToRow on an open reader: nothing is done when the rows are
\* already there.  (`begun' is rowIndex >= 0 in the code.)
SoughtColumns(row) == [k \in Columns |-> [next |-> ValuesBefore(k, row), avail |-> 0]]
\* Mutant: a reader that stands before the row is taken to reach it.
AlreadyBefore(row) == r.begun /\ r.rowIndex <= row

AlreadyAt(row) == r.begun /\ r.rowIndex = row

MayCallRows == r.pc = "idle" /\ reader.calls < MaxRowCalls

\* Reader.ReadRows: reader.SeekToRow is a no-op, since both count the same rows;
\* the rows are opened, sought if they were never read, and read.
ReadRows(n) ==
    /\ MayCallRows
    /\ cols' = IF ~reader.open \/ ~r.begun THEN SoughtColumns(reader.rowIndex) ELSE cols
    /\ r' = [r EXCEPT !.pc = "reading", !.n = n, !.column = 1, !.i = 1,
                      !.numValuesInRow = 1, !.eof = FALSE, !.rowCount = 0,
                      !.begun = TRUE,
                      !.rowIndex = IF ~reader.open \/ ~r.begun THEN reader.rowIndex ELSE @]
    /\ reader' = [reader EXCEPT !.open = TRUE, !.calls = @ + 1]
    /\ batch' = [i \in 1..n |-> <<>>]
    /\ UNCHANGED answer

InLoop == r.pc = "reading" /\ r.column \in Columns /\ r.i <= r.n
NextRow == [r EXCEPT !.i = @ + 1, !.numValuesInRow = 1]
Col == cols[r.column]

\* The buffer of the column is empty: some values are read into it, ...
FillBuffer ==
    /\ InLoop /\ Col.avail = 0
    /\ \E k \in 1..bufsize :
          /\ Col.next + k <= Len(Values(r.column))
          /\ cols' = [cols EXCEPT ![r.column] = [next |-> @.next + k, avail |-> k]]
    /\ UNCHANGED <<r, reader, batch, answer>>

\* ... unless there are none.
ColumnEnds ==
    /\ InLoop /\ Col.avail = 0 /\ Col.next = Len(Values(r.column))
    /\ r' = [NextRow EXCEPT !.eof = TRUE]
    /\ UNCHANGED <<cols, reader, batch, answer>>

\* An error of the file ends the call with columns at different rows; the caller
\* does not go on.
ReadRowsFails ==
    /\ InLoop /\ Col.avail = 0
    /\ r' = [r EXCEPT !.pc = "failed"]
    /\ answer' = Q!Failed
    /\ UNCHANGED <<cols, reader, batch>>

\* The values of the current row at the head of the buffer.
Buffered == SubSeq(Values(r.column), Col.next - Col.avail + 1, Col.next)
\* Mutant: a row that goes on in the next buffer takes a value from it at least.
ValuesInRowAtLeastOne ==
    Min({k \in 1..Len(Buffered) : k = Len(Buffered) \/ Buffered[k + 1].rep = 0})

ValuesInRow ==
    LET ends == {k \in r.numValuesInRow..Len(Buffered) :
                    k = Len(Buffered) \/ Buffered[k + 1].rep = 0}
    IN  Min(ends)

AppendValues ==
    /\ InLoop /\ Col.avail > 0
    /\ LET k == ValuesInRow IN
       IF k = 0
       THEN /\ r' = NextRow
            /\ UNCHANGED <<cols, batch>>
       ELSE /\ batch' = [batch EXCEPT ![r.i] = @ \o SubSeq(Buffered, 1, k)]
            /\ cols' = [cols EXCEPT ![r.column].avail = @ - k]
            /\ r' = LET s == [r EXCEPT !.rowCount = IF @ < r.i THEN r.i ELSE @] IN
                    IF k # Len(Buffered) THEN [s EXCEPT !.i = @ + 1, !.numValuesInRow = 1]
                    ELSE [s EXCEPT !.numValuesInRow = 0]
    /\ UNCHANGED <<reader, answer>>

NextColumn ==
    /\ r.pc = "reading" /\ r.column \in Columns /\ r.i > r.n
    /\ r' = [r EXCEPT !.column = @ + 1, !.i = 1, !.numValuesInRow = 1]
    /\ UNCHANGED <<cols, reader, batch, answer>>

FirstRowOf(b) == IF b[1] = <<>> THEN NumRows ELSE b[1][1].row

ReadRowsReturns ==
    /\ r.pc = "reading" /\ r.column \notin Columns
    /\ r' = [r EXCEPT !.pc = "idle", !.rowIndex = @ + r.rowCount]
    /\ reader' = [reader EXCEPT !.rowIndex = @ + r.rowCount]
    /\ batch' = SubSeq(batch, 1, r.rowCount)
    /\ answer' = IF r.rowCount > 0 THEN Q!Page(FirstRowOf(batch), r.rowCount, FALSE)
                 ELSE IF r.eof THEN Q!EOF ELSE answer
    /\ UNCHANGED cols

\* Reader.SeekToRow
ReaderSeekToRow(row) ==
    /\ MayCallRows /\ (SeekAfterReset \/ ~reader.reset)
    /\ answer' = Q!Sought(row)
    /\ reader' = [reader EXCEPT !.rowIndex = row, !.calls = @ + 1]
    /\ IF reader.open /\ row # reader.rowIndex /\ ~AlreadyAt(row)
       THEN /\ cols' = SoughtColumns(row)
            /\ r' = [r EXCEPT !.rowIndex = row, !.begun = TRUE]
       ELSE UNCHANGED <<cols, r>>
    /\ UNCHANGED batch

\* Reader.Reset: rowGroupRows.Reset leaves its rowIndex as it is.
ReaderReset ==
    /\ MayCallRows
    /\ reader' = [reader EXCEPT !.rowIndex = 0, !.calls = @ + 1, !.reset = TRUE]
    /\ cols' = IF reader.open THEN [k \in Columns |-> Unread] ELSE cols
    /\ answer' = Q!Sought(0)
    /\ UNCHANGED <<r, batch>>

CallReadRows == \E n \in BatchSizes : ReadRows(n)
CallReaderSeek == \E row \in 0..(NumRows + 1) : ReaderSeekToRow(row)

RowsNext == \/ CallReadRows \/ FillBuffer \/ ColumnEnds \/ ReadRowsFails \/ AppendValues
            \/ NextColumn \/ ReadRowsReturns \/ CallReaderSeek \/ ReaderReset

RowsSpec == RowsInit /\ [][RowsNext]_rowVars

-----------------------------------------------------------------------------
(* Reader.ReadRows returns the rows from the one the caller has sought, in   *)
(* order and without a gap.                                                  *)
RowsSeek == Q!Spec

(* A row that ReadRows has returned holds the values of one row, of all      *)
(* columns, in column order, all of them: also when they were read through   *)
(* several buffers and pages that end elsewhere in every column.             *)
RowsWhole ==
    r.pc = "idle" /\ answer.kind = "page" =>
        \A i \in 1..Len(batch) :
            batch[i] = RowValues(1, answer.first + i - 1) \o RowValues(2, answer.first + i - 1)
==============================================================================
