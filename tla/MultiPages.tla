----------------------------- MODULE MultiPages -----------------------------
(***************************************************************************)
(* The pages of a column of several row groups that appear as one           *)
(* (multi_row_group.go).  A chunk is represented by its number of rows; its *)
(* page reader keeps the promise of SeekablePages.                          *)
(*                                                                         *)
(* A row group of the list may itself be a multiRowGroup: its chunks and    *)
(* their row counts are spliced into the list.                              *)
(***************************************************************************)
EXTENDS Naturals, Sequences, SequencesExt

CONSTANTS RowGroupLists,    \* lists of row groups: each a list of chunk sizes
          MaxMultiCalls     \* bound on the calls of a behaviour

ASSUME MultiAssumption == /\ RowGroupLists \subseteq Seq(Seq(Nat))
                          /\ MaxMultiCalls \in Nat

VARIABLES rowCounts,        \* multiColumnChunk.rowCounts, of the flattened chunks
          m,                \* multiPages
          got,              \* what the last call has returned
          calls

multiVars == <<rowCounts, m, got, calls>>

\* multiRowGroup.init: the chunks of nested row groups are flattened.
Flattened(rowGroups) == FlattenSeq(rowGroups)

\* Mutant: the rows of chunk i are counted before it.
RowsThrough(counts, i) ==
    FoldSeq(+, 0, SubSeq(counts, 1, IF i < Len(counts) THEN i + 1 ELSE i))

RowsBefore(counts, i) == FoldSeq(+, 0, SubSeq(counts, 1, i))
TotalRows == RowsBefore(rowCounts, Len(rowCounts))

\* index chunks were opened; the open one stands at row `at' of its own.
MultiPosition ==
    IF m.open THEN RowsBefore(rowCounts, m.index - 1) + m.at
    ELSE IF m.index = Len(rowCounts) THEN m.beyond
    ELSE RowsBefore(rowCounts, m.index)

M == INSTANCE SeekablePages WITH numRows <- TotalRows, position <- MultiPosition,
                                 result <- got

MultiInitOn(lists) ==
    /\ \E rowGroups \in lists : rowCounts = Flattened(rowGroups)
    /\ m = [pc |-> "idle", open |-> FALSE, at |-> 0, index |-> 0,
            beyond |-> IF rowCounts = <<>> THEN 0 ELSE TotalRows]
    /\ got = M!Sought(0)
    /\ calls = 0

MultiInit == MultiInitOn(RowGroupLists)

\* ReadPage, one turn of its loop: a page of the open chunk, ...
MultiReadPage ==
    /\ m.open /\ m.at < rowCounts[m.index]
    /\ calls < MaxMultiCalls
    /\ \E n \in 1..(rowCounts[m.index] - m.at) :
          /\ got' = M!Page(MultiPosition, n, FALSE)
          /\ m' = [m EXCEPT !.at = @ + n]
    /\ calls' = calls + 1
    /\ UNCHANGED rowCounts

\* ... or its end, after which it is closed, ...
ChunkEnds ==
    /\ m.open /\ m.at >= rowCounts[m.index]
    /\ m' = [m EXCEPT !.open = FALSE, !.beyond = MultiPosition]
    /\ UNCHANGED <<rowCounts, got, calls>>

\* ... and the next chunk is opened, ...
NextChunk ==
    /\ ~m.open /\ m.pc = "idle" /\ m.index < Len(rowCounts)
    /\ m' = [m EXCEPT !.open = TRUE, !.at = 0, !.index = @ + 1]
    /\ UNCHANGED <<rowCounts, got, calls>>

\* ... if there is one.
MultiEOF ==
    /\ ~m.open /\ m.pc = "idle" /\ m.index = Len(rowCounts)
    /\ calls < MaxMultiCalls
    /\ got' = M!EOF
    /\ calls' = calls + 1
    /\ UNCHANGED <<rowCounts, m>>

\* SeekToRow: the chunk that holds the row is the first whose rows, added up,
\* exceed it; chunks without rows are passed over.
MultiSeekToRow(row) ==
    LET holds == {i \in 1..Len(rowCounts) : row < RowsBefore(rowCounts, i)} IN
    /\ m.pc = "idle" /\ calls < MaxMultiCalls
    /\ m' = IF holds = {}
            THEN [m EXCEPT !.open = FALSE, !.index = Len(rowCounts), !.beyond = row]
            ELSE LET i == Min(holds) IN
                 [m EXCEPT !.open = TRUE, !.index = i,
                           !.at = row - RowsBefore(rowCounts, i - 1)]
    /\ got' = M!Sought(row)
    /\ calls' = calls + 1
    /\ UNCHANGED rowCounts

CallMultiSeek == \E row \in 0..(TotalRows + 1) : MultiSeekToRow(row)

MultiClose ==
    /\ m.pc = "idle"
    /\ m' = [m EXCEPT !.pc = "closed", !.open = FALSE, !.index = 0]
    /\ got' = M!Closed
    /\ UNCHANGED <<rowCounts, calls>>

MultiNext == MultiReadPage \/ ChunkEnds \/ NextChunk \/ MultiEOF \/ CallMultiSeek \/ MultiClose

MultiSpec == MultiInit /\ [][MultiNext]_multiVars

(* The concatenation of row groups reads and seeks like one column of all    *)
(* their rows: chunks without rows, nested lists and seeks to the first row  *)
(* of a chunk or past the end included.                                      *)
MultiPagesSeek == M!Spec
==============================================================================
