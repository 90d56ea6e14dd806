---------------------------- MODULE SeekablePages ----------------------------
(***************************************************************************)
(* What a reader with SeekToRow promises, whatever it reads from: it has a  *)
(* position; a seek sets it; a read delivers the rows from there on, leaves *)
(* none out, and moves the position behind them.                            *)
(*                                                                         *)
(* The first values of a page may belong to the row that the page before    *)
(* has begun (`continues').  After a seek this must not happen: the caller  *)
(* has asked for the beginning of a row.                                    *)
(***************************************************************************)
EXTENDS Naturals

VARIABLES numRows,        \* number of rows of the column or row group
          position,       \* the row that is read next
          result          \* what the last call has returned

Page(first, rows, continues) ==
    [kind |-> "page", first |-> first, rows |-> rows, continues |-> continues]
EOF == [kind |-> "eof"]
Failed == [kind |-> "error"]
Sought(row) == [kind |-> "seek", row |-> row]
OutOfRange(row) == [kind |-> "range", row |-> row]
Closed == [kind |-> "closed"]

Init == /\ numRows \in Nat
        /\ position = 0
        /\ result = Sought(0)

Read == \E n \in 0..numRows, continues \in BOOLEAN :
            /\ position + n <= numRows
            /\ continues => result.kind = "page"
            /\ n = 0 => continues
            /\ result' = Page(position, n, continues)
            /\ position' = position + n

ReadEnd == /\ position >= numRows
           /\ result' = EOF
           /\ UNCHANGED position

\* A read that fails promises nothing about the position; a seek does again.
ReadFails == /\ result' = Failed
             /\ position' \in Nat

Seek == /\ result'.kind = "seek"
        /\ result'.row \in Nat
        /\ result' = Sought(result'.row)
        /\ position' = result'.row

SeekRefused == /\ result'.kind = "range"
               /\ result' = OutOfRange(result'.row)
               /\ UNCHANGED position

Close == /\ result' = Closed
         /\ position' \in Nat

Next == Read \/ ReadEnd \/ ReadFails \/ Seek \/ SeekRefused \/ Close

Spec == Init /\ [][Next /\ UNCHANGED numRows]_<<numRows, position, result>>
==============================================================================
