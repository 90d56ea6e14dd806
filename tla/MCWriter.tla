------------------------------ MODULE MCWriter ------------------------------
(* Small instances of the writer for TLC. *)
EXTENDS WriterProperties

\* Values of the rows: three values in column 1, two in the others.
MCValueOf(k, r) == IF k = 1 THEN r % 3 ELSE r % 2
MCBufferSize == [k \in Columns |-> IF k = 1 THEN 2 ELSE 3]
=============================================================================
