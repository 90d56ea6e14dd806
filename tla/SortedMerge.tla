---------------------------- MODULE SortedMerge -----------------------------
(***************************************************************************)
(* What a merge of sorted row readers promises: the rows come out in the    *)
(* order of their keys, those of one reader in the order of that reader,   *)
(* each exactly once, and the end is reported when no row is left.         *)
(***************************************************************************)
EXTENDS Integers, Sequences

CONSTANT Readers

VARIABLES
  input,   \* input[i]: the keys of the rows of reader i, in order
  used,    \* used[i]: rows of reader i that were merged
  out,     \* the merged rows, each as <<reader, position>>
  eof      \* was the end reported?

mergeVars == <<input, used, out, eof>>

KeyOf(row) == input[row[1]][row[2]]

\* The key of the next row of reader i, after u[i] rows were merged.
HasNext(i, u) == u[i] < Len(input[i])
NextKey(i, u) == input[i][u[i] + 1]

Init ==
  /\ input \in [Readers -> Seq(Int)]
  /\ \A i \in Readers : \A j, k \in 1 .. Len(input[i]) : j <= k => input[i][j] <= input[i][k]
  /\ used = [i \in Readers |-> 0]
  /\ out = << >>
  /\ eof = FALSE

\* The places of the rows that a step adds to the output.
Added == Len(out) + 1 .. Len(out')

\* Some rows are merged at once: the next ones of each reader, in its order,
\* sorted, and none larger than a row that remains.
Merge ==
  /\ ~eof
  /\ Len(out) < Len(out') /\ \A a \in 1 .. Len(out) : out'[a] = out[a]
  /\ \A i \in Readers : used[i] <= used'[i] /\ used'[i] <= Len(input[i])
  /\ \A a \in Added : \E i \in Readers :
       \E j \in used[i] + 1 .. used'[i] : out'[a] = <<i, j>>
  /\ \A i \in Readers : \A j \in used[i] + 1 .. used'[i] :
       \E a \in Added : out'[a] = <<i, j>>
  /\ \A a, b \in Added : (a < b /\ out'[a][1] = out'[b][1]) => out'[a][2] < out'[b][2]
  /\ \A a, b \in Added : a < b => KeyOf(out'[a]) <= KeyOf(out'[b])
  /\ \A a \in Added, i \in Readers :
       HasNext(i, used') => KeyOf(out'[a]) <= NextKey(i, used')
  /\ UNCHANGED <<input, eof>>

End ==
  /\ \A i \in Readers : ~HasNext(i, used)
  /\ eof' = TRUE
  /\ UNCHANGED <<input, used, out>>

Next == Merge \/ End

Spec == Init /\ [][Next]_mergeVars
=============================================================================
