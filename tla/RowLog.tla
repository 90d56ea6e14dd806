------------------------------- MODULE RowLog -------------------------------
(***************************************************************************)
(* What the writer promises about the rows of one column: every row given  *)
(* to a row group is held by it until the row group is published, and the  *)
(* file is the concatenation of the published row groups, in order, with   *)
(* no row lost, repeated or moved.  Rows disappear only when a call failed *)
(* or when the application calls Reset.                                    *)
(***************************************************************************)
EXTENDS Naturals, Sequences

CONSTANT Groups     \* the row groups, 0 is the writer's current one

VARIABLES
  pending,  \* pending[g]: rows of the call in progress not accepted yet
  held,     \* held[g]: rows accepted and not in the file
  log,      \* rows of the file
  broken    \* row groups whose last call failed

Prefix(s, t) == Len(s) <= Len(t) /\ s = SubSeq(t, 1, Len(s))
OnlyAt(f, g) == \A h \in Groups \ {g} : f'[h] = f[h]

Init ==
  /\ pending = [g \in Groups |-> << >>]
  /\ held = [g \in Groups |-> << >>]
  /\ log = << >>
  /\ broken = {}

\* The application hands rows to row group g.
Call(g) ==
  /\ pending[g] = << >>
  /\ OnlyAt(pending, g)
  /\ UNCHANGED <<held, log, broken>>

\* Row group g takes some of them, in order.
Accept(g) ==
  /\ \E n \in 1 .. Len(pending[g]) :
       /\ pending'[g] = SubSeq(pending[g], n + 1, Len(pending[g]))
       /\ held'[g] = held[g] \o SubSeq(pending[g], 1, n)
  /\ OnlyAt(pending, g) /\ OnlyAt(held, g)
  /\ UNCHANGED <<log, broken>>

\* The call returns an error before all of them were taken.
Reject(g) ==
  /\ pending'[g] = << >>
  /\ OnlyAt(pending, g)
  /\ UNCHANGED <<held, log, broken>>

\* The rows of row group g become part of the file.
Publish(g) ==
  /\ held[g] # << >>
  /\ log' = log \o held[g]
  /\ held'[g] = << >> /\ OnlyAt(held, g)
  /\ UNCHANGED <<pending, broken>>

\* A call on row group g, or the writing of row group g by the main thread
\* on behalf of the current one, has failed.
Lose(g) ==
  /\ broken' \cap {0, g} # {}
  /\ broken \subseteq broken'
  /\ Prefix(held'[g], held[g]) /\ OnlyAt(held, g)
  /\ \A h \in Groups : pending'[h] = pending[h] \/ (h \in {0, g} /\ pending'[h] = << >>)
  /\ UNCHANGED log

Reset ==
  /\ log' = << >>
  /\ held'[0] = << >> /\ OnlyAt(held, 0)
  /\ broken' = broken \ {0}
  /\ UNCHANGED pending

Next ==
  \/ \E g \in Groups : Call(g) \/ Accept(g) \/ Reject(g) \/ Publish(g) \/ Lose(g)
  \/ Reset

Spec == Init /\ [][Next]_<<pending, held, log, broken>>
=============================================================================
