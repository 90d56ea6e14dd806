----------------------------- MODULE RunLength ------------------------------
(***************************************************************************)
(* runLength (merge.go): the number of leading rows of a sorted window      *)
(* that compare with `bound` as at most `max`, found by galloping and then *)
(* by bisection.  The merge readers use it to emit a run without comparing *)
(* every row of it.                                                        *)
(*                                                                         *)
(* A row is its key.  Position j of the code's window is window[j + 1].    *)
(***************************************************************************)
EXTENDS Integers, Sequences

CONSTANTS
  Key,        \* the keys, integers
  MaxWindow   \* bound: rows of a window, at most maxRowBufferSize in the code

ASSUME RunLengthAssumption == Key \subseteq Int /\ MaxWindow \in Nat

\* The comparison of two rows.
compare(a, b) == IF a < b THEN -1 ELSE IF a > b THEN 1 ELSE 0

SortedWindow(s) == \A i, j \in 1 .. Len(s) : i <= j => s[i] <= s[j]

\* What runLength promises of its result: the rows up to it qualify, the row
\* after it does not.
IsRunLength(run, window, bound, max) ==
  /\ run \in 0 .. Len(window)
  /\ \A j \in 1 .. run : compare(window[j], bound) <= max
  /\ run < Len(window) => compare(window[run + 1], bound) > max

-----------------------------------------------------------------------------

VARIABLES
  window, bound, max,   \* the arguments
  lo, hi,               \* the local variables
  pc,                   \* "ends", "gallop", "bisect" or "done"
  result

vars == <<window, bound, max, lo, hi, pc, result>>
arguments == <<window, bound, max>>

Init ==
  /\ window \in {s \in UNION {[1 .. m -> Key] : m \in 0 .. MaxWindow} : SortedWindow(s)}
  /\ bound \in Key
  /\ max \in {-1, 0}
  /\ lo = 0 /\ hi = 1
  /\ pc = "ends"
  /\ result = 0

\* Does the row at position j of the code's window belong to the run?
Qualifies(j) == compare(window[j + 1], bound) <= max

Return(n) == result' = n /\ pc' = "done" /\ UNCHANGED <<arguments, lo, hi>>

\* The first row settles an empty run, the last row a complete one.
EmptyRun ==
  /\ pc = "ends"
  /\ Len(window) # 0 => ~Qualifies(0)
  /\ Return(0)

CompleteRun ==
  /\ pc = "ends"
  /\ Len(window) # 0 /\ Qualifies(0) /\ Qualifies(Len(window) - 1)
  /\ Return(Len(window))

StartGallop ==
  /\ pc = "ends"
  /\ Len(window) # 0 /\ Qualifies(0) /\ ~Qualifies(Len(window) - 1)
  /\ pc' = "gallop"
  /\ UNCHANGED <<arguments, lo, hi, result>>

Gallop ==
  /\ pc = "gallop"
  /\ hi < Len(window) /\ Qualifies(hi)
  /\ lo' = hi /\ hi' = 2 * hi
  /\ UNCHANGED <<arguments, pc, result>>

ClampUpperEnd == hi' = IF hi <= Len(window) THEN hi ELSE Len(window)

GallopEnds ==
  /\ pc = "gallop"
  /\ ~(hi < Len(window) /\ Qualifies(hi))
  /\ ClampUpperEnd
  /\ pc' = "bisect"
  /\ UNCHANGED <<arguments, lo, result>>

\* Mutant: the interval is left when its ends are two apart.
StopBisectingEarly == lo + 2 >= hi

StopBisecting == lo + 1 >= hi

Bisect ==
  LET mid == (lo + hi) \div 2
  IN  /\ pc = "bisect" /\ ~StopBisecting
      /\ IF Qualifies(mid) THEN lo' = mid /\ UNCHANGED hi
                           ELSE hi' = mid /\ UNCHANGED lo
      /\ UNCHANGED <<arguments, pc, result>>

Found == pc = "bisect" /\ StopBisecting /\ Return(hi)

Terminated == pc = "done" /\ UNCHANGED vars

Next ==
  \/ EmptyRun \/ CompleteRun \/ StartGallop
  \/ Gallop \/ GallopEnds \/ Bisect \/ Found
  \/ Terminated

Spec == Init /\ [][Next]_vars

-----------------------------------------------------------------------------

\* The result is the length of the run although only O(log n) of its rows were
\* compared: no row past it belongs to the run and none before it is missing,
\* for ties included (max = 0) and excluded (max = -1).
RunLengthCorrect == pc = "done" => IsRunLength(result, window, bound, max)

\* Galloping and bisection never look outside the window, in particular when
\* doubling steps over its end.
WithinWindow ==
  /\ pc = "bisect" => lo < hi /\ hi <= Len(window)
  /\ pc \in {"gallop", "bisect"} => lo < Len(window)
=============================================================================
