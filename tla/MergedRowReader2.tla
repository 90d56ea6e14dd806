-------------------------- MODULE MergedRowReader2 --------------------------
(***************************************************************************)
(* The merge of exactly two readers (mergedRowReader2 of merge.go): direct *)
(* comparison of the two heads, pairwise emission of ties, and bulk        *)
(* emission once one reader has won several games in a row.                *)
(***************************************************************************)
EXTENDS BufferedRowReader

ASSUME TwoReaders == NumReaders = 2

VARIABLES
  live,         \* live[i]: readers[i] is not nil
  prev,         \* who won the last game: a reader, or -1 after a tie
  streak,       \* games won in a row
  pos,          \* the reader that a loop over the two has come to
  initialized

gameVars == <<live, prev, streak>>
vars == <<bufferVars, callVars, gameVars, pos, initialized>>

Init ==
  /\ BuffersInit
  /\ live = [i \in Readers |-> FALSE]
  /\ prev = -1 /\ streak = 0
  /\ pos = 0 /\ initialized = FALSE

Other(i) == 1 - i

\* The caller calls ReadRows with a slice of m rows.
ReadRows(m) ==
  /\ pc = "idle"
  /\ want' = m /\ n' = 0 /\ pos' = 0
  /\ initialized' = TRUE
  /\ pc' = IF initialized THEN "refill" ELSE "initialize"
  /\ UNCHANGED <<bufferVars, gameVars, out, faults>>

\* The loop over the readers goes on, or the next part of ReadRows begins.
NextReaderOr(next) ==
  IF pos = 0 THEN pos' = 1 /\ UNCHANGED pc ELSE pos' = 0 /\ pc' = next

Initialize ==
  /\ pc = "initialize"
  /\ \/ Fill(pos) /\ live' = [live EXCEPT ![pos] = TRUE]
     \/ FillEOF(pos) /\ UNCHANGED live
  /\ NextReaderOr("refill")
  /\ UNCHANGED <<want, n, out, faults, prev, streak, initialized>>

InitializeFails ==
  /\ pc = "initialize"
  /\ FillFails("initialize", pos)
  /\ UNCHANGED <<gameVars, pos, initialized>>

Refill ==
  /\ pc = "refill"
  /\ live[pos] /\ empty(pos)
  /\ \/ Fill(pos) /\ UNCHANGED live
     \/ FillEOF(pos) /\ live' = [live EXCEPT ![pos] = FALSE]
  /\ NextReaderOr("merge")
  /\ UNCHANGED <<want, n, out, faults, prev, streak, initialized>>

RefillNothing ==
  /\ pc = "refill"
  /\ ~(live[pos] /\ empty(pos))
  /\ NextReaderOr("merge")
  /\ UNCHANGED <<bufferVars, want, n, out, faults, gameVars, initialized>>

RefillFails ==
  /\ pc = "refill"
  /\ live[pos] /\ empty(pos)
  /\ FillFails("refill", pos)
  /\ UNCHANGED <<gameVars, pos, initialized>>

End ==
  /\ pc = "merge"
  /\ \A i \in Readers : ~live[i]
  /\ pc' = "eof"
  /\ UNCHANGED <<bufferVars, want, n, out, faults, gameVars, pos, initialized>>

\* One reader is left: its buffer goes to the caller as far as there is room.
Drain(i) ==
  LET m == Lesser(want, WindowLen(i))
  IN  /\ pc = "merge"
      /\ live[i] /\ ~live[Other(i)]
      /\ Emit(RunOf(i, m), Advance(i, m))
      /\ pc' = "idle"
      /\ UNCHANGED <<gameVars, pos, initialized>>

\* Mutant: the last row of the slice is never filled.
PlayingTooShort == pc = "merge" /\ live[0] /\ live[1] /\ n + 1 < want

\* There are games left to play in this call.
Playing == pc = "merge" /\ live[0] /\ live[1] /\ n < want

\* The loop ends when the slice is full or one buffer has run empty.
EndGame(u) ==
  pc' = IF n' < want /\ \A i \in Readers : u[i] < taken[i] THEN "merge" ELSE "idle"

\* Mutant: the whole window is taken for the run.
emitWindow(i, m) == m = Lesser(want - n, WindowLen(i))

\* emitRun: the head is known to win, the rest of the run is found in the
\* window, as far as the slice has room.
emitRun(i, m) ==
  \E run \in 0 .. want - n - 1 :
    /\ IsRun(run, i, 1, want - n - 1, HeadKey(Other(i), used), -1)
    /\ m = 1 + run

\* Reader i has the smaller head.
Win(i) ==
  /\ Playing
  /\ HeadKey(i, used) < HeadKey(Other(i), used)
  /\ streak' = IF prev = i THEN streak + 1 ELSE 0
  /\ prev' = i
  /\ \E m \in 1 .. want - n :
       /\ IF streak' >= runDetectionStreak THEN emitRun(i, m) ELSE m = 1
       /\ Emit(RunOf(i, m), Advance(i, m))
       /\ EndGame(Advance(i, m))
  /\ UNCHANGED <<live, pos, initialized>>

RoomForBoth == n + 1 < want

\* Equal heads are emitted together if there is room.
Tie ==
  /\ Playing
  /\ HeadKey(0, used) = HeadKey(1, used)
  /\ prev' = -1 /\ streak' = 0
  /\ IF RoomForBoth
       THEN LET u == [i \in Readers |-> used[i] + 1]
            IN  Emit(RunOf(0, 1) \o RunOf(1, 1), u) /\ EndGame(u)
       ELSE Emit(RunOf(0, 1), Advance(0, 1)) /\ EndGame(Advance(0, 1))
  /\ UNCHANGED <<live, pos, initialized>>

\* There was no room at all.
NoRoom ==
  /\ pc = "merge" /\ live[0] /\ live[1]
  /\ n = want
  /\ pc' = "idle"
  /\ UNCHANGED <<bufferVars, want, n, out, faults, gameVars, pos, initialized>>

Step ==
  \/ Initialize \/ InitializeFails
  \/ Refill \/ RefillNothing \/ RefillFails
  \/ End \/ \E i \in Readers : Drain(i) \/ Win(i)
  \/ Tie \/ NoRoom

Next == Step \/ \E m \in BatchSizes : ReadRows(m)

Spec == Init /\ [][Next]_vars

\* A call of ReadRows runs to its end.
FairSpec == Spec /\ WF_vars(Step)

-----------------------------------------------------------------------------

TypeOK ==
  /\ input \in [Readers -> SortedInput]
  /\ taken \in [Readers -> Nat] /\ used \in [Readers -> Nat]
  /\ len \in [Readers -> 0 .. maxRowBufferSize] /\ full \in [Readers -> BOOLEAN]
  /\ want \in Nat /\ n \in Nat /\ n <= want
  /\ out \in Seq(Readers \X (Nat \ {0}))
  /\ pc \in {"idle", "initialize", "refill", "merge", "eof", "failed"}
  /\ faults \in Nat
  /\ live \in [Readers -> BOOLEAN]
  /\ prev \in Readers \cup {-1} /\ streak \in Nat
  /\ pos \in Readers /\ initialized \in BOOLEAN

Merged == INSTANCE SortedMerge WITH eof <- pc = "eof"

\* The two-way merge implements SortedMerge: whatever the readers hand out at a
\* time, whatever room the caller gives and wherever a reader fails, bulk
\* emission of runs included.
ImplementsMerge == Merged!Spec

\* Every call returns.
CallsReturn ==
  pc \in {"initialize", "refill", "merge"} ~> pc \in {"idle", "eof", "failed"}
=============================================================================
