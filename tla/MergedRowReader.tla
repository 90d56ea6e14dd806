-------------------------- MODULE MergedRowReader ---------------------------
(***************************************************************************)
(* The merge of three or more readers with a tournament tree of losers     *)
(* (mergedRowReader of merge.go).  Node p < NumReaders of the tree keeps   *)
(* the loser of the game played there; the leaf of reader i is position    *)
(* NumReaders + i; the winner is kept out of the tree.  A reader without   *)
(* rows is -1 and loses every game.                                        *)
(***************************************************************************)
EXTENDS BufferedRowReader, SequencesExt

VARIABLES
  losers,       \* the tree
  count,        \* readers that are not exhausted
  winner, winnerLeaf,
  streak,       \* games won in a row by the winner
  leaves,       \* the players of the first games; a local of initialize
  pos,          \* the reader that the loop of initialize has come to
  initialized

treeVars == <<losers, count, winner, winnerLeaf, streak>>
initVars == <<leaves, pos, initialized>>
vars == <<bufferVars, callVars, treeVars, initVars>>

Player == Readers \cup {-1}
Nodes == Readers

Init ==
  /\ BuffersInit
  /\ losers = [p \in Nodes |-> 0] /\ count = 0
  /\ winner = 0 /\ winnerLeaf = 0 /\ streak = 0
  /\ leaves = [i \in Readers |-> i] /\ pos = 0 /\ initialized = FALSE

-----------------------------------------------------------------------------
(* Games *)

\* Is the head of a smaller than the head of b?
Beats(a, b) == HeadKey(a, used) < HeadKey(b, used)

\* playGame returns the winner; the other one is the loser.
GameWinner(a, b) ==
  IF a < 0 THEN b ELSE IF b < 0 THEN a ELSE IF Beats(a, b) THEN a ELSE b
GameLoser(a, b) ==
  IF a < 0 THEN a ELSE IF b < 0 THEN b ELSE IF Beats(a, b) THEN b ELSE a

\* The winner of the tournament below every position of the tree; position
\* 2 * NumReaders is out of bounds.
InitialWinners ==
  LET w[p \in 0 .. 2 * NumReaders] ==
        IF p = 2 * NumReaders THEN -1
        ELSE IF p >= NumReaders THEN leaves[p - NumReaders]
        ELSE GameWinner(w[2 * p + 1], w[2 * p + 2])
  IN  w

\* The nodes from the parent of position p up to the root.
PathFrom(p) ==
  LET path[q \in 0 .. 2 * NumReaders] ==
        IF q = 0 THEN << >> ELSE <<(q - 1) \div 2>> \o path[(q - 1) \div 2]
  IN  path[p]

\* Does a loser met on the path take over?  Ties favor the incumbent.
Challenges(player, champion, u) ==
  /\ player >= 0
  /\ champion < 0 \/ HeadKey(player, u) < HeadKey(champion, u)

\* The games on the path from the winner's leaf to the root are played again,
\* with `champion` in the place of the winner and the heads that u leaves.
Replayed(champion, u) ==
  FoldLeft(LAMBDA acc, p :
             IF Challenges(acc.losers[p], acc.winner, u)
               THEN [winner |-> acc.losers[p],
                     losers |-> [acc.losers EXCEPT ![p] = acc.winner]]
               ELSE acc,
           [winner |-> champion, losers |-> losers],
           PathFrom(winnerLeaf))

\* Mutant: the new winner keeps the leaf of the old one.
replayGamesKeepLeaf(champion, u) ==
  LET r == Replayed(champion, u)
  IN  /\ winner' = r.winner
      /\ losers' = r.losers
      /\ UNCHANGED winnerLeaf

replayGames(champion, u) ==
  LET r == Replayed(champion, u)
  IN  /\ winner' = r.winner
      /\ losers' = r.losers
      /\ winnerLeaf' = NumReaders + r.winner

\* The players that lost directly to the winner.
LostToWinner == {losers[PathFrom(winnerLeaf)[a]] : a \in 1 .. Len(PathFrom(winnerLeaf))} \ {-1}

\* Mutant: the loser at the root is taken for the runner-up.
RootIsBound(key) == losers[0] >= 0 /\ key = HeadKey(losers[0], used)

\* runBound: the smallest head among them.
IsRunBound(key) ==
  /\ \E i \in LostToWinner : HeadKey(i, used) = key
  /\ \A i \in LostToWinner : key <= HeadKey(i, used)

-----------------------------------------------------------------------------
(* ReadRows *)

ReadRows(m) ==
  /\ pc = "idle"
  /\ want' = m /\ n' = 0 /\ pos' = 0
  /\ initialized' = TRUE
  /\ count' = IF initialized THEN count ELSE NumReaders
  /\ pc' = IF initialized THEN "merge" ELSE "initialize"
  /\ UNCHANGED <<bufferVars, out, faults, losers, winner, winnerLeaf, streak, leaves>>

\* initialize, one reader.
Initialize ==
  /\ pc = "initialize" /\ pos < NumReaders
  /\ \/ Fill(pos) /\ UNCHANGED <<leaves, count>>
     \/ /\ FillEOF(pos)
        /\ leaves' = [leaves EXCEPT ![pos] = -1]
        /\ count' = count - 1
  /\ pos' = pos + 1
  /\ UNCHANGED <<callVars, losers, winner, winnerLeaf, streak, initialized>>

InitializeFails ==
  /\ pc = "initialize" /\ pos < NumReaders
  /\ FillFails("initialize", pos)
  /\ count' = 0
  /\ UNCHANGED <<losers, winner, winnerLeaf, streak, initVars>>

\* All readers have rows or are exhausted: the first games are played.
playInitialGames ==
  LET w == InitialWinners
  IN  /\ pc = "initialize" /\ pos = NumReaders
      /\ IF count > 0
           THEN /\ losers' = [p \in Nodes |-> GameLoser(w[2 * p + 1], w[2 * p + 2])]
                /\ winner' = w[0]
                /\ winnerLeaf' = NumReaders + w[0]
           ELSE UNCHANGED <<losers, winner, winnerLeaf>>
      /\ pc' = "merge"
      /\ UNCHANGED <<bufferVars, want, n, out, faults, count, streak, initVars>>

InLoop == pc = "merge" /\ n < want /\ count # 0

\* The winner's buffer has run empty.
Refill ==
  /\ InLoop /\ empty(winner)
  /\ \/ Fill(winner) /\ replayGames(winner, used) /\ UNCHANGED count
        /\ streak' = IF winner' = winner THEN streak ELSE 0
     \/ FillEOF(winner) /\ replayGames(-1, used) /\ count' = count - 1
        /\ streak' = IF winner' = -1 THEN streak ELSE 0
  /\ UNCHANGED <<callVars, initVars>>

RefillFails ==
  /\ InLoop /\ empty(winner)
  /\ FillFails("refill", winner)
  /\ UNCHANGED <<treeVars, initVars>>

\* The rest of the winner's buffer, after the head, goes to the caller as far
\* as there is room and the runner-up does not have a smaller row.
EmitRun(m) ==
  /\ \/ \E key \in Key : IsRunBound(key)
          /\ \E run \in 0 .. want - n - 1 :
               IsRun(run, winner, 1, want - n - 1, key, 0) /\ m = 1 + run
     \/ LostToWinner = {} /\ m = Lesser(want - n, WindowLen(winner))

\* Mutant: the loop goes on and refills the buffer.
ContinueLoop == UNCHANGED pc

\* The call ends when the winner's buffer has run empty.
ReturnEarly == pc' = "idle"

\* The winner's head goes to the caller, with the run that follows it once the
\* winner has won often enough.  The games are replayed unless the buffer has
\* run empty: then the call returns and the next one refills it first.
EmitWinner ==
  /\ InLoop /\ ~empty(winner)
  /\ \E m \in 1 .. want - n :
       /\ IF streak >= runDetectionStreak /\ WindowLen(winner) > 1 THEN EmitRun(m) ELSE m = 1
       /\ Emit(RunOf(winner, m), Advance(winner, m))
       /\ IF m = WindowLen(winner)
            THEN ReturnEarly /\ UNCHANGED <<losers, winner, winnerLeaf, streak>>
            ELSE /\ replayGames(winner, Advance(winner, m))
                 /\ streak' = IF winner' = winner /\ streak < runDetectionStreak
                                THEN streak + 1 ELSE 0
                 /\ UNCHANGED pc
  /\ UNCHANGED <<count, initVars>>

\* Mutant: the end is reported as no rows and no error.
ReturnWithoutEOF ==
  /\ pc = "merge" /\ ~(n < want /\ count # 0)
  /\ pc' = "idle"
  /\ UNCHANGED <<bufferVars, want, n, out, faults, treeVars, initVars>>

\* Mutant: the loop is left only when the slice is full.
ReturnWhenFull ==
  /\ pc = "merge" /\ n = want
  /\ pc' = IF count = 0 THEN "eof" ELSE "idle"
  /\ UNCHANGED <<bufferVars, want, n, out, faults, treeVars, initVars>>

Return ==
  /\ pc = "merge" /\ ~(n < want /\ count # 0)
  /\ pc' = IF count = 0 THEN "eof" ELSE "idle"
  /\ UNCHANGED <<bufferVars, want, n, out, faults, treeVars, initVars>>

Step ==
  \/ Initialize \/ InitializeFails \/ playInitialGames
  \/ Refill \/ RefillFails \/ EmitWinner \/ Return

Next == Step \/ \E m \in BatchSizes : ReadRows(m)

Spec == Init /\ [][Next]_vars

\* A call of ReadRows runs to its end.
FairSpec == Spec /\ WF_vars(Step)

-----------------------------------------------------------------------------

TypeOK ==
  /\ taken \in [Readers -> Nat] /\ used \in [Readers -> Nat]
  /\ \A i \in Readers : used[i] <= taken[i] /\ taken[i] <= Len(input[i])
  /\ len \in [Readers -> 0 .. maxRowBufferSize] /\ full \in [Readers -> BOOLEAN]
  /\ n \in 0 .. want /\ want \in Nat
  /\ out \in Seq(Readers \X (Nat \ {0}))
  /\ pc \in {"idle", "initialize", "merge", "eof", "failed"}
  /\ losers \in [Nodes -> Player] /\ winner \in Player
  /\ winnerLeaf \in 0 .. 2 * NumReaders - 1
  /\ count \in 0 .. NumReaders /\ streak \in 0 .. runDetectionStreak
  /\ leaves \in [Readers -> Player] /\ pos \in 0 .. NumReaders

Merged == INSTANCE SortedMerge WITH eof <- pc = "eof"

\* The tournament implements SortedMerge, for any shape of the tree, whatever
\* the readers hand out at a time, whatever room the caller gives and wherever
\* a reader fails.
ImplementsMerge == Merged!Spec

\* "In a tournament tree of losers the runner-up necessarily lost its game
\* directly against the overall winner": the smallest head of the other readers
\* is on the path of the winner, also while the winner's own head is stale, and
\* each of those readers sits at exactly one node.  runBound and replayGames
\* look at this path only.
RunnerUpOnPath ==
  (pc = "merge" /\ count # 0) =>
    \A i \in Readers \ {winner} :
      ~empty(i) =>
        /\ \E j \in LostToWinner : HeadKey(j, used) <= HeadKey(i, used)
        /\ Cardinality({p \in Nodes : losers[p] = i}) = 1

\* Every call returns.
CallsReturn ==
  pc \in {"initialize", "merge"} ~> pc \in {"idle", "eof", "failed"}
=============================================================================
