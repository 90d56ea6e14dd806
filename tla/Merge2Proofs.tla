---------------------------- MODULE Merge2Proofs ----------------------------
(***************************************************************************)
(* The merge of two readers implements SortedMerge, for readers and         *)
(* buffers of any size, any keys and any room in the calls.                *)
(***************************************************************************)
EXTENDS MergedRowReader2, TLAPS

\* What was emitted is in the buffer's past, what was read in the reader's.
Windows == \A i \in Readers : used[i] <= taken[i] /\ taken[i] <= Len(input[i])

\* A reader that was given up has no row left.
Settled(i) == live[i] \/ used[i] = Len(input[i])

\* A reader that takes part in a game has a head.
Ready(i) == ~live[i] \/ used[i] < taken[i]

\* What holds of the readers at each point of a call.
Control ==
  /\ pc # "idle" => initialized
  /\ ~initialized => \A i \in Readers : ~live[i] /\ used[i] = taken[i]
  /\ pc = "initialize" =>
       \A i \in Readers : IF i < pos THEN Settled(i) ELSE ~live[i] /\ used[i] = taken[i]
  /\ (initialized /\ pc \notin {"initialize", "failed"}) => \A i \in Readers : Settled(i)
  /\ pc = "refill" => \A i \in Readers : i < pos => Ready(i)
  /\ pc = "merge" => \A i \in Readers : Ready(i)

Inv == TypeOK /\ Windows /\ Control

-----------------------------------------------------------------------------
(* Facts about the buffers *)

LEMMA ReadersAre == Readers = {0, 1} /\ \A i \in Readers : Other(i) \in Readers /\ Other(i) # i
  BY TwoReaders DEF Readers, Other

\* The input of a reader is a sorted sequence.
LEMMA InputType ==
  ASSUME TypeOK, NEW i \in Readers
  PROVE  /\ input[i] \in Seq(Int) /\ Len(input[i]) \in Nat
         /\ \A j, k \in 1 .. Len(input[i]) : j <= k => input[i][j] <= input[i][k]
  <1>1. input[i] \in SortedInput
    BY DEF TypeOK
  <1>2. PICK m \in 0 .. MaxInput : input[i] \in [1 .. m -> Key]
    BY <1>1 DEF SortedInput
  <1>3. m \in Nat
    BY MergeAssumption
  <1>4. \A j \in 1 .. m : input[i][j] \in Int
    BY <1>2, MergeAssumption
  <1>5. input[i] = [j \in 1 .. m |-> input[i][j]]
    BY <1>2
  <1>6. input[i] \in Seq(Int)
    BY <1>3, <1>4, <1>5
  <1>7. SortedKeys(input[i])
    BY <1>1 DEF SortedInput
  <1> QED BY <1>6, <1>7 DEF SortedKeys

LEMMA BufferLenType ==
  ASSUME TypeOK, NEW i \in Readers
  PROVE  BufferLen(i) \in 1 .. maxRowBufferSize
  BY MergeAssumption DEF TypeOK, BufferLen, Lesser

\* A read that returns rows makes the reader ready.
LEMMA FillReady ==
  ASSUME TypeOK, Windows, NEW i \in Readers, Fill(i)
  PROVE  /\ taken' \in [Readers -> Nat] /\ len' \in [Readers -> 0 .. maxRowBufferSize]
         /\ full' \in [Readers -> BOOLEAN]
         /\ UNCHANGED <<input, used>>
         /\ used[i] < taken'[i]
         /\ \A j \in Readers : /\ used[j] <= taken'[j] /\ taken'[j] <= Len(input[j])
                               /\ taken[j] <= taken'[j] /\ (j # i => taken'[j] = taken[j])
  <1>1. /\ BufferLen(i) \in 1 .. maxRowBufferSize /\ Len(input[i]) \in Nat
        /\ maxRowBufferSize \in Nat
    BY BufferLenType, InputType, MergeAssumption
  <1>2. PICK m \in 1 .. Lesser(BufferLen(i), Len(input[i]) - taken[i]) :
          /\ taken' = [taken EXCEPT ![i] = @ + m]
          /\ len' = [len EXCEPT ![i] = BufferLen(i)]
          /\ full' = [full EXCEPT ![i] = (m = BufferLen(i))]
          /\ UNCHANGED <<input, used>>
    BY DEF Fill
  <1>3. \A j \in Readers : taken[j] \in Nat /\ used[j] \in Nat /\ used[j] <= taken[j]
                           /\ taken[j] <= Len(input[j])
    BY DEF TypeOK, Windows
  <1>4. m \in Nat \ {0} /\ taken[i] + m <= Len(input[i])
    BY <1>1, <1>2, <1>3 DEF Lesser
  <1>5. taken' \in [Readers -> Nat] /\ len' \in [Readers -> 0 .. maxRowBufferSize]
    <2>1. BufferLen(i) \in 0 .. maxRowBufferSize /\ taken[i] + m \in Nat
      BY <1>1, <1>3, <1>4
    <2> HIDE DEF BufferLen
    <2> QED BY <1>2, <2>1 DEF TypeOK
  <1>6. full' \in [Readers -> BOOLEAN]
    BY <1>2, Zenon DEF TypeOK
  <1>7. taken'[i] = taken[i] + m /\ \A j \in Readers : j # i => taken'[j] = taken[j]
    BY <1>2 DEF TypeOK
  <1>8. used[i] < taken'[i]
    BY <1>3, <1>4, <1>7
  <1>9. \A j \in Readers : /\ used[j] <= taken'[j] /\ taken'[j] <= Len(input[j])
                           /\ taken[j] <= taken'[j]
    BY <1>3, <1>4, <1>7
  <1> QED BY <1>2, <1>5, <1>6, <1>7, <1>8, <1>9

\* A read that finds the end, or fails, leaves the rows alone.
LEMMA FillLeaves ==
  ASSUME TypeOK, Windows, NEW i \in Readers,
         len' = [len EXCEPT ![i] = BufferLen(i)], UNCHANGED <<input, taken, used, full>>
  PROVE  /\ taken' \in [Readers -> Nat] /\ len' \in [Readers -> 0 .. maxRowBufferSize]
         /\ full' \in [Readers -> BOOLEAN]
         /\ Windows'
  <1>1. BufferLen(i) \in 0 .. maxRowBufferSize
    BY BufferLenType, MergeAssumption
  <1> QED BY <1>1 DEF TypeOK, Windows

\* A run of a reader as a batch.
LEMMA RunOfType ==
  ASSUME TypeOK, NEW i \in Readers, NEW m \in Nat
  PROVE  /\ RunOf(i, m) \in Seq(Readers \X (Nat \ {0})) /\ Len(RunOf(i, m)) = m
         /\ \A j \in 1 .. m : RunOf(i, m)[j] = <<i, used[i] + j>>
  <1>1. used[i] \in Nat
    BY DEF TypeOK
  <1>2. \A j \in 1 .. m : <<i, used[i] + j>> \in Readers \X (Nat \ {0})
    BY <1>1
  <1>3. RunOf(i, m) \in Seq(Readers \X (Nat \ {0}))
    BY <1>2 DEF RunOf
  <1> QED BY <1>3 DEF RunOf

\* Rows that are in the buffers and for which there is room can be emitted.
LEMMA EmitType ==
  ASSUME TypeOK, Windows, NEW batch \in Seq(Readers \X (Nat \ {0})), NEW u \in [Readers -> Nat],
         \A i \in Readers : used[i] <= u[i] /\ u[i] <= taken[i],
         n + Len(batch) <= want, Emit(batch, u)
  PROVE  /\ n' \in Nat /\ n' <= want' /\ want' = want
         /\ out' \in Seq(Readers \X (Nat \ {0}))
         /\ used' = u /\ Windows'
         /\ UNCHANGED <<input, taken, len, full, want, faults>>
  <1>1. n \in Nat /\ want \in Nat /\ out \in Seq(Readers \X (Nat \ {0})) /\ Len(batch) \in Nat
    BY DEF TypeOK
  <1>2. /\ out' = out \o batch /\ n' = n + Len(batch) /\ used' = u
        /\ UNCHANGED <<input, taken, len, full, want, faults>>
    BY DEF Emit
  <1>3. out' \in Seq(Readers \X (Nat \ {0}))
    BY <1>1, <1>2
  <1>4. n' \in Nat /\ n' <= want' /\ want' = want
    BY <1>1, <1>2
  <1>5. Windows'
    BY <1>2 DEF Windows
  <1> QED BY <1>2, <1>3, <1>4, <1>5

\* The winner of a game emits rows of its buffer, all smaller than the head of
\* the other reader.
LEMMA WinFacts ==
  ASSUME Inv, NEW i \in Readers, Win(i)
  PROVE  \E m \in 1 .. want - n :
           /\ m \in Nat \ {0} /\ n + m <= want
           /\ used[i] + m <= taken[i]
           /\ Emit(RunOf(i, m), Advance(i, m)) /\ EndGame(Advance(i, m))
           /\ \A j \in 1 .. m : input[i][used[i] + j] < HeadKey(Other(i), used)
  <1>1. /\ pc = "merge" /\ live[0] /\ live[1] /\ n < want
        /\ HeadKey(i, used) < HeadKey(Other(i), used)
    BY DEF Win, Playing
  <1>2. PICK m \in 1 .. want - n :
          /\ IF streak' >= runDetectionStreak THEN emitRun(i, m) ELSE m = 1
          /\ Emit(RunOf(i, m), Advance(i, m)) /\ EndGame(Advance(i, m))
    BY DEF Win
  <1>3. n \in Nat /\ want \in Nat /\ used[i] \in Nat /\ taken[i] \in Nat
    BY DEF Inv, TypeOK
  <1>4. m \in Nat \ {0} /\ n + m <= want
    BY <1>2, <1>3
  <1>5. used[i] < taken[i]
    BY <1>1, ReadersAre DEF Inv, Control, Ready
  <1>6. CASE m = 1
    BY <1>1, <1>2, <1>3, <1>4, <1>5, <1>6 DEF HeadKey
  <1>7. CASE emitRun(i, m)
    <2> DEFINE bound == HeadKey(Other(i), used)
               most == want - n - 1
               size == Lesser(WindowLen(i) - 1, most)
    <2>1. PICK run \in 0 .. most : IsRun(run, i, 1, most, bound, -1) /\ m = 1 + run
      BY <1>7 DEF emitRun
    <2>2. run \in 0 .. size /\ \A j \in 1 .. run : input[i][used[i] + 1 + j] < bound
      BY <2>1 DEF IsRun
    <2>3. run \in Nat /\ run <= taken[i] - used[i] - 1
      <3>1. most \in Int /\ WindowLen(i) \in Int /\ WindowLen(i) = taken[i] - used[i]
        BY <1>3 DEF WindowLen
      <3>2. size <= WindowLen(i) - 1 /\ size \in Int
        BY <3>1 DEF Lesser
      <3> HIDE DEF size, most
      <3> QED BY <1>3, <2>2, <3>1, <3>2
    <2>4. used[i] + m <= taken[i]
      BY <1>3, <2>1, <2>3
    <2>5. ASSUME NEW j \in 1 .. m PROVE input[i][used[i] + j] < bound
      <3>1. CASE j = 1
        BY <1>1, <3>1 DEF HeadKey
      <3>2. CASE j # 1
        <4>1. j - 1 \in 1 .. run
          BY <2>1, <2>3, <3>2
        <4>2. used[i] + 1 + (j - 1) = used[i] + j
          BY <1>3, <1>4
        <4> HIDE DEF bound
        <4> QED BY <2>2, <4>1, <4>2
      <3> QED BY <3>1, <3>2
    <2> QED BY <1>2, <1>4, <2>4, <2>5
  <1> QED BY <1>2, <1>6, <1>7

-----------------------------------------------------------------------------
(* The invariant *)

LEMMA InitInv == Init => Inv
  <1> SUFFICES ASSUME Init PROVE Inv
    OBVIOUS
  <1>1. TypeOK
    BY ReadersAre, MergeAssumption DEF Init, BuffersInit, TypeOK
  <1>2. \A i \in Readers : used[i] = 0 /\ taken[i] = 0 /\ Len(input[i]) \in Nat
    BY <1>1, InputType DEF Init, BuffersInit
  <1> QED BY <1>1, <1>2 DEF Init, BuffersInit, Inv, Windows, Control

\* A loop over the two readers.
LEMMA NextReader ==
  ASSUME pos \in Readers, NEW next, NextReaderOr(next)
  PROVE  /\ pos' \in Readers
         /\ \/ pos = 0 /\ pos' = 1 /\ pc' = pc
            \/ pos = 1 /\ pos' = 0 /\ pc' = next
  BY ReadersAre DEF NextReaderOr

LEMMA ReadRowsInv ==
  ASSUME Inv, NEW m \in BatchSizes, ReadRows(m)
  PROVE  Inv'
  <1>1. m \in Nat /\ 0 \in Readers
    BY MergeAssumption, ReadersAre
  <1>2. TypeOK'
    BY <1>1 DEF Inv, TypeOK, ReadRows, bufferVars, gameVars
  <1>3. Windows'
    BY DEF Inv, Windows, ReadRows, bufferVars
  <1>4. Control'
    BY ReadersAre DEF Inv, Control, Settled, Ready, ReadRows, bufferVars, gameVars
  <1> QED BY <1>2, <1>3, <1>4 DEF Inv

LEMMA InitializeInv ==
  ASSUME Inv, Initialize
  PROVE  Inv'
  <1>1. /\ pc = "initialize" /\ pos \in Readers /\ initialized /\ initialized' = initialized
        /\ UNCHANGED <<want, n, out, faults, prev, streak>>
        /\ \A i \in Readers : IF i < pos THEN Settled(i) ELSE ~live[i] /\ used[i] = taken[i]
    BY DEF Inv, TypeOK, Control, Initialize
  <1>2. /\ pos' \in Readers
        /\ \/ pos = 0 /\ pos' = 1 /\ pc' = pc
           \/ pos = 1 /\ pos' = 0 /\ pc' = "refill"
    BY <1>1, NextReader DEF Initialize
  <1>3. CASE Fill(pos) /\ live' = [live EXCEPT ![pos] = TRUE]
    <2>1. /\ taken' \in [Readers -> Nat] /\ len' \in [Readers -> 0 .. maxRowBufferSize]
          /\ full' \in [Readers -> BOOLEAN] /\ UNCHANGED <<input, used>>
          /\ \A j \in Readers : /\ used[j] <= taken'[j] /\ taken'[j] <= Len(input[j])
                                /\ (j # pos => taken'[j] = taken[j])
      BY <1>1, <1>3, FillReady DEF Inv
    <2>2. TypeOK'
      BY <1>1, <1>2, <1>3, <2>1 DEF Inv, TypeOK
    <2>3. Windows'
      BY <2>1 DEF Windows
    <2>4. live'[pos] /\ \A i \in Readers : i # pos => live'[i] = live[i]
      BY <1>1, <1>3 DEF Inv, TypeOK
    <2>5. Control'
      BY <1>1, <1>2, <2>1, <2>4, ReadersAre DEF Control, Settled, Ready
    <2> QED BY <2>2, <2>3, <2>5 DEF Inv
  <1>4. CASE FillEOF(pos) /\ UNCHANGED live
    <2>1. /\ taken' \in [Readers -> Nat] /\ len' \in [Readers -> 0 .. maxRowBufferSize]
          /\ full' \in [Readers -> BOOLEAN] /\ Windows' /\ UNCHANGED <<input, taken, used, full>>
          /\ taken[pos] = Len(input[pos])
      BY <1>1, <1>4, FillLeaves DEF Inv, FillEOF, Exhausted
    <2>2. TypeOK'
      BY <1>1, <1>2, <1>4, <2>1 DEF Inv, TypeOK
    <2>3. Control'
      BY <1>1, <1>2, <1>4, <2>1, ReadersAre DEF Control, Settled, Ready
    <2> QED BY <2>1, <2>2, <2>3 DEF Inv
  <1> QED BY <1>3, <1>4 DEF Initialize

LEMMA RefillInv ==
  ASSUME Inv, Refill
  PROVE  Inv'
  <1>1. /\ pc = "refill" /\ pos \in Readers /\ initialized /\ initialized' = initialized
        /\ UNCHANGED <<want, n, out, faults, prev, streak>>
        /\ live[pos] /\ used[pos] = taken[pos]
        /\ \A i \in Readers : Settled(i) /\ (i < pos => Ready(i))
    BY DEF Inv, TypeOK, Control, Refill, empty
  <1>2. /\ pos' \in Readers
        /\ \/ pos = 0 /\ pos' = 1 /\ pc' = pc
           \/ pos = 1 /\ pos' = 0 /\ pc' = "merge"
    BY <1>1, NextReader DEF Refill
  <1>3. CASE Fill(pos) /\ UNCHANGED live
    <2>1. /\ taken' \in [Readers -> Nat] /\ len' \in [Readers -> 0 .. maxRowBufferSize]
          /\ full' \in [Readers -> BOOLEAN] /\ UNCHANGED <<input, used>>
          /\ used[pos] < taken'[pos]
          /\ \A j \in Readers : /\ used[j] <= taken'[j] /\ taken'[j] <= Len(input[j])
                                /\ (j # pos => taken'[j] = taken[j])
      BY <1>1, <1>3, FillReady DEF Inv
    <2>2. TypeOK'
      BY <1>1, <1>2, <1>3, <2>1 DEF Inv, TypeOK
    <2>3. Windows'
      BY <2>1 DEF Windows
    <2>4. Control'
      BY <1>1, <1>2, <1>3, <2>1, ReadersAre DEF Control, Settled, Ready
    <2> QED BY <2>2, <2>3, <2>4 DEF Inv
  <1>4. CASE FillEOF(pos) /\ live' = [live EXCEPT ![pos] = FALSE]
    <2>1. /\ taken' \in [Readers -> Nat] /\ len' \in [Readers -> 0 .. maxRowBufferSize]
          /\ full' \in [Readers -> BOOLEAN] /\ Windows' /\ UNCHANGED <<input, taken, used, full>>
          /\ taken[pos] = Len(input[pos])
      BY <1>1, <1>4, FillLeaves DEF Inv, FillEOF, Exhausted
    <2>2. TypeOK'
      BY <1>1, <1>2, <1>4, <2>1 DEF Inv, TypeOK
    <2>3. ~live'[pos] /\ \A i \in Readers : i # pos => live'[i] = live[i]
      BY <1>1, <1>4 DEF Inv, TypeOK
    <2>4. Control'
      BY <1>1, <1>2, <2>1, <2>3, ReadersAre DEF Control, Settled, Ready
    <2> QED BY <2>1, <2>2, <2>4 DEF Inv
  <1> QED BY <1>3, <1>4 DEF Refill

LEMMA RefillNothingInv ==
  ASSUME Inv, RefillNothing
  PROVE  Inv'
  <1>1. /\ pc = "refill" /\ pos \in Readers /\ initialized /\ initialized' = initialized
        /\ UNCHANGED <<bufferVars, want, n, out, faults, gameVars>>
        /\ ~(live[pos] /\ used[pos] = taken[pos])
        /\ \A i \in Readers : Settled(i) /\ (i < pos => Ready(i))
    BY DEF Inv, TypeOK, Control, RefillNothing, empty
  <1>2. /\ pos' \in Readers
        /\ \/ pos = 0 /\ pos' = 1 /\ pc' = pc
           \/ pos = 1 /\ pos' = 0 /\ pc' = "merge"
    BY <1>1, NextReader DEF RefillNothing
  <1>3. used[pos] \in Nat /\ taken[pos] \in Nat /\ used[pos] <= taken[pos]
    BY <1>1 DEF Inv, TypeOK, Windows
  <1>4. Ready(pos)
    BY <1>1, <1>3 DEF Ready
  <1>5. TypeOK' /\ Windows'
    BY <1>1, <1>2 DEF Inv, TypeOK, Windows, bufferVars, gameVars
  <1>6. Control'
    BY <1>1, <1>2, <1>4, ReadersAre DEF Control, Settled, Ready, bufferVars, gameVars
  <1> QED BY <1>5, <1>6 DEF Inv

LEMMA RefillFailsInv ==
  ASSUME Inv, RefillFails
  PROVE  Inv'
  <1>1. pos \in Readers /\ pc = "refill" /\ pc' \in {"idle", "failed"}
    BY DEF Inv, TypeOK, RefillFails, FillFails
  <1>2. /\ len' = [len EXCEPT ![pos] = BufferLen(pos)] /\ UNCHANGED <<input, taken, used, full>>
        /\ faults' = faults + 1 /\ UNCHANGED <<want, n, out, gameVars, pos, initialized>>
    BY DEF RefillFails, FillFails
  <1>3. /\ taken' \in [Readers -> Nat] /\ len' \in [Readers -> 0 .. maxRowBufferSize]
        /\ full' \in [Readers -> BOOLEAN] /\ Windows'
    BY <1>1, <1>2, FillLeaves DEF Inv
  <1>4. TypeOK'
    BY <1>1, <1>2, <1>3 DEF Inv, TypeOK, gameVars
  <1>5. Control'
    BY <1>1, <1>2 DEF Inv, Control, Settled, Ready, gameVars
  <1> QED BY <1>3, <1>4, <1>5 DEF Inv

\* After a failure in initialize the caller gives up: a reader that was not
\* reached is not settled.
NoRetryOfInitialize == "initialize" \notin Retries

LEMMA InitializeFailsInv ==
  ASSUME Inv, InitializeFails, NoRetryOfInitialize
  PROVE  Inv'
  <1>1. pos \in Readers /\ pc = "initialize" /\ pc' = "failed"
    BY DEF Inv, TypeOK, InitializeFails, FillFails, NoRetryOfInitialize
  <1>2. /\ len' = [len EXCEPT ![pos] = BufferLen(pos)] /\ UNCHANGED <<input, taken, used, full>>
        /\ faults' = faults + 1 /\ UNCHANGED <<want, n, out, gameVars, pos, initialized>>
    BY DEF InitializeFails, FillFails
  <1>3. /\ taken' \in [Readers -> Nat] /\ len' \in [Readers -> 0 .. maxRowBufferSize]
        /\ full' \in [Readers -> BOOLEAN] /\ Windows'
    BY <1>1, <1>2, FillLeaves DEF Inv
  <1>4. TypeOK'
    BY <1>1, <1>2, <1>3 DEF Inv, TypeOK, gameVars
  <1>5. Control'
    BY <1>1, <1>2 DEF Inv, Control, Settled, Ready, gameVars
  <1> QED BY <1>3, <1>4, <1>5 DEF Inv

\* What every step that emits rows has in common.
LEMMA EmitInv ==
  ASSUME Inv, pc = "merge",
         NEW batch \in Seq(Readers \X (Nat \ {0})), NEW u \in [Readers -> Nat],
         \A i \in Readers : used[i] <= u[i] /\ u[i] <= taken[i] /\ (~live[i] => u[i] = used[i]),
         n + Len(batch) <= want, Emit(batch, u),
         pc' \in {"idle", "merge"}, pc' = "merge" => \A i \in Readers : u[i] < taken[i],
         prev' \in Readers \cup {-1}, streak' \in Nat, UNCHANGED <<live, pos, initialized>>
  PROVE  Inv'
  <1>1. /\ n' \in Nat /\ n' <= want' /\ out' \in Seq(Readers \X (Nat \ {0}))
        /\ used' = u /\ Windows' /\ UNCHANGED <<input, taken, len, full, want, faults>>
    BY EmitType DEF Inv
  <1>2. TypeOK'
    BY <1>1 DEF Inv, TypeOK
  <1>3. initialized /\ \A i \in Readers : Settled(i)
    BY DEF Inv, Control
  <1>4. \A i \in Readers : Settled(i)'
    BY <1>1, <1>3 DEF Settled
  <1>5. pc' = "merge" => \A i \in Readers : Ready(i)'
    BY <1>1 DEF Ready
  <1>6. Control'
    BY <1>3, <1>4, <1>5 DEF Control
  <1> QED BY <1>1, <1>2, <1>6 DEF Inv

LEMMA AdvanceType ==
  ASSUME TypeOK, Windows, NEW i \in Readers, NEW m \in Nat, used[i] + m <= taken[i]
  PROVE  /\ Advance(i, m) \in [Readers -> Nat] /\ Advance(i, m)[i] = used[i] + m
         /\ \A k \in Readers : k # i => Advance(i, m)[k] = used[k]
         /\ \A k \in Readers : used[k] <= Advance(i, m)[k] /\ Advance(i, m)[k] <= taken[k]
  <1>1. \A k \in Readers : used[k] \in Nat /\ taken[k] \in Nat /\ used[k] <= taken[k]
    BY DEF TypeOK, Windows
  <1>2. /\ Advance(i, m) \in [Readers -> Nat] /\ Advance(i, m)[i] = used[i] + m
        /\ \A k \in Readers : k # i => Advance(i, m)[k] = used[k]
    BY <1>1 DEF TypeOK, Advance
  <1> QED BY <1>1, <1>2

LEMMA EndInv ==
  ASSUME Inv, End
  PROVE  Inv'
  BY DEF Inv, TypeOK, Windows, End, bufferVars, gameVars, Control, Settled, Ready

LEMMA NoRoomInv ==
  ASSUME Inv, NoRoom
  PROVE  Inv'
  BY DEF Inv, TypeOK, Windows, NoRoom, bufferVars, gameVars, Control, Settled, Ready

\* What is drained, or won, is in the buffer and there is room for it.
LEMMA DrainFacts ==
  ASSUME Inv, NEW i \in Readers, Drain(i)
  PROVE  \E m \in Nat :
           /\ m <= want /\ used[i] + m <= taken[i]
           /\ Emit(RunOf(i, m), Advance(i, m))
  <1> DEFINE m == Lesser(want, WindowLen(i))
  <1>1. want \in Nat /\ used[i] \in Nat /\ taken[i] \in Nat /\ used[i] <= taken[i]
    BY DEF Inv, TypeOK, Windows
  <1>2. m \in Nat /\ m <= want /\ used[i] + m <= taken[i]
    BY <1>1 DEF Lesser, WindowLen
  <1>3. Emit(RunOf(i, m), Advance(i, m))
    BY DEF Drain
  <1> QED BY <1>2, <1>3

\* Rows are emitted only in games of two readers, or at once by the last reader.
Fresh ==
  /\ pc \in {"initialize", "refill"} => n = 0
  /\ pc = "merge" => (n = 0 \/ (live[0] /\ live[1]))

LEMMA DrainInv ==
  ASSUME Inv, Fresh, NEW i \in Readers, Drain(i)
  PROVE  Inv'
  <1>1. /\ pc = "merge" /\ live[i] /\ ~live[Other(i)] /\ pc' = "idle"
        /\ UNCHANGED <<gameVars, pos, initialized>>
    BY DEF Drain
  <1>2. n = 0
    BY <1>1, ReadersAre DEF Fresh, Other
  <1>3. PICK m \in Nat : /\ m <= want /\ used[i] + m <= taken[i]
                         /\ Emit(RunOf(i, m), Advance(i, m))
    BY DrainFacts
  <1>4. /\ Advance(i, m) \in [Readers -> Nat]
        /\ \A k \in Readers : k # i => Advance(i, m)[k] = used[k]
        /\ \A k \in Readers : used[k] <= Advance(i, m)[k] /\ Advance(i, m)[k] <= taken[k]
    BY <1>3, AdvanceType DEF Inv
  <1>5. RunOf(i, m) \in Seq(Readers \X (Nat \ {0})) /\ Len(RunOf(i, m)) = m
    BY <1>3, RunOfType DEF Inv
  <1>6. n + Len(RunOf(i, m)) <= want
    BY <1>2, <1>3, <1>5 DEF Inv, TypeOK
  <1>7. prev' \in Readers \cup {-1} /\ streak' \in Nat /\ UNCHANGED live
    BY <1>1 DEF Inv, TypeOK, gameVars
  <1> HIDE DEF Inv
  <1> QED BY <1>1, <1>3, <1>4, <1>5, <1>6, <1>7, EmitInv

LEMMA WinInv ==
  ASSUME Inv, NEW i \in Readers, Win(i)
  PROVE  Inv'
  <1>1. /\ pc = "merge" /\ live[0] /\ live[1] /\ prev' = i
        /\ streak' = IF prev = i THEN streak + 1 ELSE 0
        /\ UNCHANGED <<live, pos, initialized>>
    BY DEF Win, Playing
  <1>2. PICK m \in 1 .. want - n :
          /\ m \in Nat \ {0} /\ n + m <= want /\ used[i] + m <= taken[i]
          /\ Emit(RunOf(i, m), Advance(i, m)) /\ EndGame(Advance(i, m))
    BY WinFacts
  <1>3. /\ Advance(i, m) \in [Readers -> Nat]
        /\ \A k \in Readers : used[k] <= Advance(i, m)[k] /\ Advance(i, m)[k] <= taken[k]
    BY <1>2, AdvanceType DEF Inv
  <1>4. RunOf(i, m) \in Seq(Readers \X (Nat \ {0})) /\ Len(RunOf(i, m)) = m
    BY <1>2, RunOfType DEF Inv
  <1>5. n + Len(RunOf(i, m)) <= want
    BY <1>2, <1>4
  <1>6. /\ pc' \in {"idle", "merge"}
        /\ pc' = "merge" => \A k \in Readers : Advance(i, m)[k] < taken[k]
    BY <1>2 DEF EndGame
  <1>7. prev' \in Readers \cup {-1} /\ streak' \in Nat
    BY <1>1 DEF Inv, TypeOK
  <1>8. \A k \in Readers : live[k]
    BY <1>1, ReadersAre
  <1> QED BY <1>1, <1>2, <1>3, <1>4, <1>5, <1>6, <1>7, <1>8, EmitInv

\* The rows of a tie, and what is used after it.
Pair == RunOf(0, 1) \o RunOf(1, 1)
BothUsed == [i \in Readers |-> used[i] + 1]

\* A run of one row.
LEMMA OneRow ==
  ASSUME TypeOK
  PROVE  \A i \in Readers : /\ RunOf(i, 1) \in Seq(Readers \X (Nat \ {0}))
                            /\ Len(RunOf(i, 1)) = 1 /\ RunOf(i, 1)[1] = <<i, used[i] + 1>>
  <1>1. TAKE i \in Readers
  <1>2. PICK m \in Nat : m = 1
    OBVIOUS
  <1>3. /\ RunOf(i, m) \in Seq(Readers \X (Nat \ {0})) /\ Len(RunOf(i, m)) = m
        /\ \A j \in 1 .. m : RunOf(i, m)[j] = <<i, used[i] + j>>
    BY <1>1, RunOfType
  <1>4. m \in 1 .. m
    BY <1>2
  <1>5. /\ RunOf(i, m) \in Seq(Readers \X (Nat \ {0})) /\ Len(RunOf(i, m)) = m
        /\ RunOf(i, m)[m] = <<i, used[i] + m>>
    BY <1>3, <1>4, Zenon
  <1> QED BY <1>2, <1>5, Zenon

LEMMA PairType ==
  ASSUME TypeOK
  PROVE  /\ Pair \in Seq(Readers \X (Nat \ {0})) /\ Len(Pair) = 2
         /\ Pair[1] = <<0, used[0] + 1>> /\ Pair[2] = <<1, used[1] + 1>>
  <1>1. 0 \in Readers /\ 1 \in Readers /\ 1 \in Nat
    BY ReadersAre
  <1>2. /\ RunOf(0, 1) \in Seq(Readers \X (Nat \ {0})) /\ Len(RunOf(0, 1)) = 1
        /\ RunOf(0, 1)[1] = <<0, used[0] + 1>>
    BY <1>1, OneRow, Zenon
  <1>3. /\ RunOf(1, 1) \in Seq(Readers \X (Nat \ {0})) /\ Len(RunOf(1, 1)) = 1
        /\ RunOf(1, 1)[1] = <<1, used[1] + 1>>
    BY <1>1, OneRow, Zenon
  <1> HIDE DEF RunOf
  <1> QED BY <1>2, <1>3 DEF Pair

LEMMA TieFacts ==
  ASSUME Inv, Tie
  PROVE  /\ pc = "merge" /\ live[0] /\ live[1] /\ n < want
         /\ \A i \in Readers : used[i] < taken[i]
         /\ input[0][used[0] + 1] = input[1][used[1] + 1]
         /\ prev' = -1 /\ streak' = 0 /\ UNCHANGED <<live, pos, initialized>>
         /\ \/ n + 1 < want /\ Emit(Pair, BothUsed) /\ EndGame(BothUsed)
            \/ Emit(RunOf(0, 1), Advance(0, 1)) /\ EndGame(Advance(0, 1))
  <1>1. /\ pc = "merge" /\ live[0] /\ live[1] /\ n < want
        /\ input[0][used[0] + 1] = input[1][used[1] + 1]
        /\ prev' = -1 /\ streak' = 0 /\ UNCHANGED <<live, pos, initialized>>
    BY DEF Tie, Playing, HeadKey
  <1>2. \A i \in Readers : used[i] < taken[i]
    BY <1>1, ReadersAre DEF Inv, Control, Ready
  <1>3. \/ n + 1 < want /\ Emit(Pair, BothUsed) /\ EndGame(BothUsed)
        \/ Emit(RunOf(0, 1), Advance(0, 1)) /\ EndGame(Advance(0, 1))
    BY Zenon DEF Tie, RoomForBoth, Pair, BothUsed
  <1> QED BY <1>1, <1>2, <1>3

LEMMA TieInv ==
  ASSUME Inv, Tie
  PROVE  Inv'
  <1>1. /\ pc = "merge" /\ live[0] /\ live[1] /\ n < want
        /\ \A i \in Readers : used[i] < taken[i]
        /\ prev' = -1 /\ streak' = 0 /\ UNCHANGED <<live, pos, initialized>>
    BY TieFacts
  <1>2. n \in Nat /\ want \in Nat /\ \A i \in Readers : used[i] \in Nat /\ taken[i] \in Nat
    BY DEF Inv, TypeOK
  <1>3. prev' \in Readers \cup {-1} /\ streak' \in Nat /\ \A k \in Readers : live[k]
    BY <1>1, ReadersAre
  <1>4. CASE n + 1 < want /\ Emit(Pair, BothUsed) /\ EndGame(BothUsed)
    <2>1. Pair \in Seq(Readers \X (Nat \ {0})) /\ n + Len(Pair) <= want
      <3>1. Pair \in Seq(Readers \X (Nat \ {0})) /\ Len(Pair) = 2
        BY PairType DEF Inv
      <3>2. n + 2 <= want
        BY <1>2, <1>4
      <3> QED BY <3>1, <3>2, Zenon
    <2>2. /\ BothUsed \in [Readers -> Nat]
          /\ \A k \in Readers : used[k] <= BothUsed[k] /\ BothUsed[k] <= taken[k]
      BY <1>1, <1>2 DEF BothUsed
    <2>3. /\ pc' \in {"idle", "merge"}
          /\ pc' = "merge" => \A k \in Readers : BothUsed[k] < taken[k]
      BY <1>4 DEF EndGame
    <2> QED BY <1>1, <1>3, <1>4, <2>1, <2>2, <2>3, EmitInv
  <1>5. CASE Emit(RunOf(0, 1), Advance(0, 1)) /\ EndGame(Advance(0, 1))
    <2>1. 0 \in Readers /\ 1 \in Nat /\ used[0] + 1 <= taken[0]
      BY <1>1, <1>2, ReadersAre
    <2>2. RunOf(0, 1) \in Seq(Readers \X (Nat \ {0})) /\ Len(RunOf(0, 1)) = 1
      BY <2>1, OneRow, Zenon DEF Inv
    <2>3. /\ Advance(0, 1) \in [Readers -> Nat]
          /\ \A k \in Readers : used[k] <= Advance(0, 1)[k] /\ Advance(0, 1)[k] <= taken[k]
      BY <2>1, AdvanceType DEF Inv
    <2>4. n + Len(RunOf(0, 1)) <= want
      <3>1. n + 1 <= want
        BY <1>1, <1>2
      <3> QED BY <2>2, <3>1, Zenon
    <2>5. /\ pc' \in {"idle", "merge"}
          /\ pc' = "merge" => \A k \in Readers : Advance(0, 1)[k] < taken[k]
      BY <1>5 DEF EndGame
    <2> QED BY <1>1, <1>3, <1>5, <2>2, <2>3, <2>4, <2>5, EmitInv
  <1> QED BY <1>4, <1>5, TieFacts

LEMMA FreshNext ==
  ASSUME Inv, Fresh, Next
  PROVE  Fresh'
  <1>1. ASSUME NEW m \in BatchSizes, ReadRows(m) PROVE Fresh'
    BY <1>1 DEF ReadRows, Fresh
  <1>2. CASE Initialize
    BY <1>2 DEF Initialize, NextReaderOr, Fresh
  <1>3. CASE Refill
    BY <1>3 DEF Refill, NextReaderOr, Fresh
  <1>4. CASE RefillNothing
    BY <1>4 DEF RefillNothing, NextReaderOr, Fresh
  <1>5. CASE RefillFails \/ InitializeFails
    BY <1>5 DEF RefillFails, InitializeFails, FillFails, Fresh
  <1>6. CASE End \/ NoRoom
    BY <1>6 DEF End, NoRoom, Fresh
  <1>7. ASSUME NEW i \in Readers, Drain(i) PROVE Fresh'
    BY <1>7 DEF Drain, Fresh
  <1>8. ASSUME NEW i \in Readers, Win(i) PROVE Fresh'
    BY <1>8 DEF Win, Playing, Fresh, EndGame
  <1>9. CASE Tie
    BY <1>9, TieFacts DEF Tie, Playing, Fresh, EndGame
  <1> QED BY <1>1, <1>2, <1>3, <1>4, <1>5, <1>6, <1>7, <1>8, <1>9 DEF Next, Step

LEMMA NextInv ==
  ASSUME Inv, Fresh, [Next]_vars, NoRetryOfInitialize
  PROVE  Inv' /\ Fresh'
  <1>1. CASE Next
    BY <1>1, ReadRowsInv, InitializeInv, InitializeFailsInv, RefillInv, RefillNothingInv,
      RefillFailsInv, EndInv, DrainInv, WinInv, TieInv, NoRoomInv, FreshNext DEF Next, Step
  <1>2. CASE UNCHANGED vars
    BY <1>2 DEF Inv, TypeOK, Windows, Fresh, vars, bufferVars, callVars, gameVars, Control, Settled,
      Ready
  <1> QED BY <1>1, <1>2

-----------------------------------------------------------------------------
(* The refinement *)

\* A batch that is appended is a step of SortedMerge when it holds exactly the
\* rows that are used by it, in order, and no row that remains is smaller.
LEMMA MergeStep ==
  ASSUME Inv, pc = "merge", pc' # "eof",
         NEW batch \in Seq(Readers \X (Nat \ {0})), batch # << >>, NEW u \in [Readers -> Nat],
         \A i \in Readers : used[i] <= u[i] /\ u[i] <= taken[i], Emit(batch, u),
         \A a \in 1 .. Len(batch) : \E i \in Readers :
            \E j \in used[i] + 1 .. u[i] : batch[a] = <<i, j>>,
         \A i \in Readers : \A j \in used[i] + 1 .. u[i] :
            \E a \in 1 .. Len(batch) : batch[a] = <<i, j>>,
         \A a, b \in 1 .. Len(batch) :
            (a < b /\ batch[a][1] = batch[b][1]) => batch[a][2] < batch[b][2],
         \A a, b \in 1 .. Len(batch) : a < b => Merged!KeyOf(batch[a]) <= Merged!KeyOf(batch[b]),
         \A a \in 1 .. Len(batch), i \in Readers :
            u[i] < Len(input[i]) => Merged!KeyOf(batch[a]) <= input[i][u[i] + 1]
  PROVE  Merged!Merge
  <1>1. /\ out' = out \o batch /\ used' = u /\ input' = input
        /\ out \in Seq(Readers \X (Nat \ {0})) /\ Len(out) \in Nat /\ Len(batch) \in Nat \ {0}
    <2>1. out' = out \o batch /\ used' = u /\ input' = input
      BY DEF Emit
    <2>2. out \in Seq(Readers \X (Nat \ {0})) /\ Len(out) \in Nat
      BY DEF Inv, TypeOK
    <2>3. Len(batch) \in Nat \ {0}
      OBVIOUS
    <2> QED BY <2>1, <2>2, <2>3
  <1>2. /\ Len(out') = Len(out) + Len(batch)
        /\ \A a \in 1 .. Len(out) : out'[a] = out[a]
        /\ \A a \in 1 .. Len(batch) : out'[Len(out) + a] = batch[a]
    BY <1>1
  <1>3. Merged!Added = Len(out) + 1 .. Len(out) + Len(batch)
    BY <1>2 DEF Merged!Added
  <1>4. \A a \in Merged!Added : a - Len(out) \in 1 .. Len(batch) /\ out'[a] = batch[a - Len(out)]
    <2>1. TAKE a \in Merged!Added
    <2>2. a - Len(out) \in 1 .. Len(batch) /\ a = Len(out) + (a - Len(out))
      BY <1>1, <1>3
    <2> QED BY <1>2, <2>2
  <1>5. \A a \in 1 .. Len(batch) : Len(out) + a \in Merged!Added
    BY <1>1, <1>3
  <1>6. Len(out) < Len(out')
    BY <1>1, <1>2
  <1>7. \A i \in Readers : used[i] <= used'[i] /\ used'[i] <= Len(input[i])
    <2>1. \A i \in Readers : used[i] \in Nat /\ taken[i] \in Nat /\ taken[i] <= Len(input[i])
                             /\ Len(input[i]) \in Nat
      BY InputType DEF Inv, TypeOK, Windows
    <2>2. TAKE i \in Readers
    <2>3. used[i] <= u[i] /\ u[i] <= taken[i] /\ u[i] \in Nat
      BY <2>2
    <2> QED BY <1>1, <2>1, <2>2, <2>3
  <1>8. \A a \in Merged!Added : \E i \in Readers :
          \E j \in used[i] + 1 .. used'[i] : out'[a] = <<i, j>>
    <2>1. TAKE a \in Merged!Added
    <2>2. out'[a] = batch[a - Len(out)] /\ a - Len(out) \in 1 .. Len(batch)
      BY <1>4, <2>1
    <2>3. \E i \in Readers : \E j \in used[i] + 1 .. u[i] : batch[a - Len(out)] = <<i, j>>
      BY <2>2
    <2> QED BY <1>1, <2>2, <2>3
  <1>9. \A i \in Readers : \A j \in used[i] + 1 .. used'[i] :
          \E a \in Merged!Added : out'[a] = <<i, j>>
    <2>1. TAKE i \in Readers
    <2>2. TAKE j \in used[i] + 1 .. used'[i]
    <2>3. PICK a \in 1 .. Len(batch) : batch[a] = <<i, j>>
      BY <1>1, <2>1, <2>2
    <2>4. Len(out) + a \in Merged!Added /\ out'[Len(out) + a] = <<i, j>>
      BY <1>2, <1>5, <2>3
    <2> QED BY <2>4
  <1>10. \A a, b \in Merged!Added :
           (a < b /\ out'[a][1] = out'[b][1]) => out'[a][2] < out'[b][2]
    <2>1. TAKE a, b \in Merged!Added
    <2>2. HAVE a < b /\ out'[a][1] = out'[b][1]
    <2>3. a - Len(out) < b - Len(out)
      BY <1>1, <1>3, <2>2
    <2>4. /\ a - Len(out) \in 1 .. Len(batch) /\ out'[a] = batch[a - Len(out)]
          /\ b - Len(out) \in 1 .. Len(batch) /\ out'[b] = batch[b - Len(out)]
      BY <1>4, <2>1
    <2>5. batch[a - Len(out)][1] = batch[b - Len(out)][1]
      BY <2>2, <2>4
    <2>6. batch[a - Len(out)][2] < batch[b - Len(out)][2]
      BY <2>3, <2>4, <2>5
    <2> QED BY <2>4, <2>6
  <1>11. \A a, b \in Merged!Added : a < b => Merged!KeyOf(out'[a]) <= Merged!KeyOf(out'[b])
    <2>1. TAKE a, b \in Merged!Added
    <2>2. HAVE a < b
    <2>3. a - Len(out) < b - Len(out)
      BY <1>1, <1>3, <2>2
    <2> QED BY <1>4, <2>3
  <1>12. \A a \in Merged!Added, i \in Readers :
           Merged!HasNext(i, used') => Merged!KeyOf(out'[a]) <= Merged!NextKey(i, used')
    BY <1>1, <1>4 DEF Merged!HasNext, Merged!NextKey
  <1>13. ~(pc = "eof") /\ UNCHANGED <<input, pc = "eof">>
    BY <1>1
  <1> QED BY <1>2, <1>6, <1>7, <1>8, <1>9, <1>10, <1>11, <1>12, <1>13, Zenon DEF Merged!Merge

\* A run of one reader is such a batch when no row of it is larger than the next
\* row of the other reader.
LEMMA RunStep ==
  ASSUME Inv, pc = "merge", pc' # "eof", NEW i \in Readers, NEW m \in Nat \ {0},
         used[i] + m <= taken[i], Emit(RunOf(i, m), Advance(i, m)),
         \A k \in Readers : (k # i /\ used[k] < Len(input[k])) =>
            \A j \in 1 .. m : input[i][used[i] + j] <= input[k][used[k] + 1]
  PROVE  Merged!Merge
  <1> DEFINE batch == RunOf(i, m)
             u == Advance(i, m)
  <1>1. /\ batch \in Seq(Readers \X (Nat \ {0})) /\ Len(batch) = m
        /\ \A j \in 1 .. m : batch[j] = <<i, used[i] + j>>
    BY RunOfType DEF Inv
  <1>2. /\ u \in [Readers -> Nat] /\ u[i] = used[i] + m
        /\ \A k \in Readers : k # i => u[k] = used[k]
        /\ \A k \in Readers : used[k] <= u[k] /\ u[k] <= taken[k]
    BY AdvanceType DEF Inv
  <1>3. /\ input[i] \in Seq(Int) /\ Len(input[i]) \in Nat /\ used[i] \in Nat
        /\ \A j, k \in 1 .. Len(input[i]) : j <= k => input[i][j] <= input[i][k]
        /\ taken[i] \in Nat /\ taken[i] <= Len(input[i])
    BY InputType DEF Inv, TypeOK, Windows
  <1>4. used[i] \in Nat /\ Len(input[i]) \in Nat /\ used[i] + m <= Len(input[i])
    BY <1>3
  <1>5. \A a \in 1 .. m : /\ used[i] + a \in used[i] + 1 .. used[i] + m
                           /\ used[i] + a \in 1 .. Len(input[i])
    BY <1>4
  <1>6. \A a \in 1 .. m : Merged!KeyOf(batch[a]) = input[i][used[i] + a]
    BY <1>1 DEF Merged!KeyOf
  <1>7. batch # << >>
    BY <1>1
  <1> HIDE DEF batch, u
  <1>8. Emit(batch, u)
    BY DEF batch, u
  <1>9. \A a \in 1 .. Len(batch) : \E k \in Readers :
          \E j \in used[k] + 1 .. u[k] : batch[a] = <<k, j>>
    <2>1. TAKE a \in 1 .. Len(batch)
    <2>2. a \in 1 .. m /\ batch[a] = <<i, used[i] + a>>
      BY <1>1, <2>1
    <2>3. used[i] + a \in used[i] + 1 .. u[i]
      BY <1>2, <1>5, <2>2
    <2> QED BY <2>2, <2>3
  <1>10. \A k \in Readers : \A j \in used[k] + 1 .. u[k] :
          \E a \in 1 .. Len(batch) : batch[a] = <<k, j>>
    <2>1. TAKE k \in Readers
    <2>2. TAKE j \in used[k] + 1 .. u[k]
    <2>3. CASE k # i
      BY <1>2, <2>2, <2>3 DEF Inv, TypeOK
    <2>4. CASE k = i
      <3>1. j - used[i] \in 1 .. m /\ used[i] + (j - used[i]) = j
        BY <1>2, <1>3, <2>2, <2>4
      <3>2. batch[j - used[i]] = <<i, used[i] + (j - used[i])>>
        BY <1>1, <3>1
      <3> QED BY <1>1, <2>4, <3>1, <3>2
    <2> QED BY <2>3, <2>4
  <1>11. \A a, b \in 1 .. Len(batch) :
          (a < b /\ batch[a][1] = batch[b][1]) => batch[a][2] < batch[b][2]
    <2>1. TAKE a, b \in 1 .. Len(batch)
    <2>2. batch[a] = <<i, used[i] + a>> /\ batch[b] = <<i, used[i] + b>>
      BY <1>1
    <2>3. batch[a][2] = used[i] + a /\ batch[b][2] = used[i] + b
      BY <2>2
    <2>4. a < b => used[i] + a < used[i] + b
      BY <1>1, <1>3
    <2> QED BY <2>3, <2>4
  <1>12. \A a, b \in 1 .. Len(batch) : a < b => Merged!KeyOf(batch[a]) <= Merged!KeyOf(batch[b])
    <2>1. TAKE a, b \in 1 .. Len(batch)
    <2>2. HAVE a < b
    <2>3. /\ used[i] + a \in 1 .. Len(input[i]) /\ used[i] + b \in 1 .. Len(input[i])
          /\ used[i] + a <= used[i] + b
      BY <1>1, <1>4, <1>5, <2>1, <2>2
    <2>4. input[i][used[i] + a] <= input[i][used[i] + b]
      BY <1>3, <2>3
    <2> QED BY <1>1, <1>6, <2>4
  <1>13. \A a \in 1 .. Len(batch), k \in Readers :
           u[k] < Len(input[k]) => Merged!KeyOf(batch[a]) <= input[k][u[k] + 1]
    <2>1. TAKE a \in 1 .. Len(batch), k \in Readers
    <2>2. HAVE u[k] < Len(input[k])
    <2>3. CASE k # i
      BY <1>1, <1>2, <1>6, <2>2, <2>3
    <2>4. CASE k = i
      <3>1. /\ used[i] + a \in 1 .. Len(input[i]) /\ u[i] + 1 \in 1 .. Len(input[i])
            /\ used[i] + a <= u[i] + 1
        <4>1. a \in 1 .. m
          BY <1>1, <2>1
        <4>2. u[i] = used[i] + m /\ u[i] < Len(input[i])
          BY <1>2, <2>2, <2>4
        <4>3. used[i] + a \in 1 .. Len(input[i])
          BY <1>5, <4>1
        <4>4. used[i] + m + 1 \in 1 .. Len(input[i]) /\ used[i] + a <= used[i] + m + 1
          BY <1>4, <4>1, <4>2
        <4> QED BY <4>2, <4>3, <4>4
      <3>2. input[i][used[i] + a] <= input[i][u[i] + 1]
        BY <1>3, <3>1
      <3> QED BY <1>1, <1>6, <2>4, <3>2
    <2> QED BY <2>3, <2>4
  <1> QED BY <1>1, <1>2, <1>7, <1>8, <1>9, <1>10, <1>11, <1>12, <1>13, MergeStep

\* The readers that are not given up are the ones with rows.
LEMMA HeadsInside ==
  ASSUME Inv, pc = "merge", NEW i \in Readers
  PROVE  /\ used[i] \in Nat /\ taken[i] \in Nat /\ Len(input[i]) \in Nat
         /\ taken[i] <= Len(input[i])
         /\ ~live[i] => used[i] = Len(input[i])
         /\ (used[i] < taken[i]) =>
              input[i][used[i] + 1] \in Int
  <1>1. /\ used[i] \in Nat /\ taken[i] \in Nat /\ Len(input[i]) \in Nat
        /\ input[i] \in Seq(Int) /\ taken[i] <= Len(input[i])
    BY InputType DEF Inv, TypeOK, Windows
  <1>2. ~live[i] => used[i] = Len(input[i])
    BY DEF Inv, Control, Settled
  <1>3. ASSUME used[i] < taken[i] PROVE input[i][used[i] + 1] \in Int
    BY <1>1, <1>3
  <1> QED BY <1>1, <1>2, <1>3

LEMMA WinStep ==
  ASSUME Inv, NEW i \in Readers, Win(i)
  PROVE  Merged!Merge
  <1>1. pc = "merge" /\ live[0] /\ live[1]
    BY DEF Win, Playing
  <1>2. PICK m \in 1 .. want - n :
          /\ m \in Nat \ {0} /\ used[i] + m <= taken[i]
          /\ Emit(RunOf(i, m), Advance(i, m)) /\ EndGame(Advance(i, m))
          /\ \A j \in 1 .. m : input[i][used[i] + j] < HeadKey(Other(i), used)
    BY WinFacts
  <1>3. pc' # "eof"
    BY <1>2 DEF EndGame
  <1>4. ASSUME NEW k \in Readers, k # i, NEW j \in 1 .. m
        PROVE  input[i][used[i] + j] <= input[k][used[k] + 1]
    <2>1. k = Other(i)
      BY <1>4, ReadersAre DEF Other
    <2>2. input[i][used[i] + j] < input[k][used[k] + 1]
      BY <1>2, <2>1 DEF HeadKey
    <2>3. used[k] < taken[k]
      BY <1>1, ReadersAre DEF Inv, Control, Ready
    <2>4. input[k][used[k] + 1] \in Int
      BY <1>1, <2>3, HeadsInside
    <2>5. input[i][used[i] + j] \in Int
      <3>1. /\ input[i] \in Seq(Int) /\ Len(input[i]) \in Nat /\ used[i] \in Nat
            /\ taken[i] \in Nat /\ taken[i] <= Len(input[i])
        BY InputType DEF Inv, TypeOK, Windows
      <3>2. used[i] + j \in 1 .. Len(input[i])
        <4>1. m \in Nat /\ used[i] + m <= taken[i]
          BY <1>2
        <4> QED BY <3>1, <4>1
      <3> QED BY <3>1, <3>2
    <2> QED BY <2>2, <2>4, <2>5
  <1> QED BY <1>1, <1>2, <1>3, <1>4, RunStep

\* Draining emits a run as well, unless the caller gave no room.
LEMMA DrainStep ==
  ASSUME Inv, NEW i \in Readers, Drain(i)
  PROVE  Merged!Merge \/ UNCHANGED Merged!mergeVars
  <1>1. pc = "merge" /\ pc' = "idle" /\ live[i] /\ ~live[Other(i)]
    BY DEF Drain
  <1>2. PICK m \in Nat : used[i] + m <= taken[i] /\ Emit(RunOf(i, m), Advance(i, m))
    BY DrainFacts
  <1>3. CASE m = 0
    <2>1. used[i] \in Nat /\ used \in [Readers -> Nat] /\ out \in Seq(Readers \X (Nat \ {0}))
      BY DEF Inv, TypeOK
    <2>2. Advance(i, m) = used
      BY <1>3, <2>1 DEF Advance
    <2>3. RunOf(i, m) \in Seq(Readers \X (Nat \ {0})) /\ Len(RunOf(i, m)) = 0
      BY <1>3, RunOfType DEF Inv
    <2>4. out' = out /\ used' = used /\ input' = input
      BY <1>2, <2>1, <2>2, <2>3 DEF Emit
    <2> QED BY <1>1, <2>4 DEF Merged!mergeVars
  <1>4. CASE m # 0
    <2>1. ASSUME NEW k \in Readers, k # i PROVE ~(used[k] < Len(input[k]))
      BY <1>1, <2>1, ReadersAre, HeadsInside DEF Other
    <2> QED BY <1>1, <1>2, <1>4, <2>1, RunStep
  <1> QED BY <1>3, <1>4

LEMMA TieStep ==
  ASSUME Inv, Tie
  PROVE  Merged!Merge
  <1>1. /\ pc = "merge" /\ \A i \in Readers : used[i] < taken[i]
        /\ input[0][used[0] + 1] = input[1][used[1] + 1]
    BY TieFacts
  <1>2. 0 \in Readers /\ 1 \in Readers
    BY ReadersAre
  <1>3. \A i \in Readers : /\ used[i] \in Nat /\ taken[i] \in Nat /\ Len(input[i]) \in Nat
                           /\ taken[i] <= Len(input[i]) /\ input[i][used[i] + 1] \in Int
    BY <1>1, HeadsInside
  <1>4. CASE n + 1 < want /\ Emit(Pair, BothUsed) /\ EndGame(BothUsed)
    <2>1. /\ Pair \in Seq(Readers \X (Nat \ {0})) /\ Len(Pair) = 2 /\ Pair # << >>
          /\ Pair[1] = <<0, used[0] + 1>> /\ Pair[2] = <<1, used[1] + 1>>
      BY PairType DEF Inv
    <2>2. /\ BothUsed \in [Readers -> Nat]
          /\ \A k \in Readers : BothUsed[k] = used[k] + 1
          /\ \A k \in Readers : used[k] <= BothUsed[k] /\ BothUsed[k] <= taken[k]
      BY <1>1, <1>3 DEF BothUsed
    <2>3. pc' # "eof"
      BY <1>4 DEF EndGame
    <2>4. \A k \in Readers : \A j \in used[k] + 1 .. BothUsed[k] : j = used[k] + 1
      BY <1>3, <2>2
    <2>5. \A k \in Readers : used[k] + 1 \in used[k] + 1 .. BothUsed[k]
      BY <1>3, <2>2
    <2>6. \A a \in 1 .. Len(Pair) : \E k \in Readers :
            \E j \in used[k] + 1 .. BothUsed[k] : Pair[a] = <<k, j>>
      <3>1. TAKE a \in 1 .. Len(Pair)
      <3>2. a = 1 \/ a = 2
        BY <2>1
      <3>3. CASE a = 1
        BY <1>2, <2>1, <2>5, <3>3, Zenon
      <3>4. CASE a = 2
        BY <1>2, <2>1, <2>5, <3>4, Zenon
      <3> QED BY <3>2, <3>3, <3>4
    <2>7. \A k \in Readers : \A j \in used[k] + 1 .. BothUsed[k] :
            \E a \in 1 .. Len(Pair) : Pair[a] = <<k, j>>
      <3>1. TAKE k \in Readers
      <3>2. TAKE j \in used[k] + 1 .. BothUsed[k]
      <3>3. j = used[k] + 1
        BY <2>4, <3>2
      <3>4. 1 \in 1 .. Len(Pair) /\ 2 \in 1 .. Len(Pair)
        BY <2>1
      <3>5. k = 0 \/ k = 1
        BY <3>1, ReadersAre
      <3>6. CASE k = 0
        BY <2>1, <3>3, <3>4, <3>6, Zenon
      <3>7. CASE k = 1
        BY <2>1, <3>3, <3>4, <3>7, Zenon
      <3> QED BY <3>5, <3>6, <3>7
    <2>8. \A a \in 1 .. Len(Pair) : a = 1 \/ a = 2
      BY <2>1
    <2>9. Pair[1][1] = 0 /\ Pair[2][1] = 1
      BY <2>1
    <2>10. \A a, b \in 1 .. Len(Pair) :
             (a < b /\ Pair[a][1] = Pair[b][1]) => Pair[a][2] < Pair[b][2]
      BY <2>8, <2>9
    <2>11. \A a \in 1 .. Len(Pair), k \in Readers : Merged!KeyOf(Pair[a]) = input[k][used[k] + 1]
      <3>1. /\ Merged!KeyOf(Pair[1]) = input[0][used[0] + 1]
            /\ Merged!KeyOf(Pair[2]) = input[1][used[1] + 1]
        BY <2>1 DEF Merged!KeyOf
      <3>2. \A k \in Readers : input[k][used[k] + 1] = input[0][used[0] + 1]
        BY <1>1, ReadersAre
      <3> HIDE DEF Merged!KeyOf
      <3> QED BY <1>1, <2>8, <3>1, <3>2, Zenon
    <2>12. \A a, b \in 1 .. Len(Pair) : a < b => Merged!KeyOf(Pair[a]) <= Merged!KeyOf(Pair[b])
      <3>1. TAKE a, b \in 1 .. Len(Pair)
      <3>2. /\ Merged!KeyOf(Pair[a]) = input[0][used[0] + 1]
            /\ Merged!KeyOf(Pair[b]) = input[0][used[0] + 1]
            /\ input[0][used[0] + 1] \in Int
        BY <1>2, <1>3, <2>11, <3>1, Zenon
      <3> QED BY <3>2
    <2>13. \A a \in 1 .. Len(Pair), k \in Readers :
             BothUsed[k] < Len(input[k]) => Merged!KeyOf(Pair[a]) <= input[k][BothUsed[k] + 1]
      <3>1. TAKE a \in 1 .. Len(Pair), k \in Readers
      <3>2. HAVE BothUsed[k] < Len(input[k])
      <3>3. Merged!KeyOf(Pair[a]) = input[k][used[k] + 1]
        BY <2>11, <3>1, Zenon
      <3>4. /\ used[k] + 1 \in 1 .. Len(input[k]) /\ BothUsed[k] + 1 \in 1 .. Len(input[k])
            /\ used[k] + 1 <= BothUsed[k] + 1
        BY <1>3, <2>2, <3>1, <3>2
      <3>5. input[k][used[k] + 1] <= input[k][BothUsed[k] + 1]
        BY <3>1, <3>4, InputType DEF Inv
      <3> QED BY <3>3, <3>5
    <2> QED BY <1>1, <1>4, <2>1, <2>2, <2>3, <2>6, <2>7, <2>10, <2>12, <2>13, MergeStep
  <1>5. CASE Emit(RunOf(0, 1), Advance(0, 1)) /\ EndGame(Advance(0, 1))
    <2>1. PICK i \in Readers : i = 0
      BY <1>2
    <2>2. PICK m \in Nat \ {0} : m = 1
      OBVIOUS
    <2>3. Emit(RunOf(i, m), Advance(i, m))
      BY <1>5, <2>1, <2>2, Zenon
    <2>4. used[i] + m <= taken[i]
      BY <1>1, <1>3, <2>2
    <2>5. ASSUME NEW k \in Readers, NEW j \in 1 .. m
          PROVE  input[i][used[i] + j] <= input[k][used[k] + 1]
      <3>1. j = 1
        BY <2>2
      <3>2. input[k][used[k] + 1] = input[0][used[0] + 1]
        BY <1>1, ReadersAre
      <3>3. input[0][used[0] + 1] \in Int
        BY <1>2, <1>3, Zenon
      <3> QED BY <2>1, <3>1, <3>2, <3>3
    <2>6. pc' # "eof"
      BY <1>5 DEF EndGame
    <2> QED BY <1>1, <2>3, <2>4, <2>5, <2>6, RunStep
  <1> QED BY <1>4, <1>5, TieFacts

\* Every step of a call is a step of SortedMerge or changes nothing of it.
LEMMA StepRefines ==
  ASSUME Inv, [Next]_vars
  PROVE  [Merged!Next]_(Merged!mergeVars)
  <1>1. ASSUME NEW m \in BatchSizes, ReadRows(m) PROVE UNCHANGED Merged!mergeVars
    BY <1>1 DEF ReadRows, bufferVars, Merged!mergeVars
  <1>2. CASE Initialize \/ Refill
    BY <1>2 DEF Initialize, Refill, Fill, FillEOF, NextReaderOr, Merged!mergeVars
  <1>3. CASE RefillNothing
    BY <1>3 DEF RefillNothing, NextReaderOr, bufferVars, Merged!mergeVars
  <1>4. CASE RefillFails \/ InitializeFails
    BY <1>4 DEF RefillFails, InitializeFails, FillFails, Merged!mergeVars
  <1>5. CASE NoRoom
    BY <1>5 DEF NoRoom, bufferVars, Merged!mergeVars
  <1>6. CASE End
    <2>1. pc = "merge" /\ pc' = "eof" /\ UNCHANGED <<input, used, out>>
      BY <1>6 DEF End, bufferVars
    <2>2. \A i \in Readers : used[i] = Len(input[i]) /\ used[i] \in Nat
      BY <1>6, <2>1, HeadsInside DEF End
    <2>3. \A i \in Readers : ~Merged!HasNext(i, used)
      BY <2>2 DEF Merged!HasNext
    <2>4. Merged!End
      BY <2>1, <2>3 DEF Merged!End
    <2> QED BY <2>4 DEF Merged!Next
  <1>7. ASSUME NEW i \in Readers, Drain(i) PROVE [Merged!Next]_(Merged!mergeVars)
    BY <1>7, DrainStep DEF Merged!Next
  <1>8. ASSUME NEW i \in Readers, Win(i) PROVE Merged!Next
    BY <1>8, WinStep DEF Merged!Next
  <1>9. CASE Tie
    BY <1>9, TieStep DEF Merged!Next
  <1>10. CASE UNCHANGED vars
    BY <1>10 DEF vars, bufferVars, callVars, Merged!mergeVars
  <1> QED BY <1>1, <1>2, <1>3, <1>4, <1>5, <1>6, <1>7, <1>8, <1>9, <1>10 DEF Next, Step

LEMMA InitRefines == Init => Merged!Init
  <1> SUFFICES ASSUME Init PROVE Merged!Init
    OBVIOUS
  <1>1. TypeOK
    BY InitInv DEF Inv
  <1>2. input \in [Readers -> SortedInput]
    BY <1>1 DEF TypeOK
  <1>3. \A i \in Readers :
          /\ input[i] \in Seq(Int)
          /\ \A j, k \in 1 .. Len(input[i]) : j <= k => input[i][j] <= input[i][k]
    BY <1>1, InputType
  <1>4. input \in [Readers -> Seq(Int)]
    BY <1>2, <1>3
  <1>5. used = [i \in Readers |-> 0] /\ out = << >> /\ (pc = "eof") = FALSE
    BY DEF Init, BuffersInit
  <1> QED BY <1>3, <1>4, <1>5 DEF Merged!Init

\* For readers of any length, any keys, buffers and room in the calls, and
\* wherever readers fail: the two-way merge emits the rows of both readers
\* sorted, each once, and reports the end when none is left.  Only a caller that
\* calls again after its first call failed is excluded: initialize is not
\* repeated, and the second call reports the end with rows unread.
THEOREM Merge2Correct ==
  ASSUME NoRetryOfInitialize
  PROVE  Spec => ImplementsMerge
  <1>1. Init => Inv /\ Fresh
    BY InitInv DEF Init, BuffersInit, Fresh
  <1>2. Inv /\ Fresh /\ [Next]_vars => Inv' /\ Fresh'
    BY NextInv
  <1>3. Inv /\ [Next]_vars => [Merged!Next]_(Merged!mergeVars)
    BY StepRefines
  <1> QED BY <1>1, <1>2, <1>3, InitRefines, PTL DEF Spec, ImplementsMerge, Merged!Spec
=============================================================================
