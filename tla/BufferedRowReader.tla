------------------------- MODULE BufferedRowReader --------------------------
(***************************************************************************)
(* The inputs of a merge (bufferedRowReader of merge.go): one sorted        *)
(* RowReader each, read ahead into a buffer that grows as long as the      *)
(* reader fills it, and the state of the call of ReadRows in progress.     *)
(* Modules MergedRowReader2 and MergedRowReader extend this one.           *)
(*                                                                         *)
(* A row is <<i, j>>, row j of reader i; the comparison sees its key only. *)
(* The rows of reader i in its buffer are those after used[i] up to        *)
(* taken[i].  The offsets off and end of the buffer need no variables:     *)
(* a buffer is only read into when it is empty, and then both are 0.       *)
(***************************************************************************)
EXTENDS Integers, Sequences, FiniteSets, FiniteSetsExt

CONSTANTS
  NumReaders,          \* the readers that are merged
  Key,                 \* the keys of the rows, integers
  MaxInput, MaxRows,   \* bounds: rows of one reader, and of all together
  BatchSizes,          \* what len(rows) of a call of ReadRows may be
  minRowBufferSize,    \* 24 in the code
  maxRowBufferSize,    \* 192 in the code
  runDetectionStreak,  \* 3 in the code
  Retries,             \* after which failure the caller calls ReadRows again
  MaxFaults            \* bound: failures of readers in a behaviour

ASSUME MergeAssumption ==
  /\ NumReaders \in Nat \ {0, 1}
  /\ Key \subseteq Int
  /\ MaxInput \in Nat /\ MaxRows \in Nat /\ BatchSizes \subseteq Nat
  /\ minRowBufferSize \in Nat \ {0} /\ maxRowBufferSize \in Nat
  /\ minRowBufferSize <= maxRowBufferSize
  /\ runDetectionStreak \in Nat
  /\ Retries \subseteq {"initialize", "refill"} /\ MaxFaults \in Nat

Readers == 0 .. NumReaders - 1

VARIABLES
  input,   \* input[i]: keys of the rows of reader i
  taken,   \* taken[i]: rows read from reader i
  used,    \* used[i]: rows of reader i that were emitted
  len,     \* len[i]: len(buf) of the buffer, 0 for nil
  full,    \* full[i]: the last read filled the buffer
  want,    \* len(rows) of the call in progress
  n,       \* rows emitted by it
  out,     \* all rows emitted so far
  pc,      \* where the call is
  faults   \* failures so far

bufferVars == <<input, taken, used, len, full>>
callVars == <<want, n, out, pc, faults>>

SortedKeys(s) == \A i, j \in 1 .. Len(s) : i <= j => s[i] <= s[j]
SortedInput == {s \in UNION {[1 .. m -> Key] : m \in 0 .. MaxInput} : SortedKeys(s)}
InputWithinMaxRows == MapThenSumSet(LAMBDA i : Len(input[i]), Readers) <= MaxRows

BuffersInit ==
  /\ input \in [Readers -> SortedInput]
  /\ InputWithinMaxRows
  /\ taken = [i \in Readers |-> 0] /\ used = [i \in Readers |-> 0]
  /\ len = [i \in Readers |-> 0] /\ full = [i \in Readers |-> FALSE]
  /\ want = 0 /\ n = 0 /\ out = << >> /\ pc = "idle" /\ faults = 0

-----------------------------------------------------------------------------

Lesser(a, b) == IF a <= b THEN a ELSE b

empty(i) == used[i] = taken[i]

\* The key of the head of buffer i when u says what was emitted.
HeadKey(i, u) == input[i][u[i] + 1]

WindowLen(i) == taken[i] - used[i]

\* len(buf) at the next read: a buffer that was filled doubles.
BufferLen(i) ==
  IF len[i] = 0 THEN minRowBufferSize
  ELSE IF full[i] /\ len[i] < maxRowBufferSize THEN Lesser(2 * len[i], maxRowBufferSize)
  ELSE len[i]

Exhausted(i) == taken[i] = Len(input[i])

\* read() returns rows: any number the reader likes to hand out.
Fill(i) ==
  \E m \in 1 .. Lesser(BufferLen(i), Len(input[i]) - taken[i]) :
    /\ taken' = [taken EXCEPT ![i] = @ + m]
    /\ len' = [len EXCEPT ![i] = BufferLen(i)]
    /\ full' = [full EXCEPT ![i] = m = BufferLen(i)]
    /\ UNCHANGED <<input, used>>

\* read() returns io.EOF.
FillEOF(i) ==
  /\ Exhausted(i)
  /\ len' = [len EXCEPT ![i] = BufferLen(i)]
  /\ UNCHANGED <<input, taken, used, full>>

\* read() fails, in initialize or when a buffer is refilled, and ReadRows returns
\* the error; the caller tries again or gives up.
FillFails(point, i) ==
  /\ faults < MaxFaults
  /\ faults' = faults + 1
  /\ len' = [len EXCEPT ![i] = BufferLen(i)]
  /\ pc' = IF point \in Retries THEN "idle" ELSE "failed"
  /\ UNCHANGED <<input, taken, used, full, want, n, out>>

\* m consecutive rows of reader i from its head on.
RunOf(i, m) == [j \in 1 .. m |-> <<i, used[i] + j>>]

\* The rows of a batch are appended to the caller's slice; u is what is used
\* afterwards.
Emit(batch, u) ==
  /\ out' = out \o batch
  /\ n' = n + Len(batch)
  /\ used' = u
  /\ UNCHANGED <<input, taken, len, full, want, faults>>

Advance(i, m) == [used EXCEPT ![i] = @ + m]

\* The number of rows of reader i after the first `skip` of its window, at most
\* `most` of them, that compare with the key `bound` as at most max (max = -1:
\* smaller, max = 0: not larger): what runLength returns (module RunLength).
IsRun(run, i, skip, most, bound, max) ==
  LET inRun(j) == IF max = 0 THEN input[i][used[i] + skip + j] <= bound
                             ELSE input[i][used[i] + skip + j] < bound
      size == Lesser(WindowLen(i) - skip, most)
  IN  /\ run \in 0 .. size
      /\ \A j \in 1 .. run : inRun(j)
      /\ run < size => ~inRun(run + 1)

-----------------------------------------------------------------------------
\* A call of ReadRows makes progress: unless the caller gave it no room, it
\* returns rows, reports the end or fails.  CopyRows and the deduplicating
\* reader call again after (0, nil) and would spin.
ReadRowsProgress ==
  [][(pc # "idle" /\ pc' = "idle" /\ faults' = faults)
        => (n' > 0 \/ want = 0)]_<<bufferVars, callVars>>

\* No buffer is read into once the call has emitted rows: their values may
\* refer to memory that the read reuses (the comment in advance, "it is unsafe
\* to do so here because we haven't returned the current rows to the caller").
NoRefillAfterEmit == [][taken' # taken => n = 0]_<<bufferVars, callVars>>
=============================================================================
