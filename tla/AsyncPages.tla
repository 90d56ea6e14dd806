----------------------------- MODULE AsyncPages -----------------------------
(***************************************************************************)
(* Pages read ahead by a goroutine (asyncPages and readPages in page.go).   *)
(*                                                                         *)
(* The caller sends seeks through a channel of capacity one and receives    *)
(* pages through an unbuffered channel; a version number tells it which     *)
(* pages were read before its last seek.  The wrapped reader is anything    *)
(* that keeps the promise of SeekablePages: it is represented by its        *)
(* position, and returns some of the rows from there.                       *)
(***************************************************************************)
EXTENDS Integers, Sequences

CONSTANTS AsyncRows,      \* numbers of rows of the column chunk
          MaxPageRows,    \* rows of a page
          MaxAsyncCalls,  \* bound on the calls of a behaviour
          MaxFatal        \* how often the wrapped reader fails for good

ASSUME AsyncAssumption == /\ AsyncRows \subseteq Nat
                          /\ MaxPageRows \in Nat \ {0}
                          /\ MaxAsyncCalls \in Nat /\ MaxFatal \in Nat

VARIABLES rows,           \* rows of the wrapped reader
          inner,          \* its position
          c,              \* asyncPages: the caller's side
          g,              \* readPages: the goroutine
          out,            \* what the last call of the caller has returned
          owned           \* pages read, released, and handed to the caller

asyncVars == <<rows, inner, c, g, out, owned>>

NoSeek == -1
Nothing == [kind |-> "nothing"]

\* The row the caller is about to read.
AsyncPosition ==
    IF c.done THEN 0
    ELSE IF c.seek # <<>> THEN c.seek[1].rowIndex
    ELSE IF g.pc = "offer" /\ g.page.kind = "page" THEN g.page.first
    ELSE IF g.seekTo.rowIndex # NoSeek THEN g.seekTo.rowIndex
    ELSE inner

A == INSTANCE SeekablePages WITH numRows <- rows, position <- AsyncPosition,
                                 result <- out

AsyncInitOn(counts) ==
    /\ rows \in counts
    /\ inner = 0
    /\ c = [pc |-> "idle", version |-> 0, seek |-> <<>>, init |-> FALSE,
            done |-> FALSE, calls |-> 0]
    /\ g = [pc |-> "wait", seekTo |-> [rowIndex |-> NoSeek, version |-> 0],
            page |-> Nothing, fatal |-> FALSE]
    /\ out = A!Sought(0)
    /\ owned = [read |-> 0, released |-> 0, given |-> 0]

AsyncInit == AsyncInitOn(AsyncRows)

IsPage(p) == p.kind = "page"
\* Mutant: a page that is passed over is forgotten.
Forget(p) == owned

Release(p) == IF IsPage(p) THEN [owned EXCEPT !.released = @ + 1] ELSE owned

-----------------------------------------------------------------------------
\* The caller
AsyncReadPage ==
    /\ c.pc = "idle" /\ c.calls < MaxAsyncCalls
    /\ c' = [c EXCEPT !.pc = "reading", !.init = TRUE, !.calls = @ + 1]
    /\ UNCHANGED <<rows, inner, g, out, owned>>

\* Mutant: a seek does not start a new version.
AsyncSeekSameVersion ==
    /\ c.pc = "idle" /\ c.calls < MaxAsyncCalls
    /\ \E row \in 0..(rows + 1) :
          /\ c' = [c EXCEPT !.init = TRUE, !.calls = @ + 1,
                            !.seek = <<[rowIndex |-> row, version |-> c.version]>>]
          /\ out' = A!Sought(row)
    /\ UNCHANGED <<rows, inner, g, owned>>

\* The channel is drained and filled again.  The goroutine may act in between,
\* but only by not finding a seek, as it might have done before the call.
AsyncSeekToRow ==
    /\ c.pc = "idle" /\ c.calls < MaxAsyncCalls
    /\ \E row \in 0..(rows + 1) :
          LET version == IF c.seek = <<>> THEN c.version + 1 ELSE c.version IN
          /\ c' = [c EXCEPT !.version = version, !.init = TRUE, !.calls = @ + 1,
                            !.seek = <<[rowIndex |-> row, version |-> version]>>]
          /\ out' = A!Sought(row)
    /\ UNCHANGED <<rows, inner, g, owned>>

AsyncClose ==
    /\ c.pc = "idle"
    /\ c' = [c EXCEPT !.pc = "closing", !.init = TRUE, !.done = TRUE]
    /\ out' = A!Closed
    /\ UNCHANGED <<rows, inner, g, owned>>

\* A page passes from the goroutine to the caller: the caller returns it if it
\* is of its version, and drops it otherwise; Close drops everything.
Receive ==
    /\ g.pc = "offer"
    /\ UNCHANGED <<rows, inner>>
    /\ g' = [g EXCEPT !.pc = "work", !.page = Nothing]
    /\ \/ /\ c.pc = "reading" /\ g.seekTo.version = c.version
          /\ c' = [c EXCEPT !.pc = "idle"]
          /\ out' = g.page
          /\ owned' = IF IsPage(g.page) THEN [owned EXCEPT !.given = @ + 1] ELSE owned
       \/ /\ c.pc = "reading" /\ g.seekTo.version # c.version
          /\ owned' = Release(g.page)
          /\ UNCHANGED <<c, out>>
       \/ /\ c.pc = "closing"
          /\ owned' = Release(g.page)
          /\ UNCHANGED <<c, out>>

\* The goroutine's last message, of version -1, after which it closes the channel.
ReceiveLast ==
    /\ g.pc = "exit" /\ c.pc = "closing"
    /\ g' = [g EXCEPT !.pc = "gone"]
    /\ UNCHANGED <<rows, inner, c, out, owned>>

CloseReturns ==
    /\ c.pc = "closing" /\ g.pc = "gone"
    /\ c' = [c EXCEPT !.pc = "closed", !.seek = <<>>]
    /\ UNCHANGED <<rows, inner, g, out, owned>>

-----------------------------------------------------------------------------
\* The goroutine
Start ==
    /\ g.pc = "wait"
    /\ \/ c.init /\ g' = [g EXCEPT !.pc = "first"]
       \/ c.done /\ g' = [g EXCEPT !.pc = "exit"]
    /\ UNCHANGED <<rows, inner, c, out, owned>>

First ==
    /\ g.pc = "first"
    /\ \/ /\ c.seek # <<>>
          /\ g' = [g EXCEPT !.pc = "work", !.seekTo = c.seek[1]]
          /\ c' = [c EXCEPT !.seek = <<>>]
       \/ /\ c.seek = <<>>
          /\ g' = [g EXCEPT !.pc = "work"]
          /\ UNCHANGED c
    /\ UNCHANGED <<rows, inner, out, owned>>

\* The wrapped reader is sought, or read, unless it has failed for good.
Work ==
    /\ g.pc = "work"
    /\ UNCHANGED <<rows, c, out>>
    /\ \/ /\ g.fatal
          /\ g' = [g EXCEPT !.pc = "offer", !.page = A!Failed]
          /\ UNCHANGED <<inner, owned>>
       \/ /\ ~g.fatal /\ g.seekTo.rowIndex # NoSeek
          /\ \/ /\ rows > 0 \/ g.seekTo.rowIndex = 0
                /\ inner' = g.seekTo.rowIndex
                /\ g' = [g EXCEPT !.seekTo.rowIndex = NoSeek]
             \/ /\ rows = 0 /\ g.seekTo.rowIndex > 0       \* ErrSeekOutOfRange
                /\ g' = [g EXCEPT !.pc = "offer", !.page = A!Failed]
                /\ UNCHANGED inner
          /\ UNCHANGED owned
       \/ /\ ~g.fatal /\ g.seekTo.rowIndex = NoSeek /\ inner < rows
          /\ \E n \in 1..MaxPageRows :
                /\ inner + n <= rows
                /\ g' = [g EXCEPT !.pc = "offer", !.page = A!Page(inner, n, FALSE)]
                /\ inner' = inner + n
          /\ owned' = [owned EXCEPT !.read = @ + 1]
       \/ /\ ~g.fatal /\ g.seekTo.rowIndex = NoSeek /\ inner >= rows
          /\ g' = [g EXCEPT !.pc = "offer", !.page = A!EOF]
          /\ UNCHANGED <<inner, owned>>

WorkFails ==
    /\ g.pc = "work" /\ ~g.fatal /\ MaxFatal > 0
    /\ g' = [g EXCEPT !.pc = "offer", !.page = A!Failed, !.fatal = TRUE]
    /\ UNCHANGED <<rows, inner, c, out, owned>>

\* Instead of passing the page on, the goroutine takes a seek or stops.
TakeSeek ==
    /\ g.pc = "offer" /\ c.seek # <<>>
    /\ g' = [g EXCEPT !.pc = "work", !.page = Nothing, !.seekTo = c.seek[1]]
    /\ c' = [c EXCEPT !.seek = <<>>]
    /\ owned' = Release(g.page)
    /\ UNCHANGED <<rows, inner, out>>

\* Mutant: the goroutine looks at done only while it has a page to pass on.
StopWithPage ==
    /\ g.pc = "offer" /\ c.done /\ IsPage(g.page)
    /\ g' = [g EXCEPT !.pc = "exit", !.page = Nothing]
    /\ owned' = Release(g.page)
    /\ UNCHANGED <<rows, inner, c, out>>

Stop ==
    /\ g.pc = "offer" /\ c.done
    /\ g' = [g EXCEPT !.pc = "exit", !.page = Nothing]
    /\ owned' = Release(g.page)
    /\ UNCHANGED <<rows, inner, c, out>>

Goroutine == Start \/ First \/ Work \/ WorkFails \/ TakeSeek \/ Stop
AsyncNext == \/ AsyncReadPage \/ AsyncSeekToRow \/ AsyncClose
             \/ Receive \/ ReceiveLast \/ CloseReturns \/ Goroutine

\* The goroutine runs, and a receiver that waits is served.  A select chooses at
\* random among the ready cases: none is passed over for ever.
AsyncFairness == /\ WF_asyncVars(Start) /\ WF_asyncVars(First) /\ WF_asyncVars(Work)
                 /\ SF_asyncVars(TakeSeek) /\ SF_asyncVars(Stop)
                 /\ WF_asyncVars(Receive) /\ WF_asyncVars(ReceiveLast)
                 /\ WF_asyncVars(CloseReturns)

AsyncSpec == AsyncInit /\ [][AsyncNext]_asyncVars /\ AsyncFairness

-----------------------------------------------------------------------------
(* The caller of asyncPages sees the rows from its last seek on, although    *)
(* the goroutine has read ahead from where it was before.                    *)
AsyncPagesSeek == A!Spec

(* Every page the goroutine has read is released or given to the caller,     *)
(* once: none is lost when a seek or Close overtakes it.                     *)
PagesReleased ==
    owned.read = owned.released + owned.given + (IF IsPage(g.page) THEN 1 ELSE 0)

(* ReadPage and Close return, whatever the goroutine is doing when they are  *)
(* called.                                                                   *)
AsyncCallsReturn == /\ c.pc = "reading" ~> c.pc = "idle"
                    /\ c.pc = "closing" ~> c.pc = "closed"
==============================================================================
