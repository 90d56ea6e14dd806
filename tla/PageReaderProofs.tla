-------------------------- MODULE PageReaderProofs --------------------------
(***************************************************************************)
(* The readers of pages keep the promise of SeekablePages.                 *)
(*   Pages read ahead by a goroutine: no page is lost, and the caller sees   *)
(* what a reader with SeekToRow promises, for every number of rows, every   *)
(* page size and every interleaving of the two.                            *)
(*   Pages of several row groups: reading and seeking go on as in one list   *)
(* of rows, whatever the row groups and their nesting.                     *)
(*   Pages of a column chunk of a file: a seek by scanning, by index or      *)
(* into the last page comes to the same row, and no page is read with the  *)
(* ordinal of another.                                                     *)
(*   Rows assembled from columns: every row is whole, and reading goes on   *)
(* from the row sought, however pages and buffers cut the columns.          *)
(***************************************************************************)
EXTENDS AsyncPages, MultiPages, FilePages, RowGroupRows, Integers, FiniteSets,
        FiniteSetTheorems, SequenceTheorems, WellFoundedInduction, TLAPS

(***************************************************************************)
(* The inductive invariant.                                                *)
(***************************************************************************)
SeekMessage == [rowIndex : Nat, version : Nat]
Message == {Nothing, A!EOF, A!Failed}
             \cup [kind : {"page"}, first : Nat, rows : Nat, continues : BOOLEAN]
Caller == [pc : {"idle", "reading", "closing", "closed"}, version : Nat,
           seek : Seq(SeekMessage), init : BOOLEAN, done : BOOLEAN, calls : Nat]
SeekTo == [rowIndex : Nat \cup {NoSeek}, version : Nat]
ReadAhead == [pc : {"wait", "first", "work", "offer", "exit", "gone"},
              seekTo : SeekTo, page : Message, fatal : BOOLEAN]
Counts == [read : Nat, released : Nat, given : Nat]

AsyncTypeOK ==
    /\ rows \in Nat /\ inner \in Nat
    /\ c \in Caller /\ Len(c.seek) <= 1
    /\ g \in ReadAhead
    /\ owned \in Counts

\* The goroutine holds a message exactly while it offers one.
OffersOnePage == g.pc = "offer" <=> g.page # Nothing

\* A page on offer begins where the caller will be, and the wrapped reader is
\* right behind it; an end on offer was met at the end.
OfferIsNext ==
    /\ IsPage(g.page) => /\ g.seekTo.rowIndex = NoSeek
                         /\ g.page.rows > 0 /\ g.page.continues = FALSE
                         /\ inner = g.page.first + g.page.rows
                         /\ inner <= rows
    /\ g.page = A!EOF => g.seekTo.rowIndex = NoSeek /\ inner >= rows

\* The goroutine has the caller's version unless a seek is in the channel.
VersionsAgree ==
    /\ c.done <=> c.pc \in {"closing", "closed"}
    /\ c.seek = <<>> /\ ~c.done => g.seekTo.version = c.version
    /\ c.seek # <<>> => /\ c.seek[1].version = c.version
                        /\ g.seekTo.version < c.version

AsyncInv == AsyncTypeOK /\ OffersOnePage /\ OfferIsNext /\ VersionsAgree

-----------------------------------------------------------------------------
(* The invariant holds initially and every step keeps it. *)

\* The four kinds of message are different.
LEMMA KindsDiffer ==
  /\ Nothing # A!EOF /\ Nothing # A!Failed /\ A!EOF # A!Failed
  /\ ~IsPage(Nothing) /\ ~IsPage(A!EOF) /\ ~IsPage(A!Failed)
  /\ \A first, n \in Nat :
       /\ IsPage(A!Page(first, n, FALSE)) /\ A!Page(first, n, FALSE) # A!EOF
       /\ A!Page(first, n, FALSE) # Nothing
       /\ A!Page(first, n, FALSE) \in [kind : {"page"}, first : Nat, rows : Nat, continues : BOOLEAN]
  BY DEF Nothing, A!EOF, A!Failed, A!Page, IsPage

\* The types of the parts.
LEMMA PartsType ==
  ASSUME AsyncTypeOK
  PROVE  /\ c.version \in Nat /\ c.calls \in Nat /\ c.done \in BOOLEAN /\ c.seek \in Seq(SeekMessage)
         /\ c.seek # <<>> => c.seek[1] \in SeekMessage /\ c.seek[1].version \in Nat
                             /\ c.seek[1].rowIndex \in Nat
         /\ g.seekTo \in SeekTo /\ g.seekTo.version \in Nat /\ g.seekTo.rowIndex \in Nat \cup {NoSeek}
         /\ g.page \in Message
         /\ IsPage(g.page) => g.page.first \in Nat /\ g.page.rows \in Nat
         /\ owned.read \in Nat /\ owned.released \in Nat /\ owned.given \in Nat
  <1>1. c.seek \in Seq(SeekMessage)
    BY DEF AsyncTypeOK, Caller
  <1>2. c.seek # <<>> => c.seek[1] \in SeekMessage
    BY <1>1
  <1>3. g.page \in Message
    BY DEF AsyncTypeOK, ReadAhead
  <1>4. IsPage(g.page) => g.page.first \in Nat /\ g.page.rows \in Nat
    BY <1>3, KindsDiffer DEF Message
  <1> QED BY <1>1, <1>2, <1>3, <1>4
          DEF AsyncTypeOK, Caller, SeekMessage, ReadAhead, SeekTo, Counts

\* A reader that was just opened.
LEMMA AsyncInvInit == AsyncInit => AsyncInv /\ PagesReleased
  <1> SUFFICES ASSUME AsyncInit PROVE AsyncInv /\ PagesReleased
    OBVIOUS
  <1>1. <<>> \in Seq(SeekMessage) /\ Len(<<>>) = 0
    OBVIOUS
  <1>2. c \in Caller
    BY <1>1 DEF AsyncInit, AsyncInitOn, Caller
  <1>3. g \in ReadAhead
    BY DEF AsyncInit, AsyncInitOn, ReadAhead, SeekTo, Message
  <1>4. AsyncTypeOK
    BY <1>1, <1>2, <1>3, AsyncAssumption DEF AsyncInit, AsyncInitOn, AsyncTypeOK, Counts
  <1> QED BY <1>4, KindsDiffer DEF AsyncInit, AsyncInitOn, AsyncInv, OffersOnePage, OfferIsNext,
                                   VersionsAgree, PagesReleased

\* The caller calls: ReadPage, SeekToRow or Close.
LEMMA CallerStep ==
  ASSUME AsyncInv, AsyncReadPage \/ AsyncSeekToRow \/ AsyncClose
  PROVE  AsyncInv'
  <1> USE DEF AsyncInv
  <1>1. CASE AsyncReadPage
    <2> DEFINE made == c.calls + 1
    <2>0. made \in Nat
      BY DEF AsyncTypeOK, Caller
    <2>1. c' \in Caller /\ c'.seek = c.seek /\ c'.version = c.version /\ c'.done = c.done
             /\ c'.pc = "reading" /\ c.pc = "idle"
      <3>1. c' = [c EXCEPT !.pc = "reading", !.init = TRUE, !.calls = made] /\ c.pc = "idle"
        BY <1>1 DEF AsyncReadPage
      <3> HIDE DEF made
      <3> QED BY <2>0, <3>1 DEF AsyncTypeOK, Caller
    <2> QED BY <1>1, <2>1 DEF AsyncReadPage, AsyncTypeOK, OffersOnePage, OfferIsNext, VersionsAgree
  <1>2. CASE AsyncSeekToRow
    <2> DEFINE version == IF c.seek = <<>> THEN c.version + 1 ELSE c.version
               made == c.calls + 1
    <2>1. PICK row \in 0..(rows + 1) :
            c' = [c EXCEPT !.version = version, !.init = TRUE, !.calls = made,
                           !.seek = <<[rowIndex |-> row, version |-> version]>>]
      BY <1>2 DEF AsyncSeekToRow
    <2>2. UNCHANGED <<rows, inner, g, owned>> /\ c.pc = "idle"
      BY <1>2 DEF AsyncSeekToRow
    <2>3. version \in Nat /\ made \in Nat
      BY DEF AsyncTypeOK, Caller
    <2> DEFINE message == [rowIndex |-> row, version |-> version]
    <2>4. message \in SeekMessage /\ message.version = version
      BY <2>3 DEF AsyncTypeOK, SeekMessage
    <2>5. <<message>> \in Seq(SeekMessage) /\ Len(<<message>>) = 1 /\ <<message>>[1] = message
      BY <2>4
    <2>6. c' \in Caller /\ c'.seek = <<message>> /\ c'.version = version
             /\ c'.done = c.done /\ c'.pc = c.pc
      <3> DEFINE seek == <<message>>
      <3>1. c' = [c EXCEPT !.version = version, !.init = TRUE, !.calls = made, !.seek = seek]
        BY <2>1
      <3>2. seek \in Seq(SeekMessage)
        BY <2>5
      <3> HIDE DEF seek, version, made
      <3>3. c' \in Caller /\ c'.seek = seek /\ c'.version = version
               /\ c'.done = c.done /\ c'.pc = c.pc
        BY <2>3, <3>1, <3>2 DEF AsyncTypeOK, Caller
      <3> QED BY <3>3 DEF seek
    <2>7. g.seekTo.version < version
      BY <2>2, PartsType DEF VersionsAgree
    <2> HIDE DEF message, version
    <2>8. AsyncTypeOK'
      BY <2>2, <2>5, <2>6 DEF AsyncTypeOK
    <2>9. OffersOnePage' /\ OfferIsNext'
      BY <2>2 DEF OffersOnePage, OfferIsNext
    <2>10. c'.seek # <<>> /\ c'.seek[1].version = c'.version
      BY <2>4, <2>5, <2>6
    <2>11. VersionsAgree'
      BY <2>2, <2>6, <2>7, <2>10 DEF VersionsAgree
    <2> QED BY <2>8, <2>9, <2>11
  <1>3. CASE AsyncClose
    BY <1>3 DEF AsyncClose, AsyncTypeOK, Caller, OffersOnePage, OfferIsNext, VersionsAgree
  <1> QED BY <1>1, <1>2, <1>3

\* What releasing a page, and handing one to the caller, count.
LEMMA CountsType ==
  ASSUME owned \in Counts, NEW p
  PROVE  /\ Release(p) \in Counts
         /\ Release(p).read = owned.read /\ Release(p).given = owned.given
         /\ Release(p).released = owned.released + (IF IsPage(p) THEN 1 ELSE 0)
         /\ [owned EXCEPT !.given = @ + 1] \in Counts
         /\ [owned EXCEPT !.given = @ + 1].read = owned.read
         /\ [owned EXCEPT !.given = @ + 1].released = owned.released
         /\ [owned EXCEPT !.given = @ + 1].given = owned.given + 1
         /\ [owned EXCEPT !.read = @ + 1] \in Counts
         /\ [owned EXCEPT !.read = @ + 1].read = owned.read + 1
         /\ [owned EXCEPT !.read = @ + 1].released = owned.released
         /\ [owned EXCEPT !.read = @ + 1].given = owned.given
  BY DEF Counts, Release

\* The goroutine goes on after its message was taken.
LEMMA MessageTakenType ==
  ASSUME g \in ReadAhead, NEW pc \in {"work", "exit"}, NEW seekTo \in SeekTo
  PROVE  LET h == [g EXCEPT !.pc = pc, !.page = Nothing, !.seekTo = seekTo]
         IN  /\ h \in ReadAhead /\ h.pc = pc /\ h.page = Nothing
             /\ h.seekTo = seekTo /\ h.fatal = g.fatal
  BY DEF ReadAhead, Message

\* A message passes from the goroutine to the caller, or Close returns.
LEMMA ReceiveStep ==
  ASSUME AsyncInv, PagesReleased, Receive \/ ReceiveLast \/ CloseReturns
  PROVE  AsyncInv' /\ PagesReleased'
  <1> USE DEF AsyncInv
  <1>1. CASE Receive
    <2>1. g' = [g EXCEPT !.pc = "work", !.page = Nothing] /\ UNCHANGED <<rows, inner>>
      BY <1>1 DEF Receive
    <2>2. g' \in ReadAhead /\ g'.pc = "work" /\ g'.page = Nothing /\ g'.seekTo = g.seekTo
      BY <2>1 DEF AsyncTypeOK, ReadAhead, Message
    <2>3. c' \in Caller /\ c'.seek = c.seek /\ c'.version = c.version /\ c'.done = c.done
             /\ (c'.pc = c.pc \/ (c.pc = "reading" /\ c'.pc = "idle"))
      BY <1>1 DEF Receive, AsyncTypeOK, Caller
    <2>4. owned' \in Counts
          /\ owned'.read = owned'.released + owned'.given
      <3>1. CASE owned' = Release(g.page)
        BY <3>1, CountsType, PartsType DEF AsyncTypeOK, PagesReleased
      <3>2. CASE IsPage(g.page) /\ owned' = [owned EXCEPT !.given = @ + 1]
        <4> DEFINE d == [owned EXCEPT !.given = @ + 1]
        <4>1. /\ d \in Counts /\ d.read = owned.read
              /\ d.released = owned.released /\ d.given = owned.given + 1
          BY CountsType DEF AsyncTypeOK
        <4> HIDE DEF d
        <4>2. owned' = d
          BY <3>2 DEF d
        <4> QED BY <3>2, <4>1, <4>2, PartsType DEF PagesReleased
      <3>3. CASE ~IsPage(g.page) /\ owned' = owned
        BY <3>3, PartsType DEF AsyncTypeOK, PagesReleased
      <3> QED BY <1>1, <3>1, <3>2, <3>3 DEF Receive
    <2>5. AsyncTypeOK'
      BY <2>1, <2>2, <2>3, <2>4 DEF AsyncTypeOK
    <2>6. OffersOnePage' /\ OfferIsNext' /\ PagesReleased'
      BY <2>2, <2>4, KindsDiffer, PartsType, <2>5
         DEF OffersOnePage, OfferIsNext, PagesReleased, Counts
    <2>7. VersionsAgree'
      BY <2>2, <2>3 DEF VersionsAgree
    <2> QED BY <2>5, <2>6, <2>7
  <1>2. CASE ReceiveLast
    BY <1>2 DEF ReceiveLast, AsyncTypeOK, ReadAhead, OffersOnePage, OfferIsNext, VersionsAgree,
      PagesReleased
  <1>3. CASE CloseReturns
    <2>0. <<>> \in Seq(SeekMessage)
      OBVIOUS
    <2>1. c' \in Caller /\ c'.seek = <<>> /\ c'.done = c.done /\ c'.pc = "closed" /\ c.pc = "closing"
      BY <1>3, <2>0 DEF CloseReturns, AsyncTypeOK, Caller
    <2> QED BY <1>3, <2>1
            DEF CloseReturns, AsyncTypeOK, OffersOnePage, OfferIsNext, VersionsAgree, PagesReleased
  <1> QED BY <1>1, <1>2, <1>3

\* The goroutine starts, and looks for a first seek.
LEMMA StartStep ==
  ASSUME AsyncInv, PagesReleased, Start \/ First
  PROVE  AsyncInv' /\ PagesReleased'
  <1> USE DEF AsyncInv
  <1>1. CASE Start
    BY <1>1 DEF Start, AsyncTypeOK, ReadAhead, OffersOnePage, OfferIsNext, VersionsAgree,
      PagesReleased
  <1>2. CASE First /\ c.seek = <<>>
    BY <1>2 DEF First, AsyncTypeOK, ReadAhead, OffersOnePage, OfferIsNext, VersionsAgree,
      PagesReleased
  <1>3. CASE First /\ c.seek # <<>>
    <2> DEFINE seek == c.seek[1]
    <2>1. g' = [g EXCEPT !.pc = "work", !.seekTo = seek] /\ g.pc = "first"
            /\ c' = [c EXCEPT !.seek = <<>>] /\ UNCHANGED <<rows, inner, out, owned>>
      BY <1>3 DEF First
    <2>2. seek \in SeekMessage /\ seek \in SeekTo
      BY <1>3, PartsType DEF SeekMessage, SeekTo
    <2>3. g' \in ReadAhead /\ g'.pc = "work" /\ g'.page = g.page /\ g'.seekTo = seek
      <3> HIDE DEF seek
      <3> QED BY <2>1, <2>2 DEF AsyncTypeOK, ReadAhead
    <2>4. c' \in Caller /\ c'.seek = <<>> /\ c'.done = c.done /\ c'.pc = c.pc /\ c'.version = c.version
      <3>1. <<>> \in Seq(SeekMessage)
        OBVIOUS
      <3> QED BY <2>1, <3>1 DEF AsyncTypeOK, Caller
    <2>5. g.page = Nothing
      BY <2>1 DEF OffersOnePage
    <2>6. AsyncTypeOK'
      BY <2>1, <2>3, <2>4 DEF AsyncTypeOK
    <2>7. OffersOnePage' /\ OfferIsNext' /\ PagesReleased'
      BY <2>1, <2>3, <2>5, KindsDiffer DEF OffersOnePage, OfferIsNext, PagesReleased
    <2>8. VersionsAgree'
      BY <1>3, <2>3, <2>4 DEF VersionsAgree
    <2> QED BY <2>6, <2>7, <2>8
  <1> QED BY <1>1, <1>2, <1>3 DEF First

\* The goroutine makes a message of its kind from the page it was given.
LEMMA OfferedType ==
  ASSUME g \in ReadAhead, NEW message \in Message
  PROVE  /\ [g EXCEPT !.pc = "offer", !.page = message] \in ReadAhead
         /\ [g EXCEPT !.pc = "offer", !.page = message].pc = "offer"
         /\ [g EXCEPT !.pc = "offer", !.page = message].page = message
         /\ [g EXCEPT !.pc = "offer", !.page = message].seekTo = g.seekTo
  BY DEF ReadAhead

\* Of the steps of the goroutine at work, those that end in a message which is
\* not a page.
LEMMA OfferNoPage ==
  ASSUME AsyncInv, PagesReleased, g.pc = "work", NEW message \in {A!EOF, A!Failed},
         message = A!EOF => g.seekTo.rowIndex = NoSeek /\ inner >= rows,
         g' \in ReadAhead, g'.pc = "offer", g'.page = message, g'.seekTo = g.seekTo,
         UNCHANGED <<rows, inner, c, owned>>
  PROVE  AsyncInv' /\ PagesReleased'
  <1> USE DEF AsyncInv
  <1>1. ~IsPage(message) /\ message # Nothing /\ g.page = Nothing
    BY KindsDiffer DEF OffersOnePage
  <1> QED BY <1>1, KindsDiffer
          DEF AsyncTypeOK, OffersOnePage, OfferIsNext, VersionsAgree, PagesReleased

\* The wrapped reader is sought or read, or fails.
LEMMA WorkStep ==
  ASSUME AsyncInv, PagesReleased, Work \/ WorkFails
  PROVE  AsyncInv' /\ PagesReleased'
  <1> USE DEF AsyncInv
  <1>0. /\ g.pc = "work" /\ g.page = Nothing /\ UNCHANGED <<rows, c>>
        /\ A!EOF \in Message /\ A!Failed \in Message
    BY DEF Work, WorkFails, OffersOnePage, Message
  <1>1. CASE g' = [g EXCEPT !.pc = "offer", !.page = A!Failed] /\ UNCHANGED <<inner, owned>>
    BY <1>0, <1>1, OfferedType, OfferNoPage, KindsDiffer DEF AsyncTypeOK
  <1>2. CASE WorkFails
    BY <1>0, <1>2, OfferNoPage, KindsDiffer DEF WorkFails, AsyncTypeOK, ReadAhead
  <1>3. CASE /\ g' = [g EXCEPT !.pc = "offer", !.page = A!EOF] /\ UNCHANGED <<inner, owned>>
             /\ g.seekTo.rowIndex = NoSeek /\ inner >= rows
    BY <1>0, <1>3, OfferedType, OfferNoPage, KindsDiffer DEF AsyncTypeOK
  <1>4. CASE /\ g.seekTo.rowIndex # NoSeek /\ inner' = g.seekTo.rowIndex
             /\ g' = [g EXCEPT !.seekTo.rowIndex = NoSeek] /\ UNCHANGED owned
    BY <1>0, <1>4, PartsType, KindsDiffer DEF AsyncTypeOK, ReadAhead, SeekTo, OffersOnePage,
      OfferIsNext, VersionsAgree, PagesReleased
  <1>5. ASSUME NEW n \in 1..MaxPageRows, inner + n <= rows, g.seekTo.rowIndex = NoSeek,
               g' = [g EXCEPT !.pc = "offer", !.page = A!Page(inner, n, FALSE)],
               inner' = inner + n, owned' = [owned EXCEPT !.read = @ + 1]
        PROVE  AsyncInv' /\ PagesReleased'
    <2> DEFINE page == A!Page(inner, n, FALSE)
               d == [owned EXCEPT !.read = @ + 1]
    <2>1. n \in Nat /\ n > 0 /\ inner \in Nat
      BY AsyncAssumption DEF AsyncTypeOK
    <2>2. /\ page.first = inner /\ page.rows = n /\ page.continues = FALSE
          /\ IsPage(page) /\ page # A!EOF /\ page # Nothing /\ page \in Message
      BY <2>1, KindsDiffer DEF A!Page, Message
    <2>3. g' \in ReadAhead /\ g'.pc = "offer" /\ g'.page = page /\ g'.seekTo = g.seekTo
      <3> HIDE DEF page
      <3> QED BY <1>5, <2>2, OfferedType DEF AsyncTypeOK, page
    <2>4. /\ d \in Counts /\ d.read = owned.read + 1
          /\ d.released = owned.released /\ d.given = owned.given
      BY CountsType DEF AsyncTypeOK
    <2>5. owned' = d
      BY <1>5
    <2> HIDE DEF page, d
    <2>6. AsyncTypeOK'
      BY <1>0, <1>5, <2>1, <2>3, <2>4, <2>5 DEF AsyncTypeOK
    <2>7. OffersOnePage' /\ OfferIsNext'
      BY <1>0, <1>5, <2>1, <2>2, <2>3 DEF OffersOnePage, OfferIsNext, AsyncTypeOK
    <2>8. PagesReleased'
      BY <1>0, <2>2, <2>3, <2>4, <2>5, KindsDiffer, PartsType DEF PagesReleased
    <2>9. VersionsAgree'
      BY <1>0, <2>3 DEF VersionsAgree
    <2> QED BY <2>6, <2>7, <2>8, <2>9
  <1> QED BY <1>1, <1>2, <1>3, <1>4, <1>5 DEF Work

\* Instead of passing the message on, the goroutine takes a seek or stops.
LEMMA TakeSeekStep ==
  ASSUME AsyncInv, PagesReleased, TakeSeek \/ Stop
  PROVE  AsyncInv' /\ PagesReleased'
  <1> USE DEF AsyncInv
  <1>1. owned' = Release(g.page) /\ UNCHANGED <<rows, inner>>
    BY DEF TakeSeek, Stop
  <1>2. owned' \in Counts /\ owned'.read = owned'.released + owned'.given
    BY <1>1, CountsType, PartsType DEF AsyncTypeOK, PagesReleased
  <1>3. CASE TakeSeek
    <2> DEFINE seek == c.seek[1]
    <2>1. /\ g' = [g EXCEPT !.pc = "work", !.page = Nothing, !.seekTo = seek]
          /\ c' = [c EXCEPT !.seek = <<>>] /\ c.seek # <<>>
      BY <1>3 DEF TakeSeek
    <2>2. seek \in SeekTo
      BY <2>1, PartsType DEF SeekMessage, SeekTo
    <2>3. g' \in ReadAhead /\ g'.pc = "work" /\ g'.page = Nothing /\ g'.seekTo = seek
      <3> HIDE DEF seek
      <3> QED BY <2>1, <2>2, MessageTakenType DEF AsyncTypeOK
    <2>4. c' \in Caller /\ c'.seek = <<>> /\ c'.done = c.done /\ c'.pc = c.pc /\ c'.version = c.version
      <3>1. <<>> \in Seq(SeekMessage)
        OBVIOUS
      <3> QED BY <2>1, <3>1 DEF AsyncTypeOK, Caller
    <2>5. AsyncTypeOK'
      BY <1>1, <1>2, <2>3, <2>4 DEF AsyncTypeOK
    <2>6. OffersOnePage' /\ OfferIsNext' /\ PagesReleased'
      BY <1>2, <2>3, <2>5, KindsDiffer DEF OffersOnePage, OfferIsNext, PagesReleased, AsyncTypeOK, Counts
    <2>7. VersionsAgree'
      BY <2>1, <2>3, <2>4 DEF VersionsAgree
    <2> QED BY <2>5, <2>6, <2>7
  <1>4. CASE Stop
    <2>1. g' \in ReadAhead /\ g'.pc = "exit" /\ g'.page = Nothing /\ g'.seekTo = g.seekTo /\ UNCHANGED c
      BY <1>4 DEF Stop, AsyncTypeOK, ReadAhead, Message
    <2>2. AsyncTypeOK'
      BY <1>1, <1>2, <2>1 DEF AsyncTypeOK
    <2> QED BY <1>2, <2>1, <2>2, KindsDiffer
            DEF OffersOnePage, OfferIsNext, VersionsAgree, PagesReleased, AsyncTypeOK, Counts
  <1> QED BY <1>3, <1>4

\* Every step keeps the invariant.
LEMMA AsyncInvStep == AsyncInv /\ PagesReleased /\ [AsyncNext]_asyncVars => AsyncInv' /\ PagesReleased'
  <1> SUFFICES ASSUME AsyncInv, PagesReleased, [AsyncNext]_asyncVars
               PROVE  AsyncInv' /\ PagesReleased'
    OBVIOUS
  <1>1. CASE AsyncReadPage \/ AsyncSeekToRow \/ AsyncClose
    BY <1>1, CallerStep DEF AsyncReadPage, AsyncSeekToRow, AsyncClose, PagesReleased
  <1>2. CASE UNCHANGED asyncVars
    BY <1>2 DEF asyncVars, AsyncInv, AsyncTypeOK, OffersOnePage, OfferIsNext, VersionsAgree, PagesReleased
  <1> QED BY <1>1, <1>2, ReceiveStep, StartStep, WorkStep, TakeSeekStep DEF AsyncNext, Goroutine

\* Every page the goroutine has read is released or given to the caller, once,
\* or is the one on offer: asyncPages loses none when a seek or Close overtakes
\* the goroutine.
THEOREM NoPageLost == AsyncSpec => []PagesReleased
  <1>1. AsyncInit => AsyncInv /\ PagesReleased
    BY AsyncInvInit
  <1>2. AsyncInv /\ PagesReleased /\ [AsyncNext]_asyncVars => (AsyncInv /\ PagesReleased)'
    BY AsyncInvStep
  <1> QED BY <1>1, <1>2, PTL DEF AsyncSpec

-----------------------------------------------------------------------------
(* The caller sees a reader with SeekToRow: every step of the two is a step   *)
(* of SeekablePages or leaves its variables alone.  The position is hidden:   *)
(* the last seek not yet taken, else the page on offer, else the seek the     *)
(* goroutine has taken, else where the wrapped reader is.                     *)

\* The position is a row, or one behind the last.
LEMMA PositionType == ASSUME AsyncInv PROVE AsyncPosition \in Nat
  BY PartsType DEF AsyncInv, AsyncTypeOK, AsyncPosition, IsPage

AbstractStep == [A!Next /\ UNCHANGED rows]_<<rows, AsyncPosition, out>>

\* The caller's calls: a seek moves the position, Close gives it up.
LEMMA CallerRefines ==
  ASSUME AsyncInv, AsyncInv', AsyncReadPage \/ AsyncSeekToRow \/ AsyncClose
  PROVE  AbstractStep
  <1>1. CASE AsyncReadPage
    BY <1>1 DEF AsyncReadPage, AsyncInv, AsyncTypeOK, Caller, AsyncPosition, AbstractStep
  <1>2. CASE AsyncSeekToRow
    <2> DEFINE version == IF c.seek = <<>> THEN c.version + 1 ELSE c.version
               made == c.calls + 1
    <2>1. PICK row \in 0..(rows + 1) :
            /\ c' = [c EXCEPT !.version = version, !.init = TRUE, !.calls = made,
                              !.seek = <<[rowIndex |-> row, version |-> version]>>]
            /\ out' = A!Sought(row)
      BY <1>2 DEF AsyncSeekToRow
    <2> DEFINE seek == <<[rowIndex |-> row, version |-> version]>>
    <2>2. row \in Nat
      BY DEF AsyncInv, AsyncTypeOK
    <2>3. seek # <<>> /\ seek[1].rowIndex = row
      OBVIOUS
    <2>4. c'.seek = seek /\ ~c'.done
      <3>1. ~c.done /\ UNCHANGED rows
        BY <1>2 DEF AsyncSeekToRow, AsyncInv, VersionsAgree
      <3>2. c' = [c EXCEPT !.version = version, !.init = TRUE, !.calls = made, !.seek = seek]
        BY <2>1
      <3> HIDE DEF seek, version, made
      <3> QED BY <3>1, <3>2 DEF AsyncInv, AsyncTypeOK, Caller
    <2>5. AsyncPosition' = row
      <3> HIDE DEF seek
      <3> QED BY <2>3, <2>4 DEF AsyncPosition
    <2>6. A!Seek
      BY <2>1, <2>2, <2>5 DEF A!Seek, A!Sought
    <2> QED BY <1>2, <2>6 DEF A!Next, AsyncSeekToRow, AbstractStep
  <1>3. CASE AsyncClose
    BY <1>3, PositionType DEF AsyncClose, A!Close, AsyncPosition, AsyncInv, AsyncTypeOK, Caller,
      A!Next, AbstractStep
  <1> QED BY <1>1, <1>2, <1>3

\* Once the reader is closed nothing of it can be seen.
LEMMA ClosedRefines ==
  ASSUME AsyncInv, c.done, c'.done, UNCHANGED <<rows, out>>
  PROVE  AbstractStep
  BY DEF AsyncPosition, AbstractStep

\* A message that the caller takes.  If the versions agree no seek is under
\* way, and the message is what a read at the position returns; otherwise a
\* seek hides it.
LEMMA ReceiveRefines ==
  ASSUME AsyncInv, AsyncInv', Receive \/ ReceiveLast \/ CloseReturns
  PROVE  AbstractStep
  <1> USE DEF AsyncInv
  <1>1. CASE Receive /\ c.pc = "reading" /\ g.seekTo.version = c.version /\ ~c.done
    <2>1. /\ c' = [c EXCEPT !.pc = "idle"] /\ out' = g.page
          /\ g' = [g EXCEPT !.pc = "work", !.page = Nothing]
          /\ UNCHANGED <<rows, inner>> /\ g.pc = "offer"
      BY <1>1 DEF Receive, VersionsAgree
    <2>2. c.seek = <<>>
      BY <1>1, PartsType DEF VersionsAgree
    <2>3. c'.seek = <<>> /\ c'.done = c.done /\ g'.pc = "work" /\ g'.seekTo = g.seekTo
      BY <2>1, <2>2 DEF AsyncTypeOK, Caller, ReadAhead
    <2>4. AsyncPosition' = IF g.seekTo.rowIndex # NoSeek THEN g.seekTo.rowIndex ELSE inner
      BY <1>1, <2>1, <2>3 DEF AsyncPosition
    <2>5. CASE IsPage(g.page)
      <3>1. /\ AsyncPosition = g.page.first /\ AsyncPosition' = g.page.first + g.page.rows
            /\ g.page.first + g.page.rows <= rows
        BY <1>1, <2>1, <2>2, <2>4, <2>5 DEF AsyncPosition, IsPage, OfferIsNext
      <3>2. g.page \in [kind : {"page"}, first : Nat, rows : Nat, continues : BOOLEAN]
        BY <2>5, PartsType, KindsDiffer DEF Message
      <3>3. g.page = A!Page(g.page.first, g.page.rows, FALSE)
        BY <2>5, <3>2 DEF A!Page, OfferIsNext
      <3>4. g.page.rows \in 0..rows /\ g.page.rows # 0
        BY <2>5, <3>1, <3>2, PartsType DEF OfferIsNext, AsyncTypeOK
      <3>5. A!Read
        BY <2>1, <3>1, <3>3, <3>4 DEF A!Read
      <3> QED BY <2>1, <3>5 DEF A!Next, AbstractStep
    <2>6. CASE g.page = A!EOF
      BY <1>1, <2>1, <2>2, <2>4, <2>6, KindsDiffer DEF AsyncPosition, IsPage, OfferIsNext,
        A!ReadEnd, A!Next, AbstractStep
    <2>7. CASE g.page = A!Failed
      BY <2>1, <2>7, PositionType DEF A!ReadFails, AsyncTypeOK, AsyncPosition, ReadAhead, SeekTo,
        A!Next, AbstractStep
    <2>8. g.page # Nothing
      BY <2>1 DEF OffersOnePage
    <2> QED BY <2>5, <2>6, <2>7, <2>8, PartsType DEF Message, IsPage
  <1>2. CASE Receive /\ c.pc = "reading" /\ g.seekTo.version # c.version /\ ~c.done
    <2>1. UNCHANGED <<rows, c, out>>
      BY <1>2 DEF Receive, VersionsAgree
    <2>2. c.seek # <<>>
      BY <1>2 DEF VersionsAgree
    <2>3. AsyncPosition' = AsyncPosition
      BY <1>2, <2>1, <2>2 DEF AsyncPosition
    <2> QED BY <2>1, <2>3 DEF AbstractStep
  <1>3. CASE Receive /\ c.pc = "closing"
    BY <1>3, ClosedRefines DEF Receive, VersionsAgree
  <1>4. CASE ReceiveLast
    BY <1>4, ClosedRefines DEF ReceiveLast, VersionsAgree
  <1>5. CASE CloseReturns
    BY <1>5, ClosedRefines DEF CloseReturns, AsyncTypeOK, Caller, VersionsAgree
  <1>6. c.pc = "reading" => ~c.done
    BY DEF VersionsAgree
  <1> QED BY <1>1, <1>2, <1>3, <1>4, <1>5, <1>6 DEF Receive

\* What the goroutine does by itself cannot be seen: it reads on from the
\* position, or takes the seek that is the position.
LEMMA GoroutineRefines ==
  ASSUME AsyncInv, AsyncInv', Goroutine
  PROVE  AbstractStep
  <1> USE DEF AsyncInv
  <1>0. UNCHANGED <<rows, out>> /\ c'.done = c.done
    BY DEF Goroutine, Start, First, Work, WorkFails, TakeSeek, Stop, AsyncTypeOK, Caller
  <1>1. SUFFICES ASSUME ~c.done PROVE AsyncPosition' = AsyncPosition
    BY <1>0, ClosedRefines DEF AbstractStep
  <1>2. CASE Start \/ (First /\ c.seek = <<>>)
    BY <1>2 DEF Start, First, AsyncTypeOK, ReadAhead, AsyncPosition
  <1>3. CASE (First /\ c.seek # <<>>) \/ TakeSeek
    <2> DEFINE seek == c.seek[1]
    <2>1. /\ \/ g' = [g EXCEPT !.pc = "work", !.seekTo = seek]
             \/ g' = [g EXCEPT !.pc = "work", !.page = Nothing, !.seekTo = seek]
          /\ c' = [c EXCEPT !.seek = <<>>] /\ c.seek # <<>>
      BY <1>3 DEF First, TakeSeek
    <2>2. g'.pc = "work" /\ g'.seekTo = seek
      <3> HIDE DEF seek
      <3> QED BY <2>1 DEF AsyncTypeOK, ReadAhead
    <2>3. c'.seek = <<>>
      BY <2>1 DEF AsyncTypeOK, Caller
    <2>4. seek.rowIndex \in Nat /\ seek.rowIndex # NoSeek
      BY <2>1, PartsType DEF NoSeek
    <2> QED BY <1>0, <1>1, <2>1, <2>2, <2>3, <2>4 DEF AsyncPosition
  <1>4. CASE Work \/ WorkFails
    <2>0. g.pc = "work" /\ UNCHANGED c
      BY <1>4 DEF Work, WorkFails
    <2>1. CASE /\ g'.pc = "offer" /\ g'.page \in {A!EOF, A!Failed}
               /\ g'.seekTo = g.seekTo /\ inner' = inner
      BY <2>0, <2>1, KindsDiffer DEF AsyncPosition, IsPage
    <2>2. CASE /\ g.seekTo.rowIndex # NoSeek /\ inner' = g.seekTo.rowIndex
               /\ g' = [g EXCEPT !.seekTo.rowIndex = NoSeek]
      BY <2>0, <2>2 DEF AsyncTypeOK, ReadAhead, SeekTo, AsyncPosition
    <2>3. ASSUME NEW n \in Nat, g.seekTo.rowIndex = NoSeek,
                 g' = [g EXCEPT !.pc = "offer", !.page = A!Page(inner, n, FALSE)]
          PROVE  AsyncPosition' = AsyncPosition
      <3> DEFINE page == A!Page(inner, n, FALSE)
      <3>1. page.kind = "page" /\ page.first = inner
        BY DEF A!Page
      <3>2. g'.pc = "offer" /\ g'.page = page
        <4> HIDE DEF page
        <4> QED BY <2>3 DEF AsyncTypeOK, ReadAhead, page
      <3> QED BY <2>0, <2>3, <3>1, <3>2 DEF AsyncPosition
    <2>4. CASE /\ g' = [g EXCEPT !.pc = "offer", !.page = A!Failed] /\ inner' = inner
      BY <2>1, <2>4 DEF AsyncTypeOK, ReadAhead
    <2>5. CASE /\ g' = [g EXCEPT !.pc = "offer", !.page = A!EOF] /\ inner' = inner
      BY <2>1, <2>5 DEF AsyncTypeOK, ReadAhead
    <2>6. CASE WorkFails
      BY <2>1, <2>6 DEF WorkFails, AsyncTypeOK, ReadAhead
    <2>7. \A n \in 1..MaxPageRows : n \in Nat
      BY AsyncAssumption
    <2> QED BY <1>4, <2>2, <2>3, <2>4, <2>5, <2>6, <2>7 DEF Work
  <1>5. CASE Stop
    BY <1>1, <1>5 DEF Stop
  <1> QED BY <1>2, <1>3, <1>4, <1>5 DEF Goroutine, First

\* asyncPages keeps the promise of a reader with SeekToRow: the caller sees the
\* rows from its last seek on, none left out, whatever the goroutine had read
\* ahead before it noticed the seek.
THEOREM AsyncPagesImplementSeek == AsyncSpec => AsyncPagesSeek
  <1>1. AsyncInit => A!Init
    BY AsyncAssumption DEF AsyncInit, AsyncInitOn, A!Init, AsyncPosition, NoSeek
  <1>2. AsyncInit => AsyncInv /\ PagesReleased
    BY AsyncInvInit
  <1>3. AsyncInv /\ PagesReleased /\ [AsyncNext]_asyncVars => (AsyncInv /\ PagesReleased)'
    BY AsyncInvStep
  <1>4. AsyncInv /\ AsyncInv' /\ [AsyncNext]_asyncVars
          => [A!Next /\ UNCHANGED rows]_<<rows, AsyncPosition, out>>
    <2> SUFFICES ASSUME AsyncInv, AsyncInv', [AsyncNext]_asyncVars PROVE AbstractStep
      BY DEF AbstractStep
    <2>1. CASE UNCHANGED asyncVars
      BY <2>1 DEF asyncVars, AbstractStep, AsyncPosition
    <2> QED BY <2>1, CallerRefines, ReceiveRefines, GoroutineRefines DEF AsyncNext
  <1> QED BY <1>1, <1>2, <1>3, <1>4, PTL DEF AsyncSpec, AsyncPagesSeek, A!Spec

-----------------------------------------------------------------------------
(* Induction over data, from the least element of a set of naturals.       *)

LessOnNat == {p \in Nat \X Nat : p[1] < p[2]}

\* Every nonempty set of naturals has a least element.
LEMMA LeastElement ==
  ASSUME NEW T \in SUBSET Nat, T # {}
  PROVE  \E x \in T : \A y \in T : x <= y
  <1>1. IsWellFoundedOn(LessOnNat, Nat)
    BY NatLessThanWellFounded DEF LessOnNat, OpToRel
  <1>2. PICK x \in T : \A y \in T : ~ (<<y, x>> \in LessOnNat)
    BY <1>1, WFMin
  <1>3. \A y \in T : ~(y < x)
    <2> TAKE y \in T
    <2>1. <<y, x>> \in Nat \X Nat /\ <<y, x>>[1] = y /\ <<y, x>>[2] = x
      OBVIOUS
    <2> QED BY <1>2, <2>1 DEF LessOnNat
  <1>4. \A y \in T : x <= y
    BY <1>3
  <1> QED BY <1>4

\* A set of naturals with 0 and the successor of each of its elements.
LEMMA SetInduction ==
  ASSUME NEW S \in SUBSET Nat, 0 \in S, \A n \in S : n + 1 \in S
  PROVE  \A n \in Nat : n \in S
  <1> SUFFICES ASSUME Nat \ S # {} PROVE FALSE
    OBVIOUS
  <1>1. PICK least \in Nat \ S : \A y \in Nat \ S : least <= y
    BY LeastElement
  <1>2. least # 0 /\ least - 1 \in Nat
    BY <1>1
  <1>3. least - 1 \in S
    BY <1>1, <1>2
  <1>4. (least - 1) + 1 \in S
    BY <1>3
  <1> QED BY <1>1, <1>4

\* The recursion of FlattenSeq has a solution.
LEMMA FlattenExists ==
  ASSUME NEW T, NEW s \in Seq(Seq(T))
  PROVE  \E fn \in [1..Len(s) -> Seq(T)] :
            \A i \in 1..Len(s) : fn[i] = IF i = 1 THEN s[i] ELSE fn[i-1] \o s[i]
  <1> DEFINE Stage(n) == n <= Len(s) =>
               \E fn \in [1..n -> Seq(T)] :
                 \A i \in 1..n : fn[i] = IF i = 1 THEN s[i] ELSE fn[i-1] \o s[i]
             S == {n \in Nat : Stage(n)}
  <1>1. Stage(0)
    <2>1. << >> \in Seq(T) /\ 1..0 = {}
      OBVIOUS
    <2>2. [i \in 1..0 |-> << >>] \in [1..0 -> Seq(T)]
      BY <2>1
    <2> QED BY <2>1, <2>2
  <1>2. ASSUME NEW n \in Nat, Stage(n) PROVE Stage(n + 1)
    <2>1. n \in Nat /\ Stage(n)
      BY <1>2
    <2>2. SUFFICES ASSUME n + 1 <= Len(s)
                   PROVE  \E fn \in [1..(n + 1) -> Seq(T)] :
                            \A i \in 1..(n + 1) : fn[i] = IF i = 1 THEN s[i] ELSE fn[i-1] \o s[i]
      OBVIOUS
    <2>3. PICK fn \in [1..n -> Seq(T)] :
            \A i \in 1..n : fn[i] = IF i = 1 THEN s[i] ELSE fn[i-1] \o s[i]
      BY <2>1, <2>2
    <2> DEFINE last == IF n = 0 THEN s[1] ELSE fn[n] \o s[n + 1]
               h == [i \in 1..(n + 1) |-> IF i = n + 1 THEN last ELSE fn[i]]
    <2>4. s[n + 1] \in Seq(T) /\ s[1] \in Seq(T)
      BY <2>1, <2>2
    <2>5. last \in Seq(T)
      BY <2>1, <2>4
    <2>6. h \in [1..(n + 1) -> Seq(T)]
      <3> HIDE DEF last
      <3> QED BY <2>1, <2>5
    <2>7. ASSUME NEW i \in 1..(n + 1)
          PROVE  h[i] = IF i = 1 THEN s[i] ELSE h[i-1] \o s[i]
      <3>1. CASE i = n + 1
        BY <2>1, <3>1
      <3>2. CASE i # n + 1
        <4>1. i \in 1..n /\ h[i] = fn[i] /\ (i # 1 => i - 1 \in 1..n /\ h[i-1] = fn[i-1])
          <5> HIDE DEF last
          <5> QED BY <2>1, <3>2
        <4> QED BY <2>3, <4>1
      <3> QED BY <3>1, <3>2
    <2> HIDE DEF h
    <2> QED BY <2>6, <2>7
  <1> HIDE DEF Stage
  <1>3. S \in SUBSET Nat /\ 0 \in S /\ \A n \in S : n + 1 \in S
    BY <1>1, <1>2
  <1> HIDE DEF S
  <1>4. \A n \in Nat : n \in S
    BY <1>3, SetInduction
  <1>5. Stage(Len(s))
    BY <1>4 DEF S
  <1> QED BY <1>5 DEF Stage

\* The sequences FlattenSeq goes through on its way to its result.
Flattens(s, fn) == fn = [i \in 1..Len(s) |-> IF i = 1 THEN s[i] ELSE fn[i-1] \o s[i]]

\* FlattenSeq is the last of them.
LEMMA FlattenSeqUnfolds ==
  ASSUME NEW T, NEW s \in Seq(Seq(T))
  PROVE  \E fn : Flattens(s, fn) /\ FlattenSeq(s) = IF s = << >> THEN << >> ELSE fn[Len(s)]
  <1>1. PICK fn \in [1..Len(s) -> Seq(T)] :
            \A i \in 1..Len(s) : fn[i] = IF i = 1 THEN s[i] ELSE fn[i-1] \o s[i]
    BY FlattenExists
  <1>2. Flattens(s, fn)
    BY <1>1 DEF Flattens
  <1> DEFINE e == CHOOSE h : h = [i \in 1..Len(s) |-> IF i = 1 THEN s[i] ELSE h[i-1] \o s[i]]
  <1>3. Flattens(s, e)
    BY <1>2 DEF Flattens
  <1>4. FlattenSeq(s) = IF Len(s) = 0 THEN s ELSE e[Len(s)]
    BY DEF FlattenSeq
  <1>5. Len(s) = 0 <=> s = << >>
    OBVIOUS
  <1> HIDE DEF e
  <1> QED BY <1>3, <1>4, <1>5

\* Two such sequences agree on the part of s that they share.
LEMMA FlattensAgree ==
  ASSUME NEW T, NEW s \in Seq(Seq(T)), NEW t \in Seq(Seq(T)), NEW fn, NEW gn,
         Flattens(s, fn), Flattens(t, gn),
         Len(t) <= Len(s), \A i \in 1 .. Len(t) : t[i] = s[i]
  PROVE  \A i \in 1 .. Len(t) : fn[i] = gn[i] /\ fn[i] \in Seq(T)
  <1> DEFINE Stage(n) == \A i \in 1 .. Len(t) : i <= n => fn[i] = gn[i] /\ fn[i] \in Seq(T)
             S == {n \in Nat : Stage(n)}
  <1>1. Stage(0)
    OBVIOUS
  <1>2. ASSUME NEW n \in Nat, Stage(n) PROVE Stage(n + 1)
    <2>1. SUFFICES ASSUME n + 1 \in 1 .. Len(t)
                   PROVE  fn[n + 1] = gn[n + 1] /\ fn[n + 1] \in Seq(T)
      BY <1>2
    <2>2. /\ n + 1 \in 1 .. Len(s) /\ s[n + 1] = t[n + 1] /\ s[n + 1] \in Seq(T)
          /\ (n + 1) - 1 = n
      BY <2>1
    <2>3. fn[n + 1] = IF n + 1 = 1 THEN s[n + 1] ELSE fn[n] \o s[n + 1]
      BY <2>2 DEF Flattens
    <2>4. gn[n + 1] = IF n + 1 = 1 THEN t[n + 1] ELSE gn[n] \o t[n + 1]
      BY <2>1, <2>2 DEF Flattens
    <2>5. CASE n = 0
      BY <2>2, <2>3, <2>4, <2>5
    <2>6. CASE n # 0
      BY <1>2, <2>1, <2>2, <2>3, <2>4, <2>6
    <2> QED BY <2>5, <2>6
  <1> HIDE DEF Stage
  <1>3. S \in SUBSET Nat /\ 0 \in S /\ \A n \in S : n + 1 \in S
    BY <1>1, <1>2
  <1> HIDE DEF S
  <1>4. \A n \in Nat : n \in S
    BY <1>3, SetInduction
  <1>5. Stage(Len(t))
    BY <1>4 DEF S
  <1> QED BY <1>5 DEF Stage

\* The recursion of FlattenSeq, without the functions.
LEMMA FlattenSeqRecursion ==
  ASSUME NEW T
  PROVE  /\ FlattenSeq(<< >>) = << >>
         /\ \A s \in Seq(Seq(T)) : FlattenSeq(s) \in Seq(T)
         /\ \A s \in Seq(Seq(T)), x \in Seq(T) :
              FlattenSeq(Append(s, x)) = FlattenSeq(s) \o x
  <1>1. FlattenSeq(<< >>) = << >>
    <2>1. << >> \in Seq(Seq(T))
      OBVIOUS
    <2> QED BY <2>1, FlattenSeqUnfolds
  <1>2. ASSUME NEW s \in Seq(Seq(T)) PROVE FlattenSeq(s) \in Seq(T)
    <2>1. PICK fn : Flattens(s, fn) /\ FlattenSeq(s) = IF s = << >> THEN << >> ELSE fn[Len(s)]
      BY FlattenSeqUnfolds
    <2>2. CASE s = << >>
      BY <2>1, <2>2
    <2>3. CASE s # << >>
      BY <2>1, <2>3, FlattensAgree
    <2> QED BY <2>2, <2>3
  <1>3. ASSUME NEW s \in Seq(Seq(T)), NEW x \in Seq(T)
        PROVE  FlattenSeq(Append(s, x)) = FlattenSeq(s) \o x
    <2> DEFINE t == Append(s, x)
    <2>1. /\ t \in Seq(Seq(T)) /\ Len(t) = Len(s) + 1 /\ t[Len(t)] = x /\ t # << >>
          /\ \A i \in 1 .. Len(s) : t[i] = s[i]
      BY AppendProperties
    <2> HIDE DEF t
    <2>2. PICK fn : Flattens(s, fn) /\ FlattenSeq(s) = IF s = << >> THEN << >> ELSE fn[Len(s)]
      BY FlattenSeqUnfolds
    <2>3. PICK gn : Flattens(t, gn) /\ FlattenSeq(t) = IF t = << >> THEN << >> ELSE gn[Len(t)]
      BY <2>1, FlattenSeqUnfolds
    <2>4. \A i \in 1 .. Len(s) : gn[i] = fn[i] /\ gn[i] \in Seq(T)
      <3>1. Len(s) <= Len(t)
        BY <2>1
      <3>2. \A i \in 1 .. Len(s) : s[i] = t[i]
        BY <2>1
      <3> QED BY <2>1, <2>2, <2>3, <3>1, <3>2, FlattensAgree
    <2>5. FlattenSeq(t) = gn[Len(t)]
      BY <2>1, <2>3
    <2>6. gn[Len(t)] = IF Len(t) = 1 THEN x ELSE gn[Len(t) - 1] \o x
      <3>1. Len(t) \in 1 .. Len(t)
        BY <2>1
      <3> QED BY <2>1, <2>3, <3>1 DEF Flattens
    <2>7. CASE s = << >>
      BY <2>1, <2>2, <2>5, <2>6, <2>7, ConcatEmptySeq DEF t
    <2>8. CASE s # << >>
      <3>1. Len(s) \in 1 .. Len(s) /\ Len(t) # 1 /\ Len(t) - 1 = Len(s)
        BY <2>1, <2>8
      <3> QED BY <2>2, <2>4, <2>5, <2>6, <2>8, <3>1 DEF t
    <2> QED BY <2>7, <2>8
  <1> QED BY <1>1, <1>2, <1>3

-----------------------------------------------------------------------------
(* RowsBefore adds up the row counts in an unspecified order. *)

\* The element that is added next.
Chosen(s) == CHOOSE x \in s : TRUE

\* The sums of fn over the subsets of S, added up like this.
Sums(fn, S, sum) ==
  sum = [s \in SUBSET S |-> IF s = {} THEN 0 ELSE fn[Chosen(s)] + sum[s \ {Chosen(s)}]]

\* There are such sums.
LEMMA SumsExist ==
  ASSUME NEW fn, NEW S, IsFiniteSet(S), \A x \in S : fn[x] \in Nat
  PROVE  \E sum : Sums(fn, S, sum)
  <1> DEFINE Small(n) == {s \in SUBSET S : Cardinality(s) <= n}
             Add(s, e) == IF s = {} THEN 0 ELSE fn[Chosen(s)] + e[s \ {Chosen(s)}]
             Stage(n) == \E e \in [Small(n) -> Nat] : \A s \in Small(n) : e[s] = Add(s, e)
             N == {n \in Nat : Stage(n)}
  <1>1. \A s \in SUBSET S : /\ IsFiniteSet(s) /\ Cardinality(s) \in Nat
                            /\ s # {} => Chosen(s) \in s
                            /\ \A x \in s : Cardinality(s \ {x}) = Cardinality(s) - 1
    BY FS_Subset, FS_CardinalityType, FS_RemoveElement DEF Chosen
  <1>2. Stage(0)
    <2>1. \A s \in Small(0) : s = {}
      <3> TAKE s \in Small(0)
      <3>1. s \in SUBSET S /\ Cardinality(s) = 0
        BY <1>1
      <3> QED BY <1>1, <3>1, FS_EmptySet
    <2>2. [s \in Small(0) |-> 0] \in [Small(0) -> Nat]
      OBVIOUS
    <2> QED BY <2>1, <2>2
  <1>3. ASSUME NEW n \in Nat, Stage(n) PROVE Stage(n + 1)
    <2>1. PICK e \in [Small(n) -> Nat] : \A s \in Small(n) : e[s] = Add(s, e)
      BY <1>3
    <2> DEFINE h == [s \in Small(n + 1) |-> Add(s, e)]
    <2>2. \A s \in Small(n + 1) : s # {} => /\ s \ {Chosen(s)} \in Small(n)
                                            /\ fn[Chosen(s)] \in Nat
      <3> TAKE s \in Small(n + 1)
      <3> HAVE s # {}
      <3>1. s \in SUBSET S /\ Cardinality(s) <= n + 1
        OBVIOUS
      <3>2. Chosen(s) \in s /\ Cardinality(s \ {Chosen(s)}) = Cardinality(s) - 1
        BY <1>1, <3>1
      <3>3. Cardinality(s) \in Nat
        BY <1>1, <3>1
      <3> QED BY <3>1, <3>2, <3>3
    <2>3. \A s \in Small(n) : s \in Small(n + 1)
      <3> TAKE s \in Small(n)
      <3>1. s \in SUBSET S /\ Cardinality(s) <= n /\ Cardinality(s) \in Nat
        BY <1>1
      <3> QED BY <3>1
    <2> HIDE DEF Small
    <2>4. h \in [Small(n + 1) -> Nat]
      BY <2>1, <2>2
    <2>5. \A s \in Small(n) : h[s] = e[s]
      BY <2>1, <2>3
    <2>6. \A s \in Small(n + 1) : h[s] = Add(s, h)
      BY <2>2, <2>5
    <2> HIDE DEF h, Add
    <2> QED BY <2>4, <2>6
  <1> HIDE DEF Stage
  <1>9. N \in SUBSET Nat /\ 0 \in N /\ \A n \in N : n + 1 \in N
    BY <1>2, <1>3
  <1> HIDE DEF N
  <1>4. \A n \in Nat : n \in N
    BY <1>9, SetInduction
  <1>5. Stage(Cardinality(S))
    BY <1>1, <1>4 DEF N
  <1>6. Small(Cardinality(S)) = SUBSET S
    BY <1>1, FS_Subset
  <1>7. PICK e \in [SUBSET S -> Nat] : \A s \in SUBSET S : e[s] = Add(s, e)
    BY <1>5, <1>6 DEF Stage
  <1>8. Sums(fn, S, e)
    BY <1>7 DEF Sums
  <1> QED BY <1>8

\* Any element may be the one that is added last.
LEMMA SumsRemove ==
  ASSUME NEW fn, NEW S, NEW sum, Sums(fn, S, sum), IsFiniteSet(S), \A x \in S : fn[x] \in Nat
  PROVE  \A s \in SUBSET S : /\ sum[s] \in Nat
                             /\ s = {} => sum[s] = 0
                             /\ \A x \in s : sum[s] = fn[x] + sum[s \ {x}]
  <1> DEFINE Holds(s) == sum[s] \in Nat /\ \A x \in s : sum[s] = fn[x] + sum[s \ {x}]
             Stage(n) == \A s \in SUBSET S : Cardinality(s) <= n => Holds(s)
             N == {n \in Nat : Stage(n)}
  <1>1. \A s \in SUBSET S : /\ IsFiniteSet(s) /\ Cardinality(s) \in Nat
                            /\ s # {} => Chosen(s) \in s
                            /\ \A x \in s : Cardinality(s \ {x}) = Cardinality(s) - 1
    BY FS_Subset, FS_CardinalityType, FS_RemoveElement DEF Chosen
  <1>2. \A s \in SUBSET S : sum[s] = IF s = {} THEN 0 ELSE fn[Chosen(s)] + sum[s \ {Chosen(s)}]
    BY DEF Sums
  <1>8. Holds({})
    BY <1>2
  <1>3. Stage(0)
    <2> SUFFICES ASSUME NEW s \in SUBSET S, Cardinality(s) <= 0 PROVE Holds(s)
      OBVIOUS
    <2>1. s = {}
      BY <1>1, FS_EmptySet
    <2> HIDE DEF Holds
    <2> QED BY <1>8, <2>1
  <1>4. ASSUME NEW n \in Nat, Stage(n) PROVE Stage(n + 1)
    <2> SUFFICES ASSUME NEW s \in SUBSET S, Cardinality(s) <= n + 1, s # {} PROVE Holds(s)
      <3> HIDE DEF Holds
      <3>1. \A s \in SUBSET S : s = {} => Holds(s)
        BY <1>8
      <3> QED BY <3>1
    <2> DEFINE y == Chosen(s)
    <2>1. s # {}
      OBVIOUS
    <2>2. /\ y \in s
          /\ \A x \in s : s \ {x} \in SUBSET S /\ Cardinality(s \ {x}) <= n
      BY <1>1
    <2>3. \A x \in s : Holds(s \ {x})
      BY <1>4, <2>2
    <2>7. \A x, z \in s : Holds((s \ {x}) \ {z})
      <3> SUFFICES ASSUME NEW x \in s, NEW z \in s PROVE Holds((s \ {x}) \ {z})
        OBVIOUS
      <3> DEFINE rest == (s \ {x}) \ {z}
      <3>1. rest \in SUBSET S /\ s \ {x} \in SUBSET S
        OBVIOUS
      <3>2. Cardinality(rest) <= n
        <4>1. CASE z = x
          BY <2>2, <4>1
        <4>2. CASE z # x
          <5>1. z \in s \ {x} /\ Cardinality(s \ {x}) \in Nat
            BY <1>1, <3>1, <4>2
          <5>2. Cardinality(rest) = Cardinality(s \ {x}) - 1 /\ Cardinality(s \ {x}) <= n
            BY <1>1, <2>2, <3>1, <5>1
          <5> QED BY <5>1, <5>2
        <4> QED BY <4>1, <4>2
      <3> HIDE DEF rest, Holds
      <3>3. Holds(rest)
        BY <1>4, <3>1, <3>2
      <3> QED BY <3>3 DEF rest
    <2>4. sum[s] = fn[y] + sum[s \ {y}]
      BY <1>2, <2>1
    <2> HIDE DEF y
    <2>5. sum[s] \in Nat
      BY <2>2, <2>3, <2>4
    <2>6. ASSUME NEW x \in s PROVE sum[s] = fn[x] + sum[s \ {x}]
      <3>1. CASE x = y
        BY <2>4, <3>1
      <3>2. CASE x # y
        <4>1. x \in s \ {y} /\ y \in s \ {x} /\ (s \ {y}) \ {x} = (s \ {x}) \ {y}
          BY <2>2, <3>2
        <4>2. /\ sum[s \ {y}] = fn[x] + sum[(s \ {y}) \ {x}]
              /\ sum[s \ {x}] = fn[y] + sum[(s \ {y}) \ {x}]
          BY <2>2, <2>3, <4>1
        <4>3. sum[(s \ {y}) \ {x}] \in Nat
          BY <2>2, <2>7
        <4>4. fn[x] \in Nat /\ fn[y] \in Nat
          BY <2>2
        <4> QED BY <2>4, <4>2, <4>3, <4>4
      <3> QED BY <3>1, <3>2
    <2> QED BY <2>5, <2>6
  <1> HIDE DEF Stage
  <1>9. N \in SUBSET Nat /\ 0 \in N /\ \A n \in N : n + 1 \in N
    BY <1>3, <1>4
  <1> HIDE DEF N
  <1>5. \A n \in Nat : n \in N
    BY <1>9, SetInduction
  <1>6. ASSUME NEW s \in SUBSET S PROVE Holds(s)
    <2>1. Cardinality(s) \in Nat /\ Cardinality(s) <= Cardinality(s)
      BY <1>1
    <2>2. Stage(Cardinality(s))
      BY <1>5, <2>1 DEF N
    <2> HIDE DEF Holds
    <2> QED BY <2>1, <2>2 DEF Stage
  <1> QED BY <1>2, <1>6

\* In particular of those that make up the whole.
LEMMA SumsLast ==
  ASSUME NEW fn, NEW S, NEW sum, Sums(fn, S, sum), IsFiniteSet(S), \A x \in S : fn[x] \in Nat,
         NEW i \in S
  PROVE  sum[S] = fn[i] + sum[S \ {i}]
  BY SumsRemove

\* Two such sums agree where their functions do.
LEMMA SumsAgree ==
  ASSUME NEW fn, NEW S, NEW sum, Sums(fn, S, sum),
         NEW e, NEW R, NEW total, Sums(e, R, total),
         NEW T \in SUBSET S, T \in SUBSET R, IsFiniteSet(T), \A x \in T : fn[x] = e[x]
  PROVE  sum[T] = total[T]
  <1> DEFINE Stage(n) == \A s \in SUBSET T : Cardinality(s) = n => sum[s] = total[s]
             N == {n \in Nat : Stage(n)}
  <1>1. \A s \in SUBSET T : /\ IsFiniteSet(s) /\ Cardinality(s) \in Nat
                            /\ s # {} => /\ Chosen(s) \in s
                                         /\ Cardinality(s \ {Chosen(s)}) = Cardinality(s) - 1
    BY FS_Subset, FS_CardinalityType, FS_RemoveElement DEF Chosen
  <1>2. ASSUME NEW s \in SUBSET T
        PROVE  /\ sum[s] = IF s = {} THEN 0 ELSE fn[Chosen(s)] + sum[s \ {Chosen(s)}]
               /\ total[s] = IF s = {} THEN 0 ELSE e[Chosen(s)] + total[s \ {Chosen(s)}]
    BY DEF Sums
  <1>3. Stage(0)
    <2> SUFFICES ASSUME NEW s \in SUBSET T, Cardinality(s) = 0 PROVE sum[s] = total[s]
      OBVIOUS
    <2>1. s = {}
      BY <1>1, FS_EmptySet
    <2> QED BY <1>2, <2>1
  <1>4. ASSUME NEW n \in Nat, Stage(n) PROVE Stage(n + 1)
    <2> SUFFICES ASSUME NEW s \in SUBSET T, Cardinality(s) = n + 1 PROVE sum[s] = total[s]
      OBVIOUS
    <2> DEFINE y == Chosen(s)
    <2>1. s # {}
      BY FS_EmptySet
    <2>2. y \in s /\ Cardinality(s \ {y}) = n /\ s \ {y} \in SUBSET T /\ fn[y] = e[y]
      BY <1>1, <2>1
    <2>3. sum[s \ {y}] = total[s \ {y}]
      BY <1>4, <2>2
    <2>4. sum[s] = fn[y] + sum[s \ {y}] /\ total[s] = e[y] + total[s \ {y}]
      BY <1>2, <2>1
    <2> HIDE DEF y
    <2> QED BY <2>2, <2>3, <2>4
  <1> HIDE DEF Stage
  <1>9. N \in SUBSET Nat /\ 0 \in N /\ \A n \in N : n + 1 \in N
    BY <1>3, <1>4
  <1> HIDE DEF N
  <1>5. \A n \in Nat : n \in N
    BY <1>9, SetInduction
  <1> QED BY <1>1, <1>5 DEF Stage, N

\* FoldSeq with + is such a sum.
LEMMA FoldSeqIsSum ==
  ASSUME NEW s \in Seq(Nat)
  PROVE  \E sum : Sums(s, 1 .. Len(s), sum) /\ FoldSeq(+, 0, s) = sum[1 .. Len(s)]
  <1>1. DOMAIN s = 1 .. Len(s) /\ IsFiniteSet(1 .. Len(s)) /\ \A i \in 1 .. Len(s) : s[i] \in Nat
    <2>1. Len(s) \in Nat /\ DOMAIN s = 1 .. Len(s) /\ \A i \in 1 .. Len(s) : s[i] \in Nat
      OBVIOUS
    <2>2. 1 \in Int /\ Len(s) \in Int
      BY <2>1
    <2>3. IsFiniteSet(1 .. Len(s))
      BY <2>2, FS_Interval
    <2> QED BY <2>1, <2>3
  <1> DEFINE sum == CHOOSE k : k = [t \in SUBSET (DOMAIN s) |->
                      IF t = {} THEN 0
                      ELSE s[CHOOSE x \in t : TRUE] + k[t \ {CHOOSE x \in t : TRUE}]]
  <1>2. Sums(s, DOMAIN s, sum)
    <2>1. \E k : Sums(s, DOMAIN s, k)
      BY <1>1, SumsExist
    <2> QED BY <2>1 DEF Sums, Chosen
  <1>3. FoldSeq(+, 0, s) = sum[DOMAIN s]
    BY DEF FoldSeq, FoldFunction, FoldFunctionOnSet, MapThenFoldSet
  <1> HIDE DEF sum
  <1> QED BY <1>1, <1>2, <1>3

\* The rows before a chunk, one chunk after the other.
LEMMA RowsBeforeRecursion ==
  ASSUME NEW counts \in Seq(Nat)
  PROVE  /\ RowsBefore(counts, 0) = 0
         /\ \A i \in 0 .. Len(counts) : RowsBefore(counts, i) \in Nat
         /\ \A i \in 1 .. Len(counts) :
              RowsBefore(counts, i) = RowsBefore(counts, i - 1) + counts[i]
  <1> DEFINE Part(i) == SubSeq(counts, 1, i)
  <1>1. ASSUME NEW i \in 0 .. Len(counts)
        PROVE  Part(i) \in Seq(Nat) /\ Len(Part(i)) = i /\ \A j \in 1 .. i : Part(i)[j] = counts[j]
    OBVIOUS
  <1>2. ASSUME NEW i \in 0 .. Len(counts)
        PROVE  /\ \E sum : Sums(Part(i), 1 .. i, sum) /\ RowsBefore(counts, i) = sum[1 .. i]
               /\ IsFiniteSet(1 .. i) /\ \A j \in 1 .. i : Part(i)[j] \in Nat
    <2>1. RowsBefore(counts, i) = FoldSeq(+, 0, Part(i))
      BY DEF RowsBefore
    <2> HIDE DEF Part
    <2>2. i \in Int /\ 1 \in Int
      OBVIOUS
    <2>3. IsFiniteSet(1 .. i)
      BY <2>2, FS_Interval
    <2>4. \A j \in 1 .. i : Part(i)[j] \in Nat
      BY <1>1
    <2> QED BY <1>1, <2>1, <2>3, <2>4, FoldSeqIsSum
  <1> HIDE DEF Part
  <1>3. ASSUME NEW i \in 0 .. Len(counts)
        PROVE  RowsBefore(counts, i) \in Nat /\ (i = 0 => RowsBefore(counts, i) = 0)
    <2>1. PICK sum : Sums(Part(i), 1 .. i, sum) /\ RowsBefore(counts, i) = sum[1 .. i]
      BY <1>2
    <2>2. 1 .. i \in SUBSET (1 .. i) /\ (i = 0 => 1 .. i = {})
      OBVIOUS
    <2> QED BY <1>2, <2>1, <2>2, SumsRemove
  <1>4. ASSUME NEW i \in 1 .. Len(counts)
        PROVE  RowsBefore(counts, i) = RowsBefore(counts, i - 1) + counts[i]
    <2> DEFINE j == i - 1
    <2>1. i \in 0 .. Len(counts) /\ j \in 0 .. Len(counts) /\ i \in 1 .. i
      OBVIOUS
    <2>2. 1 .. j = (1 .. i) \ {i} /\ 1 .. j \in SUBSET (1 .. i)
      OBVIOUS
    <2> HIDE DEF j
    <2>3. PICK sum : Sums(Part(i), 1 .. i, sum) /\ RowsBefore(counts, i) = sum[1 .. i]
      BY <1>2, <2>1
    <2>4. PICK less : Sums(Part(j), 1 .. j, less) /\ RowsBefore(counts, j) = less[1 .. j]
      BY <1>2, <2>1
    <2>5. sum[1 .. i] = Part(i)[i] + sum[1 .. j]
      <3> DEFINE upto == 1 .. i
                 p == Part(i)
                 last == i
      <3>1. /\ IsFiniteSet(upto) /\ last \in upto /\ \A x \in upto : p[x] \in Nat
            /\ Sums(p, upto, sum)
        BY <1>2, <2>1, <2>3
      <3> HIDE DEF upto, p, last
      <3>2. sum[upto] = p[last] + sum[upto \ {last}]
        BY <3>1, SumsLast
      <3> QED BY <2>2, <3>2 DEF upto, p, last
    <2>6. sum[1 .. j] = less[1 .. j]
      <3>1. \A x \in 1 .. j : Part(i)[x] = Part(j)[x]
        BY <1>1, <2>1, <2>2
      <3>2. 1 .. j \in SUBSET (1 .. j)
        OBVIOUS
      <3>3. IsFiniteSet(1 .. j)
        BY <1>2, <2>1
      <3> DEFINE p == Part(i)
                 q == Part(j)
                 upto == 1 .. i
                 below == 1 .. j
      <3>4. /\ Sums(p, upto, sum) /\ Sums(q, below, less) /\ IsFiniteSet(below)
            /\ below \in SUBSET upto /\ below \in SUBSET below /\ \A x \in below : p[x] = q[x]
        BY <2>2, <2>3, <2>4, <3>1, <3>2, <3>3
      <3> HIDE DEF p, q, upto, below
      <3>5. sum[below] = less[below]
        BY <3>4, SumsAgree
      <3> QED BY <3>5 DEF below
    <2>7. Part(i)[i] = counts[i]
      BY <1>1, <2>1
    <2>8. RowsBefore(counts, j) \in Nat /\ counts[i] \in Nat
      BY <1>3, <2>1
    <2> QED BY <2>3, <2>4, <2>5, <2>6, <2>7, <2>8 DEF j
  <1> QED BY <1>3, <1>4

\* More chunks have more rows.
LEMMA RowsBeforeMonotone ==
  ASSUME NEW counts \in Seq(Nat), NEW i \in 0 .. Len(counts), NEW j \in i .. Len(counts)
  PROVE  RowsBefore(counts, i) <= RowsBefore(counts, j)
  <1> DEFINE Stage(n) == i + n <= Len(counts) => RowsBefore(counts, i) <= RowsBefore(counts, i + n)
             N == {n \in Nat : Stage(n)}
  <1>1. Stage(0)
    BY RowsBeforeRecursion
  <1>2. ASSUME NEW n \in Nat, Stage(n) PROVE Stage(n + 1)
    <2> SUFFICES ASSUME i + (n + 1) <= Len(counts)
                 PROVE  RowsBefore(counts, i) <= RowsBefore(counts, i + (n + 1))
      OBVIOUS
    <2> DEFINE k == i + (n + 1)
    <2>1. k \in 1 .. Len(counts) /\ k - 1 = i + n /\ i + n \in 0 .. Len(counts)
      OBVIOUS
    <2>2. counts[k] \in Nat
      BY <2>1
    <2> HIDE DEF k
    <2>3. RowsBefore(counts, k) = RowsBefore(counts, i + n) + counts[k]
      BY <2>1, RowsBeforeRecursion
    <2>4. RowsBefore(counts, i) \in Nat /\ RowsBefore(counts, i + n) \in Nat
      BY <2>1, RowsBeforeRecursion
    <2>5. RowsBefore(counts, i) <= RowsBefore(counts, i + n)
      BY <1>2, <2>1
    <2> QED BY <2>2, <2>3, <2>4, <2>5 DEF k
  <1> HIDE DEF Stage
  <1>3. N \in SUBSET Nat /\ 0 \in N /\ \A n \in N : n + 1 \in N
    BY <1>1, <1>2
  <1> HIDE DEF N
  <1>4. \A n \in Nat : Stage(n)
    BY <1>3, SetInduction DEF N
  <1>5. j - i \in Nat /\ i + (j - i) = j /\ j <= Len(counts)
    OBVIOUS
  <1> QED BY <1>4, <1>5 DEF Stage

-----------------------------------------------------------------------------
(* The pages of several row groups. *)

\* The fields of multiPages.
MultiReader == [pc : {"idle", "closed"}, open : BOOLEAN, at : Nat, index : Nat, beyond : Nat]

MultiTypeOK ==
    /\ rowCounts \in Seq(Nat)
    /\ m \in MultiReader
    /\ calls \in Nat

\* The open chunk is one of the list, and the reader is inside it or at its end.
OpenInside ==
    /\ m.index <= Len(rowCounts)
    /\ m.open => m.pc = "idle" /\ m.index >= 1 /\ m.at <= rowCounts[m.index]

\* Behind the last chunk, no row is left.
NothingBehind ==
    (~m.open /\ m.pc = "idle" /\ m.index = Len(rowCounts)) => m.beyond >= TotalRows

MultiInv == MultiTypeOK /\ OpenInside /\ NothingBehind

\* Where a chunk begins and ends among all rows.
LEMMA ChunkBounds ==
  ASSUME MultiInv
  PROVE  /\ Len(rowCounts) \in Nat /\ TotalRows \in Nat
         /\ RowsBefore(rowCounts, 0) = 0
         /\ \A i \in 0 .. Len(rowCounts) : /\ RowsBefore(rowCounts, i) \in Nat
                                           /\ RowsBefore(rowCounts, i) <= TotalRows
         /\ \A i \in 1 .. Len(rowCounts) :
              /\ rowCounts[i] \in Nat
              /\ RowsBefore(rowCounts, i) = RowsBefore(rowCounts, i - 1) + rowCounts[i]
  <1>1. rowCounts \in Seq(Nat) /\ Len(rowCounts) \in Nat
    BY DEF MultiInv, MultiTypeOK, MultiReader
  <1>2. ASSUME NEW i \in 0 .. Len(rowCounts)
        PROVE  RowsBefore(rowCounts, i) \in Nat /\ RowsBefore(rowCounts, i) <= TotalRows
    BY <1>1, RowsBeforeRecursion, RowsBeforeMonotone DEF TotalRows
  <1>3. Len(rowCounts) \in 0 .. Len(rowCounts)
    BY <1>1
  <1>4. TotalRows \in Nat
    BY <1>1, <1>3, RowsBeforeRecursion DEF TotalRows
  <1>5. \A i \in 1 .. Len(rowCounts) : rowCounts[i] \in Nat
    BY <1>1
  <1> QED BY <1>1, <1>2, <1>4, <1>5, RowsBeforeRecursion

\* The position is a row, or one behind the last.
LEMMA MultiPositionType ==
  ASSUME MultiInv
  PROVE  /\ MultiPosition \in Nat
         /\ m.open => /\ m.index \in 1 .. Len(rowCounts)
                      /\ MultiPosition = RowsBefore(rowCounts, m.index - 1) + m.at
                      /\ RowsBefore(rowCounts, m.index - 1) \in Nat
  <1>1. m.index \in 0 .. Len(rowCounts) /\ m.beyond \in Nat /\ m.at \in Nat /\ m.open \in BOOLEAN
    BY ChunkBounds DEF MultiInv, MultiTypeOK, MultiReader, OpenInside
  <1>2. CASE m.open
    BY <1>1, <1>2, ChunkBounds DEF MultiInv, OpenInside, MultiPosition
  <1>3. CASE ~m.open
    BY <1>1, <1>3, ChunkBounds DEF MultiPosition
  <1> QED BY <1>1, <1>2, <1>3

\* Before the first chunk is opened.
LEMMA MultiInvInit == MultiInit => MultiInv /\ M!Init
  <1> SUFFICES ASSUME MultiInit PROVE MultiInv /\ M!Init
    OBVIOUS
  <1>1. PICK rowGroups \in RowGroupLists : rowCounts = FlattenSeq(rowGroups)
    BY DEF MultiInit, MultiInitOn, Flattened
  <1>2. rowCounts \in Seq(Nat) /\ Len(rowCounts) \in Nat
    BY <1>1, MultiAssumption, FlattenSeqRecursion DEF MultiAssumption
  <1>3. /\ RowsBefore(rowCounts, 0) = 0 /\ TotalRows \in Nat
        /\ Len(rowCounts) = 0 => TotalRows = 0
    BY <1>2, RowsBeforeRecursion DEF TotalRows
  <1>4. m = [pc |-> "idle", open |-> FALSE, at |-> 0, index |-> 0,
             beyond |-> IF rowCounts = <<>> THEN 0 ELSE TotalRows]
        /\ got = M!Sought(0) /\ calls = 0
    BY DEF MultiInit, MultiInitOn
  <1>5. Len(rowCounts) = 0 <=> rowCounts = << >>
    BY <1>2
  <1>6. MultiTypeOK
    BY <1>2, <1>3, <1>4 DEF MultiTypeOK, MultiReader
  <1>7. OpenInside /\ NothingBehind
    BY <1>2, <1>3, <1>4, <1>5 DEF OpenInside, NothingBehind
  <1>8. MultiPosition = 0
    BY <1>3, <1>4, <1>5 DEF MultiPosition
  <1> QED BY <1>3, <1>4, <1>6, <1>7, <1>8 DEF MultiInv, M!Init

\* What SeekablePages allows a step to be.
MultiStep == [M!Next /\ UNCHANGED TotalRows]_<<TotalRows, MultiPosition, got>>

\* A page of the open chunk begins at the position and ends inside the chunk.
LEMMA MultiReadPageStep ==
  ASSUME MultiInv, MultiReadPage
  PROVE  MultiInv' /\ MultiStep
  <1>1. PICK k \in 1 .. (rowCounts[m.index] - m.at) :
          /\ got' = M!Page(MultiPosition, k, FALSE)
          /\ m' = [m EXCEPT !.at = @ + k]
    BY DEF MultiReadPage
  <1>2. m.open /\ rowCounts' = rowCounts /\ calls' = calls + 1 /\ m.index \in 1 .. Len(rowCounts)
    BY MultiPositionType DEF MultiReadPage
  <1>3. rowCounts[m.index] \in Nat /\ m.at \in Nat /\ k \in Nat /\ k >= 1 /\ m.at + k <= rowCounts[m.index]
    BY <1>2, ChunkBounds DEF MultiInv, MultiTypeOK, MultiReader
  <1>4. /\ m'.open = m.open /\ m'.pc = m.pc /\ m'.index = m.index /\ m'.beyond = m.beyond
        /\ m'.at = m.at + k
    BY <1>1 DEF MultiInv, MultiTypeOK, MultiReader
  <1>5. MultiTypeOK'
    <2> DEFINE at == m.at + k
    <2>1. m' = [m EXCEPT !.at = at] /\ at \in Nat
      BY <1>1, <1>3
    <2> HIDE DEF at
    <2>2. m' \in MultiReader
      BY <2>1 DEF MultiInv, MultiTypeOK, MultiReader
    <2>3. rowCounts' \in Seq(Nat) /\ calls' \in Nat
      BY <1>2 DEF MultiInv, MultiTypeOK, MultiReader
    <2> QED BY <2>2, <2>3 DEF MultiTypeOK
  <1>6. OpenInside' /\ NothingBehind'
    BY <1>2, <1>3, <1>4 DEF MultiInv, OpenInside, NothingBehind
  <1>7. TotalRows' = TotalRows /\ MultiPosition' = MultiPosition + k
    <2>1. /\ MultiPosition = RowsBefore(rowCounts, m.index - 1) + m.at
          /\ RowsBefore(rowCounts, m.index - 1) \in Nat
      BY <1>2, MultiPositionType
    <2>2. MultiPosition' = RowsBefore(rowCounts, m.index - 1) + (m.at + k)
      BY <1>2, <1>4 DEF MultiPosition
    <2>3. TotalRows' = TotalRows
      BY <1>2 DEF TotalRows
    <2> QED BY <1>3, <2>1, <2>2, <2>3
  <1>8. MultiPosition + k <= TotalRows /\ k \in 0 .. TotalRows
    <2>1. /\ MultiPosition = RowsBefore(rowCounts, m.index - 1) + m.at
          /\ RowsBefore(rowCounts, m.index - 1) \in Nat
      BY <1>2, MultiPositionType
    <2>2. /\ RowsBefore(rowCounts, m.index) = RowsBefore(rowCounts, m.index - 1) + rowCounts[m.index]
          /\ RowsBefore(rowCounts, m.index) <= TotalRows /\ TotalRows \in Nat
      BY <1>2, ChunkBounds
    <2> QED BY <1>3, <2>1, <2>2
  <1>9. M!Read
    <2>1. got' = M!Page(MultiPosition, k, FALSE) /\ k # 0 /\ MultiPosition' = MultiPosition + k
      BY <1>1, <1>3, <1>7
    <2>2. \E continues \in BOOLEAN : /\ MultiPosition + k <= TotalRows
                                     /\ continues => got.kind = "page"
                                     /\ k = 0 => continues
                                     /\ got' = M!Page(MultiPosition, k, continues)
                                     /\ MultiPosition' = MultiPosition + k
      <3> WITNESS FALSE \in BOOLEAN
      <3> QED BY <1>8, <2>1
    <2> QED BY <1>8, <2>2 DEF M!Read
  <1> QED BY <1>5, <1>6, <1>7, <1>9 DEF MultiInv, MultiStep, M!Next

\* Behind the last row of a chunk is the first of the next.
LEMMA ChunkEndsStep ==
  ASSUME MultiInv, ChunkEnds
  PROVE  MultiInv' /\ MultiStep
  <1>1. /\ m.open /\ rowCounts' = rowCounts /\ got' = got /\ calls' = calls
        /\ m.index \in 1 .. Len(rowCounts) /\ m.at >= rowCounts[m.index]
        /\ m' = [m EXCEPT !.open = FALSE, !.beyond = MultiPosition]
    BY MultiPositionType DEF ChunkEnds
  <1>2. rowCounts[m.index] \in Nat /\ m.at = rowCounts[m.index]
    BY <1>1, ChunkBounds DEF MultiInv, MultiTypeOK, MultiReader, OpenInside
  <1>3. MultiPosition = RowsBefore(rowCounts, m.index) /\ MultiPosition \in Nat
    BY <1>1, <1>2, ChunkBounds, MultiPositionType
  <1>4. m'.open = FALSE /\ m'.pc = m.pc /\ m'.index = m.index /\ m'.beyond = MultiPosition
    BY <1>1 DEF MultiInv, MultiTypeOK, MultiReader
  <1>5. TotalRows' = TotalRows
    BY <1>1 DEF TotalRows
  <1>6. MultiPosition' = MultiPosition
    BY <1>1, <1>3, <1>4 DEF MultiPosition
  <1>7. MultiTypeOK'
    BY <1>1, <1>3 DEF MultiInv, MultiTypeOK, MultiReader
  <1>8. OpenInside'
    BY <1>1, <1>4 DEF MultiInv, OpenInside
  <1>9. NothingBehind'
    BY <1>1, <1>3, <1>4, <1>5 DEF NothingBehind, TotalRows
  <1> QED BY <1>1, <1>5, <1>6, <1>7, <1>8, <1>9 DEF MultiInv, MultiStep

\* The next chunk, empty or not, is opened at its first row.
LEMMA NextChunkStep ==
  ASSUME MultiInv, NextChunk
  PROVE  MultiInv' /\ MultiStep
  <1>1. /\ ~m.open /\ m.pc = "idle" /\ rowCounts' = rowCounts /\ got' = got /\ calls' = calls
        /\ m.index \in Nat /\ m.index < Len(rowCounts)
        /\ m' = [m EXCEPT !.open = TRUE, !.at = 0, !.index = @ + 1]
    BY DEF NextChunk, MultiInv, MultiTypeOK, MultiReader
  <1>2. m'.open = TRUE /\ m'.pc = "idle" /\ m'.index = m.index + 1 /\ m'.at = 0
    BY <1>1 DEF MultiInv, MultiTypeOK, MultiReader
  <1>3. /\ m.index + 1 \in 1 .. Len(rowCounts) /\ m.index # Len(rowCounts)
        /\ m.index \in 0 .. Len(rowCounts) /\ (m.index + 1) - 1 = m.index
    BY <1>1, ChunkBounds
  <1>4. rowCounts[m.index + 1] \in Nat /\ RowsBefore(rowCounts, m.index) \in Nat
    BY <1>3, ChunkBounds
  <1>5. TotalRows' = TotalRows
    BY <1>1 DEF TotalRows
  <1>6. MultiPosition' = MultiPosition
    BY <1>1, <1>2, <1>3, <1>4 DEF MultiPosition
  <1>7. MultiTypeOK'
    <2> DEFINE index == m.index + 1
    <2>1. m' = [m EXCEPT !.open = TRUE, !.at = 0, !.index = index] /\ index \in Nat
      BY <1>1
    <2> HIDE DEF index
    <2>2. m' \in MultiReader
      BY <2>1 DEF MultiInv, MultiTypeOK, MultiReader
    <2>3. rowCounts' \in Seq(Nat) /\ calls' \in Nat
      BY <1>1 DEF MultiInv, MultiTypeOK, MultiReader
    <2> QED BY <2>2, <2>3 DEF MultiTypeOK
  <1>8. OpenInside' /\ NothingBehind'
    BY <1>1, <1>2, <1>3, <1>4 DEF OpenInside, NothingBehind
  <1> QED BY <1>1, <1>5, <1>6, <1>7, <1>8 DEF MultiInv, MultiStep

\* The end is reported behind the last row only.
LEMMA MultiEOFStep ==
  ASSUME MultiInv, MultiEOF
  PROVE  MultiInv' /\ MultiStep
  <1>1. /\ rowCounts' = rowCounts /\ m' = m /\ calls' = calls + 1 /\ got' = M!EOF
        /\ ~m.open /\ m.pc = "idle" /\ m.index = Len(rowCounts)
    BY DEF MultiEOF
  <1>2. MultiPosition' = MultiPosition /\ TotalRows' = TotalRows
    BY <1>1 DEF MultiPosition, TotalRows
  <1>3. MultiPosition >= TotalRows
    BY <1>1 DEF MultiPosition, MultiInv, NothingBehind
  <1>4. MultiInv'
    BY <1>1, <1>2 DEF MultiInv, MultiTypeOK, MultiReader, OpenInside, NothingBehind
  <1> QED BY <1>1, <1>2, <1>3, <1>4 DEF MultiStep, M!Next, M!ReadEnd

\* A seek finds the chunk that holds the row, and the row in it; a row behind
\* the last is remembered.
LEMMA MultiSeekStep ==
  ASSUME MultiInv, NEW row \in Nat, MultiSeekToRow(row)
  PROVE  MultiInv' /\ MultiStep
  <1> DEFINE holds == {i \in 1 .. Len(rowCounts) : row < RowsBefore(rowCounts, i)}
             i == Min(holds)
  <1>1. /\ rowCounts' = rowCounts /\ calls' = calls + 1 /\ got' = M!Sought(row) /\ m.pc = "idle"
        /\ m' = IF holds = {}
                THEN [m EXCEPT !.open = FALSE, !.index = Len(rowCounts), !.beyond = row]
                ELSE [m EXCEPT !.open = TRUE, !.index = i,
                               !.at = row - RowsBefore(rowCounts, i - 1)]
    BY DEF MultiSeekToRow
  <1>2. TotalRows' = TotalRows /\ calls' \in Nat
    BY <1>1 DEF TotalRows, MultiInv, MultiTypeOK
  <1>3. MultiInv' /\ MultiPosition' = row
    <2>1. CASE holds = {}
      <3>1. m' = [m EXCEPT !.open = FALSE, !.index = Len(rowCounts), !.beyond = row]
        BY <1>1, <2>1
      <3>2. m'.open = FALSE /\ m'.index = Len(rowCounts) /\ m'.beyond = row
        BY <3>1 DEF MultiInv, MultiTypeOK, MultiReader
      <3>3. row >= TotalRows
        BY <2>1, ChunkBounds DEF TotalRows
      <3>4. MultiTypeOK'
        BY <1>1, <1>2, <3>1, ChunkBounds DEF MultiInv, MultiTypeOK, MultiReader
      <3>5. OpenInside' /\ NothingBehind'
        BY <1>1, <1>2, <3>2, <3>3, ChunkBounds DEF OpenInside, NothingBehind
      <3>6. MultiPosition' = row
        BY <1>1, <3>2 DEF MultiPosition
      <3> QED BY <3>4, <3>5, <3>6 DEF MultiInv
    <2>2. CASE holds # {}
      <3>1. i \in holds /\ \A j \in holds : i <= j
        <4>1. holds \in SUBSET Nat
          OBVIOUS
        <4>2. \E x \in holds : \A y \in holds : x <= y
          BY <2>2, <4>1, LeastElement
        <4> HIDE DEF holds
        <4> QED BY <4>2 DEF Min
      <3>2. m' = [m EXCEPT !.open = TRUE, !.index = i, !.at = row - RowsBefore(rowCounts, i - 1)]
        BY <1>1, <2>2
      <3>3. i \in 1 .. Len(rowCounts) /\ row < RowsBefore(rowCounts, i)
        BY <3>1
      <3>4. row >= RowsBefore(rowCounts, i - 1) /\ RowsBefore(rowCounts, i - 1) \in Nat
        <4>1. i - 1 \in 0 .. Len(rowCounts) /\ RowsBefore(rowCounts, 0) = 0
          BY <3>3, ChunkBounds
        <4>2. RowsBefore(rowCounts, i - 1) \in Nat
          BY <4>1, ChunkBounds
        <4>3. CASE i = 1
          BY <4>1, <4>3
        <4>4. CASE i # 1
          <5>1. i - 1 \in 1 .. Len(rowCounts) /\ ~(i <= i - 1)
            BY <3>3, <4>4, ChunkBounds
          <5>2. i - 1 \notin holds
            BY <3>1, <5>1
          <5>3. ~(row < RowsBefore(rowCounts, i - 1))
            BY <5>1, <5>2
          <5> QED BY <4>2, <5>3
        <4> QED BY <4>2, <4>3, <4>4
      <3> HIDE DEF i, holds
      <3> DEFINE at == row - RowsBefore(rowCounts, i - 1)
      <3>5. at \in Nat /\ at <= rowCounts[i] /\ RowsBefore(rowCounts, i - 1) + at = row
        BY <3>3, <3>4, ChunkBounds
      <3>6. m' = [m EXCEPT !.open = TRUE, !.index = i, !.at = at]
        BY <3>2
      <3> HIDE DEF at
      <3>7. m'.open = TRUE /\ m'.index = i /\ m'.at = at /\ m'.pc = "idle"
        BY <1>1, <3>6 DEF MultiInv, MultiTypeOK, MultiReader
      <3>8. i \in Nat /\ i >= 1 /\ i <= Len(rowCounts)
        BY <3>3, ChunkBounds
      <3>9. MultiTypeOK'
        BY <1>1, <1>2, <3>5, <3>6, <3>8 DEF MultiInv, MultiTypeOK, MultiReader
      <3>10. OpenInside' /\ NothingBehind'
        BY <1>1, <3>5, <3>7, <3>8 DEF OpenInside, NothingBehind
      <3>11. MultiPosition' = row
        BY <1>1, <3>5, <3>7 DEF MultiPosition
      <3> QED BY <3>9, <3>10, <3>11 DEF MultiInv
    <2> QED BY <2>1, <2>2
  <1>4. M!Seek
    BY <1>1, <1>3 DEF M!Seek, M!Sought
  <1> QED BY <1>2, <1>3, <1>4 DEF MultiStep, M!Next

\* A closed reader has no position.
LEMMA MultiCloseStep ==
  ASSUME MultiInv, MultiClose
  PROVE  MultiInv' /\ MultiStep
  <1>1. /\ rowCounts' = rowCounts /\ calls' = calls /\ got' = M!Closed
        /\ m' = [m EXCEPT !.pc = "closed", !.open = FALSE, !.index = 0]
    BY DEF MultiClose
  <1>2. m'.open = FALSE /\ m'.pc = "closed" /\ m'.index = 0
    BY <1>1 DEF MultiInv, MultiTypeOK, MultiReader
  <1>3. MultiInv'
    <2>1. MultiTypeOK'
      BY <1>1 DEF MultiInv, MultiTypeOK, MultiReader
    <2>2. OpenInside' /\ NothingBehind'
      BY <1>1, <1>2, ChunkBounds DEF OpenInside, NothingBehind
    <2> QED BY <2>1, <2>2 DEF MultiInv
  <1>4. MultiPosition' \in Nat
    BY <1>1, <1>2, <1>3, ChunkBounds DEF MultiInv, MultiTypeOK, MultiReader, MultiPosition
  <1>5. TotalRows' = TotalRows
    BY <1>1 DEF TotalRows
  <1> QED BY <1>1, <1>3, <1>4, <1>5 DEF MultiStep, M!Next, M!Close

\* Every step of the reader is one that SeekablePages allows, or none.
LEMMA MultiStepHolds == MultiInv /\ [MultiNext]_multiVars => MultiInv' /\ MultiStep
  <1> SUFFICES ASSUME MultiInv, [MultiNext]_multiVars PROVE MultiInv' /\ MultiStep
    OBVIOUS
  <1>1. CASE UNCHANGED multiVars
    BY <1>1 DEF multiVars, MultiInv, MultiTypeOK, OpenInside, NothingBehind, TotalRows,
                MultiPosition, MultiStep
  <1>2. CASE CallMultiSeek
    <2>1. PICK row \in 0 .. (TotalRows + 1) : MultiSeekToRow(row)
      BY <1>2 DEF CallMultiSeek
    <2>2. row \in Nat
      BY <2>1, ChunkBounds
    <2> QED BY <2>1, <2>2, MultiSeekStep
  <1> QED BY <1>1, <1>2, MultiReadPageStep, ChunkEndsStep, NextChunkStep, MultiEOFStep,
             MultiCloseStep DEF MultiNext

\* Several row groups read and seek like one, for every list of row groups,
\* nested or not, with empty chunks or without, and every size of pages: no row
\* is skipped or repeated at the end of a chunk, and a seek finds the same row
\* that reading from the first would have come to.
THEOREM MultiPagesImplementSeek == MultiSpec => MultiPagesSeek
  <1>1. MultiInit => MultiInv /\ M!Init
    BY MultiInvInit
  <1>2. MultiInv /\ [MultiNext]_multiVars => MultiInv'
    BY MultiStepHolds
  <1>3. MultiInv /\ [MultiNext]_multiVars
          => [M!Next /\ UNCHANGED TotalRows]_<<TotalRows, MultiPosition, got>>
    BY MultiStepHolds DEF MultiStep
  <1> QED BY <1>1, <1>2, <1>3, PTL DEF MultiSpec, MultiPagesSeek, M!Spec
(***************************************************************************)
(* The pages of a column chunk of a file.                                  *)
(***************************************************************************)
FileReader == [index : Nat, skip : Nat, dictionary : BOOLEAN, lastPage : Nat,
               lastPageIndex : Nat, serveLastPage : BOOLEAN, seekToRowStart : BOOLEAN,
               stream : Nat, dataPageOrd : Nat, dictPagePending : BOOLEAN,
               offsetIndex : BOOLEAN, pc : {"idle", "reading", "closed"}]

Budget == [calls : Nat, seeks : Nat, faults : Nat]

\* The buffered reader stands at a page, at the end, at the dictionary or is lost.
FileTypeOK ==
    /\ chunk \in Chunks
    /\ f \in FileReader
    /\ f.stream \in (0 .. NumPages(chunk)) \cup {DictPage, Inside}
    /\ f.lastPage # None => f.lastPage < NumPages(chunk)
    /\ budget \in Budget

\* The ordinal goes with the buffered reader.
OrdinalFollows ==
    /\ f.stream <= NumPages(chunk) => f.dataPageOrd = f.stream
    /\ f.stream = DictPage => f.dataPageOrd = 0
    /\ f.dictPagePending => f.stream > NumPages(chunk)

FileInv == FileTypeOK /\ OrdinalFollows

\* The caller seeks once between two reads and gives up after a failure, and
\* the offset index of a chunk with a dictionary is there from the beginning.
OneSeekAtATime ==
    /\ MaxSeeks <= 1 /\ ~RetryReads
    /\ \A k \in Chunks : k.dict => k.index # "lazy"

\* What the code believes of its place, where an offset index may use it, is true.
IndexFollows ==
    /\ chunk.index = "loaded" => f.offsetIndex
    /\ f.offsetIndex => chunk.index # "none"
    /\ f.stream = DictPage => chunk.dict /\ f.index = 0 /\ f.lastPage = None
    /\ chunk.index # "none" =>
          /\ f.stream <= NumPages(chunk) => f.index = f.stream
          /\ f.lastPage # None => f.lastPageIndex = f.lastPage

\* The last page lies behind the buffered reader, unless this has been moved and
\* there is a page to read where it is now.
LastPageBehind ==
    /\ f.serveLastPage => /\ f.offsetIndex /\ f.pc = "idle" /\ budget.seeks = 1
                          /\ f.lastPage # None /\ f.stream = f.lastPage + 1
    /\ (ret # P!Failed /\ f.lastPage # None /\ f.stream # f.lastPage + 1)
          => f.stream < NumPages(chunk) /\ (f.pc = "reading" \/ budget.seeks = 1)

\* A page that begins inside a row is only met after the page before it.
RowBegun ==
    /\ (f.pc = "reading" /\ ~f.seekToRowStart) => f.skip = 0
    /\ (/\ ret # P!Failed /\ f.stream < NumPages(chunk)
        /\ Data(chunk, f.stream).continues /\ f.skip = 0
        /\ f.pc = "reading" => ~f.seekToRowStart) => ret.kind = "page"

\* Only a failure leaves the buffered reader inside a page.
FailureEnds ==
    /\ f.pc = "reading" => ret # P!Failed
    /\ f.stream = Inside => f.pc = "idle" /\ ret = P!Failed
    /\ budget.seeks <= 1

PlaceInv == FileInv /\ IndexFollows /\ LastPageBehind /\ RowBegun /\ FailureEnds

\* The pages of a chunk lie one behind the other.
LEMMA PagesInOrder ==
  ASSUME NEW k \in Chunks
  PROVE  /\ NumPages(k) \in Nat /\ NumPages(k) < None /\ None \in Nat /\ RowsOf(k) \in Nat
         /\ FirstOf(k, 0) = 0 /\ FirstOf(k, NumPages(k)) = RowsOf(k)
         /\ \A i \in 0 .. NumPages(k) : FirstOf(k, i) \in Nat /\ FirstOf(k, i) <= RowsOf(k)
         /\ \A i \in 0 .. (NumPages(k) - 1) :
              /\ Data(k, i) \in PageType
              /\ FirstOf(k, i) = Data(k, i).first
              /\ FirstOf(k, i + 1) = Data(k, i).first + Data(k, i).rows
              /\ Data(k, i).continues => k.v1 /\ i > 0 /\ k.index = "none"
              /\ Data(k, i).rows = 0 => Data(k, i).continues
  <1> DEFINE L == NumPages(k)
  <1>1. /\ k.pages \in Seq(PageType) /\ L \in Nat /\ L < None /\ None \in Nat
        /\ \A i \in 1 .. L :
             /\ k.pages[i].first = IF i = 1 THEN 0 ELSE k.pages[i - 1].first + k.pages[i - 1].rows
             /\ k.pages[i].continues => k.v1 /\ i > 1 /\ k.index = "none"
             /\ k.pages[i].rows = 0 => k.pages[i].continues
    BY FilePagesAssumption DEF FilePagesAssumption, ChunkType, NumPages
  <1>2. \A i \in 1 .. L : k.pages[i] \in PageType
    BY <1>1 DEF NumPages
  <1>3. \A i \in 1 .. L : k.pages[i].first \in Nat /\ k.pages[i].rows \in Nat
    BY <1>2 DEF PageType
  <1>4. L > 0 => RowsOf(k) = k.pages[L].first + k.pages[L].rows
    <2> SUFFICES ASSUME L > 0 PROVE RowsOf(k) = k.pages[L].first + k.pages[L].rows
      OBVIOUS
    <2>1. k.pages # <<>> /\ (L - 1) + 1 = L
      BY <1>1 DEF NumPages
    <2> QED BY <2>1 DEF RowsOf, Data
  <1>5. L = 0 => RowsOf(k) = 0
    BY <1>1 DEF RowsOf, NumPages
  <1>6. RowsOf(k) \in Nat
    BY <1>1, <1>3, <1>4, <1>5
  <1>7. FirstOf(k, L) = RowsOf(k)
    BY <1>1 DEF FirstOf
  <1>8. ASSUME NEW i \in 0 .. (L - 1)
        PROVE  /\ Data(k, i) \in PageType
               /\ FirstOf(k, i) = Data(k, i).first
               /\ FirstOf(k, i + 1) = Data(k, i).first + Data(k, i).rows
               /\ Data(k, i).continues => k.v1 /\ i > 0 /\ k.index = "none"
               /\ Data(k, i).rows = 0 => Data(k, i).continues
    <2>1. i \in Nat /\ i < L /\ i + 1 \in 1 .. L /\ Data(k, i) = k.pages[i + 1]
      BY <1>1 DEF Data
    <2>2. FirstOf(k, i) = Data(k, i).first
      BY <2>1 DEF FirstOf
    <2>3. CASE i + 1 < L
      BY <1>1, <1>2, <2>1, <2>2, <2>3 DEF FirstOf, Data
    <2>4. CASE i + 1 = L
      BY <1>1, <1>2, <1>4, <1>7, <2>1, <2>2, <2>4
    <2> QED BY <1>1, <2>1, <2>3, <2>4
  <1>9. FirstOf(k, 0) = 0
    BY <1>1, <1>5, <1>7 DEF FirstOf, Data
  <1>10. \A i \in 0 .. L : FirstOf(k, i) \in Nat
    <2> SUFFICES ASSUME NEW i \in 0 .. L PROVE FirstOf(k, i) \in Nat
      OBVIOUS
    <2>1. CASE i = L
      BY <1>6, <1>7, <2>1
    <2>2. CASE i # L
      BY <1>1, <1>8, <2>2 DEF PageType
    <2> QED BY <2>1, <2>2
  <1>11. \A i \in 0 .. L : FirstOf(k, i) <= RowsOf(k)
    <2> DEFINE Behind(n) == n <= L => FirstOf(k, L - n) <= RowsOf(k)
               N == {n \in Nat : Behind(n)}
    <2>1. Behind(0)
      BY <1>1, <1>6, <1>7
    <2>2. ASSUME NEW n \in Nat, Behind(n) PROVE Behind(n + 1)
      <3> SUFFICES ASSUME n + 1 <= L PROVE FirstOf(k, L - (n + 1)) <= RowsOf(k)
        OBVIOUS
      <3>1. /\ L - (n + 1) \in 0 .. (L - 1) /\ L - n \in 0 .. L
            /\ (L - (n + 1)) + 1 = L - n
        BY <1>1
      <3>2. /\ FirstOf(k, L - n) = FirstOf(k, L - (n + 1)) + Data(k, L - (n + 1)).rows
            /\ Data(k, L - (n + 1)).rows \in Nat
        BY <1>8, <3>1 DEF PageType
      <3>3. FirstOf(k, L - n) <= RowsOf(k)
        BY <1>1, <2>2
      <3>4. FirstOf(k, L - (n + 1)) \in Nat /\ FirstOf(k, L - n) \in Nat
        BY <1>1, <1>10, <3>1
      <3> QED BY <1>6, <3>2, <3>3, <3>4
    <2> HIDE DEF Behind
    <2>3. N \in SUBSET Nat /\ 0 \in N /\ \A n \in N : n + 1 \in N
      BY <2>1, <2>2
    <2> HIDE DEF N
    <2>4. \A n \in Nat : Behind(n)
      BY <2>3, SetInduction DEF N
    <2>5. ASSUME NEW i \in 0 .. L PROVE FirstOf(k, i) <= RowsOf(k)
      BY <1>1, <2>4 DEF Behind
    <2> QED BY <2>5
  <1> QED BY <1>1, <1>6, <1>7, <1>8, <1>9, <1>10, <1>11

\* The page that a seek looks up is one of the chunk and does not begin behind
\* the row.
LEMMA TargetFound ==
  ASSUME chunk \in Chunks, chunk.pages # <<>>, NEW row \in Nat
  PROVE  /\ Target(row) \in 0 .. (NumPages(chunk) - 1)
         /\ Data(chunk, Target(row)).first <= row
  <1> DEFINE L == NumPages(chunk)
             S == {k \in 0 .. (L - 1) : Data(chunk, k).first <= row}
             R == {L - k : k \in S}
  <1>1. L \in Nat /\ L > 0
    BY FilePagesAssumption DEF FilePagesAssumption, ChunkType, NumPages
  <1>2. 0 \in S
    BY <1>1, PagesInOrder
  <1>3. R \in SUBSET Nat /\ R # {}
    BY <1>1, <1>2
  <1>4. PICK least \in R : \A y \in R : least <= y
    BY <1>3, LeastElement
  <1>5. \E x \in S : \A y \in S : x >= y
    <2>1. PICK x \in S : least = L - x
      BY <1>4
    <2>2. ASSUME NEW y \in S PROVE x >= y
      <3>1. L - y \in R
        OBVIOUS
      <3>2. least <= L - y
        BY <1>4, <3>1
      <3>3. x \in Int /\ y \in Int
        OBVIOUS
      <3> HIDE DEF S, R
      <3> QED BY <1>1, <2>1, <3>2, <3>3
    <2> QED BY <2>2
  <1>6. Target(row) \in S
    <2>1. Target(row) = Max(S)
      BY DEF Target
    <2> HIDE DEF S
    <2>2. Max(S) \in S
      BY <1>5 DEF Max
    <2> QED BY <2>1, <2>2
  <1> QED BY <1>6

\* The row at which a reader in state v stands.
PositionOf(k, v) ==
    IF v.serveLastPage /\ v.lastPage # None THEN Data(k, v.lastPage).first + v.skip
    ELSE IF v.stream = DictPage THEN v.skip
    ELSE IF v.stream = Inside THEN 0
    ELSE FirstOf(k, v.stream) + v.skip

\* The position of FilePages is that of its state, now and after a step.
LEMMA FilePositionIs ==
  FilePosition = PositionOf(chunk, f) /\ FilePosition' = PositionOf(chunk', f')
  <1>1. DictPage # Inside
    BY FilePagesAssumption DEF FilePagesAssumption, DictPage, Inside
  <1>2. FilePosition = PositionOf(chunk, f)
    BY <1>1 DEF FilePosition, PositionOf
  <1>3. FilePosition' = PositionOf(chunk', f')
    BY <1>1 DEF FilePosition, PositionOf
  <1> QED BY <1>2, <1>3

\* It is a row number.
LEMMA PositionOfType ==
  ASSUME NEW k \in Chunks, NEW v \in FileReader,
         v.stream \in (0 .. NumPages(k)) \cup {DictPage, Inside},
         v.lastPage # None => v.lastPage < NumPages(k)
  PROVE  PositionOf(k, v) \in Nat
  <1>1. v.skip \in Nat /\ v.lastPage \in Nat
    BY DEF FileReader
  <1>2. v.lastPage # None => Data(k, v.lastPage).first \in Nat
    <2> SUFFICES ASSUME v.lastPage # None PROVE Data(k, v.lastPage).first \in Nat
      OBVIOUS
    <2>1. v.lastPage \in 0 .. (NumPages(k) - 1)
      BY <1>1, PagesInOrder
    <2> QED BY <2>1, PagesInOrder DEF PageType
  <1>3. v.stream \in 0 .. NumPages(k) => FirstOf(k, v.stream) \in Nat
    BY PagesInOrder
  <1> QED BY <1>1, <1>2, <1>3 DEF PositionOf

\* The places that are no page are behind the pages and differ.
LEMMA PlacesDiffer ==
  ASSUME NEW k \in Chunks
  PROVE  /\ NumPages(k) \in Nat /\ None \in Nat /\ DictPage \in Nat /\ Inside \in Nat
         /\ NumPages(k) < None /\ None < DictPage /\ DictPage < Inside
  BY PagesInOrder DEF DictPage, Inside

\* Each counter goes up by itself.
LEMMA BudgetCounts ==
  ASSUME NEW b \in Budget
  PROVE  /\ [b EXCEPT !.calls = @ + 1, !.seeks = 0] \in Budget
         /\ [b EXCEPT !.calls = @ + 1, !.seeks = 0].seeks = 0
         /\ [b EXCEPT !.calls = @ + 1, !.seeks = @ + 1] \in Budget
         /\ [b EXCEPT !.calls = @ + 1, !.seeks = @ + 1].seeks = b.seeks + 1
         /\ [b EXCEPT !.calls = @ + 1] \in Budget
         /\ [b EXCEPT !.calls = @ + 1].seeks = b.seeks
         /\ [b EXCEPT !.faults = @ + 1] \in Budget
         /\ [b EXCEPT !.faults = @ + 1].seeks = b.seeks
  <1>1. b.calls + 1 \in Nat /\ b.seeks + 1 \in Nat /\ b.faults + 1 \in Nat
    BY DEF Budget
  <1> QED BY <1>1 DEF Budget

\* A reader that was just opened stands at the first page.
LEMMA OpenedIs ==
  ASSUME NEW k \in Chunks
  PROVE  /\ Opened(k) \in FileReader
         /\ Opened(k).stream = IF k.dict THEN DictPage ELSE 0
         /\ Opened(k).skip = 0 /\ Opened(k).index = 0 /\ Opened(k).lastPage = None
         /\ Opened(k).dataPageOrd = 0 /\ (Opened(k).dictPagePending => k.dict)
         /\ Opened(k).serveLastPage = FALSE /\ Opened(k).seekToRowStart = FALSE
         /\ Opened(k).pc = "idle" /\ (Opened(k).offsetIndex <=> k.index = "loaded")
         /\ PositionOf(k, Opened(k)) = 0
  <1>1. k.dict \in BOOLEAN /\ k.encrypted \in BOOLEAN
    BY FilePagesAssumption DEF FilePagesAssumption, ChunkType
  <1>2. None \in Nat /\ DictPage \in Nat /\ DictPage # Inside /\ DictPage # 0 /\ Inside # 0
    BY PlacesDiffer
  <1>3. Opened(k) \in FileReader
    BY <1>1, <1>2 DEF Opened, FileReader
  <1>4. PositionOf(k, Opened(k)) = 0
    BY <1>2, PagesInOrder DEF PositionOf, Opened
  <1> QED BY <1>3, <1>4 DEF Opened

\* A chunk is opened at its first page or its dictionary, with ordinal 0.
LEMMA FileInvInit == FilePagesInit => FileInv
  <1> SUFFICES ASSUME FilePagesInit PROVE FileInv
    OBVIOUS
  <1>1. /\ chunk \in Chunks /\ f = Opened(chunk)
        /\ budget = [calls |-> 0, seeks |-> 0, faults |-> 0]
    BY DEF FilePagesInit, FilePagesInitOn
  <1>2. /\ f \in FileReader /\ f.stream = IF chunk.dict THEN DictPage ELSE 0
        /\ f.lastPage = None /\ f.dataPageOrd = 0
        /\ (f.dictPagePending => chunk.dict)
    BY <1>1, OpenedIs
  <1> USE PlacesDiffer
  <1>3. FileTypeOK
    BY <1>1, <1>2 DEF FileTypeOK, Budget
  <1>4. OrdinalFollows
    BY <1>1, <1>2 DEF OrdinalFollows
  <1> QED BY <1>3, <1>4 DEF FileInv

\* One more page was decoded: the buffered reader stands behind it.
LEMMA DecodedIs ==
  ASSUME FileInv, f.stream < NumPages(chunk)
  PROVE  /\ f.stream \in 0 .. (NumPages(chunk) - 1) /\ f.dataPageOrd = f.stream
         /\ Decoded \in FileReader
         /\ Decoded.stream = f.stream + 1 /\ Decoded.dataPageOrd = f.stream + 1
         /\ Decoded.lastPage = f.stream /\ Decoded.lastPageIndex = f.index
         /\ Decoded.index = f.index + 1
         /\ Decoded.skip = f.skip /\ Decoded.serveLastPage = f.serveLastPage
         /\ Decoded.seekToRowStart = f.seekToRowStart /\ Decoded.offsetIndex = f.offsetIndex
         /\ Decoded.dictPagePending = f.dictPagePending /\ Decoded.pc = f.pc
  <1>1. chunk \in Chunks /\ f \in FileReader
    BY DEF FileInv, FileTypeOK
  <1>2. f.stream \in 0 .. (NumPages(chunk) - 1) /\ f.dataPageOrd = f.stream
    BY <1>1, PlacesDiffer DEF FileInv, FileTypeOK, OrdinalFollows
  <1>3. chunk.dict \in BOOLEAN /\ f.stream \in Nat
    BY <1>1, <1>2, FilePagesAssumption DEF FilePagesAssumption, ChunkType, FileReader
  <1>4. Decoded \in FileReader
    <2>1. (f.dictionary \/ chunk.dict) \in BOOLEAN
      OBVIOUS
    <2>2. f.index + 1 \in Nat /\ f.stream + 1 \in Nat /\ f.dataPageOrd + 1 \in Nat /\ f.index \in Nat
      BY <1>1 DEF FileReader
    <2> DEFINE dictionary == f.dictionary \/ chunk.dict
    <2> HIDE DEF dictionary
    <2>3. Decoded = [f EXCEPT !.dictionary = dictionary, !.stream = f.stream + 1,
                              !.dataPageOrd = f.dataPageOrd + 1, !.lastPage = f.stream,
                              !.lastPageIndex = f.index, !.index = f.index + 1]
      BY <1>1 DEF Decoded, dictionary, FileReader
    <2> QED BY <1>1, <1>3, <2>1, <2>2, <2>3 DEF FileReader, dictionary
  <1> QED BY <1>1, <1>2, <1>4 DEF Decoded, FileReader

\* AtDataPage leaves one of these states.
LEMMA AtDataPageLeaves ==
  ASSUME FileInv, AtDataPage
  PROVE  /\ f.pc = "reading" /\ f.stream < NumPages(chunk)
         /\ UNCHANGED <<chunk, budget>>
         /\ f' \in FileReader
         /\ f'.stream = f.stream + 1 /\ f'.dataPageOrd = f.dataPageOrd + 1
         /\ f'.lastPage = f.stream /\ f'.lastPageIndex = f.index /\ f'.index = f.index + 1
         /\ f'.serveLastPage = f.serveLastPage /\ f'.seekToRowStart = f.seekToRowStart
         /\ f'.offsetIndex = f.offsetIndex /\ f'.dictPagePending = f.dictPagePending
         /\ LET page == Data(chunk, f.stream) IN
            \/ /\ f.skip = 0 /\ (~f.seekToRowStart \/ ~chunk.v1)
               /\ ret' = Whole(f.stream) /\ f'.skip = 0 /\ f'.pc = "idle"
            \/ /\ f.skip = 0 /\ f.seekToRowStart /\ page.rows = 0
               /\ ret' = ret /\ f'.skip = 0 /\ f'.pc = "reading"
            \/ /\ f.skip >= 0 /\ page.rows > f.skip
               /\ ret' = Slice(f.stream, f.skip) /\ f'.skip = 0 /\ f'.pc = "idle"
            \/ /\ f.skip > 0 /\ page.rows <= f.skip
               /\ ret' = ret /\ f'.skip = f.skip - page.rows /\ f'.pc = "reading"
  <1> DEFINE page == Data(chunk, f.stream)
  <1>1. f.pc = "reading" /\ f.stream < NumPages(chunk) /\ UNCHANGED <<chunk, budget>>
    BY DEF AtDataPage
  <1>2. f \in FileReader /\ chunk \in Chunks /\ f.skip \in Nat
    BY DEF FileInv, FileTypeOK, FileReader
  <1>3. /\ f.dataPageOrd = f.stream /\ Decoded \in FileReader
        /\ Decoded.stream = f.stream + 1 /\ Decoded.dataPageOrd = f.stream + 1
        /\ Decoded.lastPage = f.stream /\ Decoded.lastPageIndex = f.index
        /\ Decoded.index = f.index + 1
        /\ Decoded.skip = f.skip /\ Decoded.serveLastPage = f.serveLastPage
        /\ Decoded.seekToRowStart = f.seekToRowStart /\ Decoded.offsetIndex = f.offsetIndex
        /\ Decoded.dictPagePending = f.dictPagePending /\ Decoded.pc = f.pc
    BY <1>1, DecodedIs
  <1>4. page.rows \in Nat
    BY <1>1, <1>2, DecodedIs, PagesInOrder DEF PageType
  <1> DEFINE d == Decoded
  <1> HIDE DEF d, page
  <1>5. \/ /\ f.skip = 0 /\ (~f.seekToRowStart \/ ~chunk.v1)
           /\ ret' = Whole(f.stream) /\ f' = [d EXCEPT !.skip = 0, !.pc = "idle"]
        \/ /\ f.skip = 0 /\ f.seekToRowStart /\ page.rows = 0
           /\ ret' = ret /\ f' = d
        \/ /\ f.skip = 0 /\ page.rows > f.skip
           /\ ret' = Slice(f.stream, f.skip) /\ f' = [d EXCEPT !.skip = 0, !.pc = "idle"]
        \/ /\ f.skip > 0 /\ page.rows <= f.skip
           /\ ret' = ret /\ f' = [d EXCEPT !.skip = @ - page.rows]
        \/ /\ f.skip > 0 /\ page.rows > f.skip
           /\ ret' = Slice(f.stream, f.skip) /\ f' = [d EXCEPT !.skip = 0, !.pc = "idle"]
    BY DEF AtDataPage, Returned, d, page
  <1>6. /\ d \in FileReader
        /\ d.stream = f.stream + 1 /\ d.dataPageOrd = f.stream + 1
        /\ d.lastPage = f.stream /\ d.lastPageIndex = f.index /\ d.index = f.index + 1
        /\ d.skip = f.skip /\ d.serveLastPage = f.serveLastPage
        /\ d.seekToRowStart = f.seekToRowStart /\ d.offsetIndex = f.offsetIndex
        /\ d.dictPagePending = f.dictPagePending /\ d.pc = "reading"
    BY <1>1, <1>3 DEF d
  <1>7. CASE f' = [d EXCEPT !.skip = 0, !.pc = "idle"]
    <2>1. /\ f' \in FileReader /\ f'.skip = 0 /\ f'.pc = "idle"
          /\ f'.stream = d.stream /\ f'.dataPageOrd = d.dataPageOrd
          /\ f'.lastPage = d.lastPage /\ f'.lastPageIndex = d.lastPageIndex /\ f'.index = d.index
          /\ f'.serveLastPage = d.serveLastPage /\ f'.seekToRowStart = d.seekToRowStart
          /\ f'.offsetIndex = d.offsetIndex /\ f'.dictPagePending = d.dictPagePending
      BY <1>6, <1>7 DEF FileReader
    <2>2. \/ /\ f.skip = 0 /\ (~f.seekToRowStart \/ ~chunk.v1) /\ ret' = Whole(f.stream)
          \/ /\ page.rows > f.skip /\ ret' = Slice(f.stream, f.skip)
          \/ d = [d EXCEPT !.skip = 0, !.pc = "idle"]
          \/ [d EXCEPT !.skip = @ - page.rows] = [d EXCEPT !.skip = 0, !.pc = "idle"]
      BY <1>5, <1>7
    <2>3. d # [d EXCEPT !.skip = 0, !.pc = "idle"]
      BY <1>6 DEF FileReader
    <2>4. [d EXCEPT !.skip = @ - page.rows] # [d EXCEPT !.skip = 0, !.pc = "idle"]
      BY <1>6 DEF FileReader
    <2> QED BY <1>1, <1>2, <1>3, <1>6, <2>1, <2>2, <2>3, <2>4 DEF page
  <1>8. CASE f.skip = 0 /\ f.seekToRowStart /\ page.rows = 0 /\ ret' = ret /\ f' = d
    BY <1>1, <1>3, <1>6, <1>8 DEF page
  <1>9. CASE f.skip > 0 /\ page.rows <= f.skip /\ ret' = ret /\ f' = [d EXCEPT !.skip = @ - page.rows]
    BY <1>1, <1>2, <1>3, <1>4, <1>6, <1>9 DEF FileReader, page
  <1> QED BY <1>5, <1>7, <1>8, <1>9

\* The buffered reader and the last page stay as they are.
ReaderStays ==
    /\ f'.stream = f.stream /\ f'.dataPageOrd = f.dataPageOrd
    /\ f'.dictPagePending = f.dictPagePending /\ f'.offsetIndex = f.offsetIndex
    /\ f'.lastPage = f.lastPage /\ f'.lastPageIndex = f.lastPageIndex

\* ReadPage begins with the last page or with the loop.
LEMMA ReadPageLeaves ==
  ASSUME FileInv, ReadPage
  PROVE  /\ f.pc = "idle" /\ chunk' = chunk
         /\ budget' \in Budget /\ budget'.seeks = 0
         /\ f' \in FileReader /\ ReaderStays
         /\ f'.seekToRowStart <=> f.skip > 0
         /\ LET page == Data(chunk, f.lastPage) IN
            \/ /\ ~(f.serveLastPage /\ f.lastPage # None)
               /\ f'.serveLastPage = f.serveLastPage /\ f'.index = f.index
               /\ f'.skip = f.skip /\ f'.pc = "reading" /\ ret' = ret
            \/ /\ f.serveLastPage /\ f.lastPage # None /\ f.skip < page.rows
               /\ ~f'.serveLastPage /\ f'.index = f.lastPageIndex + 1
               /\ f'.skip = 0 /\ f'.pc = "idle" /\ ret' = Slice(f.lastPage, f.skip)
            \/ /\ f.serveLastPage /\ f.lastPage # None /\ f.skip >= page.rows
               /\ ~f'.serveLastPage /\ f'.index = f.lastPageIndex + 1
               /\ f'.skip = f.skip - page.rows /\ f'.pc = "reading" /\ ret' = ret
  <1> DEFINE page == Data(chunk, f.lastPage)
             sought == f.skip > 0
             serve == f.serveLastPage /\ f.lastPage # None
  <1>1. f \in FileReader /\ chunk \in Chunks /\ budget \in Budget
    BY DEF FileInv, FileTypeOK
  <1>2. f.skip \in Nat /\ f.lastPageIndex + 1 \in Nat /\ sought \in BOOLEAN
    BY <1>1 DEF FileReader
  <1>3. serve => page.rows \in Nat
    BY <1>1, PlacesDiffer, PagesInOrder DEF FileInv, FileTypeOK, FileReader, PageType
  <1>4. f.pc = "idle" /\ chunk' = chunk /\ budget' = [budget EXCEPT !.calls = @ + 1, !.seeks = 0]
    BY DEF ReadPage, MayCall, Called
  <1>5. budget' \in Budget /\ budget'.seeks = 0
    BY <1>1, <1>4, BudgetCounts
  <1>6. \/ /\ ~serve /\ ret' = ret
           /\ f' = [f EXCEPT !.seekToRowStart = sought, !.pc = "reading"]
        \/ /\ serve /\ f.skip < page.rows /\ ret' = Slice(f.lastPage, f.skip)
           /\ f' = [f EXCEPT !.seekToRowStart = sought, !.serveLastPage = FALSE,
                             !.index = f.lastPageIndex + 1, !.skip = 0]
        \/ /\ serve /\ f.skip >= page.rows /\ ret' = ret
           /\ f' = [f EXCEPT !.seekToRowStart = sought, !.serveLastPage = FALSE,
                             !.index = f.lastPageIndex + 1, !.skip = f.skip - page.rows,
                             !.pc = "reading"]
    BY <1>1 DEF ReadPage, FileReader
  <1> HIDE DEF sought, serve, page
  <1>7. CASE ~serve /\ ret' = ret /\ f' = [f EXCEPT !.seekToRowStart = sought, !.pc = "reading"]
    BY <1>1, <1>2, <1>4, <1>5, <1>7 DEF FileReader, ReaderStays, sought, serve
  <1>8. CASE /\ serve /\ f.skip < page.rows /\ ret' = Slice(f.lastPage, f.skip)
             /\ f' = [f EXCEPT !.seekToRowStart = sought, !.serveLastPage = FALSE,
                               !.index = f.lastPageIndex + 1, !.skip = 0]
    BY <1>1, <1>2, <1>4, <1>5, <1>8 DEF FileReader, ReaderStays, sought, serve, page
  <1>9. CASE /\ serve /\ f.skip >= page.rows /\ ret' = ret
             /\ f' = [f EXCEPT !.seekToRowStart = sought, !.serveLastPage = FALSE,
                               !.index = f.lastPageIndex + 1, !.skip = f.skip - page.rows,
                               !.pc = "reading"]
    <2>1. f.skip - page.rows \in Nat
      BY <1>2, <1>3, <1>9
    <2>2. /\ f' \in FileReader /\ ReaderStays /\ f'.seekToRowStart = sought
          /\ f'.serveLastPage = FALSE /\ f'.index = f.lastPageIndex + 1
          /\ f'.skip = f.skip - page.rows /\ f'.pc = "reading"
      BY <1>1, <1>2, <1>9, <2>1 DEF FileReader, ReaderStays
    <2> QED BY <1>4, <1>5, <1>9, <2>2 DEF sought, serve, page
  <1> QED BY <1>6, <1>7, <1>8, <1>9

\* SeekToRow, with and without an offset index.
LEMMA SeekLeaves ==
  ASSUME FileInv, NEW row \in Nat, SeekToRow(row)
  PROVE  /\ f.pc = "idle" /\ f'.pc = "idle" /\ MayGoOn /\ chunk' = chunk
         /\ budget.seeks < MaxSeeks /\ budget'.seeks = budget.seeks + 1
         /\ budget' \in Budget
         /\ f' \in FileReader
         /\ f'.lastPage = f.lastPage /\ f'.lastPageIndex = f.lastPageIndex
         /\ f'.offsetIndex = f.offsetIndex
         /\ LET target == Target(row) IN
            \/ /\ ~f.offsetIndex /\ ret' = P!Sought(row)
               /\ f'.stream = 0 /\ f'.dataPageOrd = 0 /\ ~f'.dictPagePending
               /\ f'.skip = row /\ f'.serveLastPage = f.serveLastPage
               /\ ~chunk.dict => f'.index = 0
            \/ /\ f.offsetIndex /\ chunk.pages = <<>> /\ row = 0 /\ ret' = P!Sought(row)
               /\ ReaderStays /\ f'.index = f.index /\ f'.skip = row
               /\ f'.serveLastPage = f.serveLastPage
            \/ /\ f.offsetIndex /\ chunk.pages = <<>> /\ ret' = P!OutOfRange(row) /\ f' = f
            \/ /\ f.offsetIndex /\ chunk.pages # <<>> /\ ret' = P!Sought(row)
               /\ f'.skip = row - Data(chunk, target).first
               /\ \/ /\ f.lastPage # None /\ target = f.lastPageIndex
                     /\ f'.serveLastPage /\ ReaderStays /\ f'.index = f.index
                  \/ /\ f.index = target /\ f'.serveLastPage = f.serveLastPage
                     /\ ReaderStays /\ f'.index = f.index
                  \/ /\ f'.index = target /\ f'.serveLastPage = f.serveLastPage
                     /\ f'.stream = target /\ f'.dataPageOrd = target /\ ~f'.dictPagePending
  <1> DEFINE target == Target(row)
             skip == row - Data(chunk, target).first
             from == IF chunk.dict THEN 1 ELSE 0
  <1>1. f \in FileReader /\ chunk \in Chunks /\ budget \in Budget
    BY DEF FileInv, FileTypeOK
  <1>2. /\ f.pc = "idle" /\ MayGoOn /\ chunk' = chunk /\ budget.seeks < MaxSeeks
        /\ budget' = [budget EXCEPT !.calls = @ + 1, !.seeks = @ + 1]
    BY DEF SeekToRow, MayCall
  <1>3. /\ budget' \in Budget
        /\ budget'.seeks = budget.seeks + 1
    BY <1>1, <1>2, BudgetCounts
  <1>4. chunk.pages # <<>> => target \in Nat /\ skip \in Nat
    <2> SUFFICES ASSUME chunk.pages # <<>> PROVE target \in Nat /\ skip \in Nat
      OBVIOUS
    <2>1. target \in 0 .. (NumPages(chunk) - 1) /\ Data(chunk, target).first <= row
      BY <1>1, TargetFound
    <2>2. Data(chunk, target).first \in Nat
      BY <1>1, <2>1, PagesInOrder DEF PageType
    <2> HIDE DEF target
    <2> QED BY <2>1, <2>2
  <1>5. from \in Nat /\ (~chunk.dict => from = 0)
    OBVIOUS
  <1>6. \/ /\ ~f.offsetIndex /\ ret' = P!Sought(row)
           /\ f' = [f EXCEPT !.stream = 0, !.skip = row, !.index = from,
                             !.dataPageOrd = 0, !.dictPagePending = FALSE]
        \/ /\ f.offsetIndex /\ chunk.pages = <<>> /\ row = 0 /\ ret' = P!Sought(row)
           /\ f' = [f EXCEPT !.skip = 0]
        \/ /\ f.offsetIndex /\ chunk.pages = <<>> /\ ret' = P!OutOfRange(row) /\ f' = f
        \/ /\ f.offsetIndex /\ chunk.pages # <<>> /\ ret' = P!Sought(row)
           /\ f' = SoughtByIndex(row)
    BY DEF SeekToRow, SoughtByScan
  <1>7. CASE /\ ~f.offsetIndex /\ ret' = P!Sought(row)
             /\ f' = [f EXCEPT !.stream = 0, !.skip = row, !.index = from,
                               !.dataPageOrd = 0, !.dictPagePending = FALSE]
    <2> HIDE DEF from
    <2>1. /\ f' \in FileReader /\ f'.stream = 0 /\ f'.dataPageOrd = 0 /\ f'.dictPagePending = FALSE
          /\ f'.skip = row /\ f'.serveLastPage = f.serveLastPage /\ f'.pc = f.pc
          /\ f'.lastPage = f.lastPage /\ f'.lastPageIndex = f.lastPageIndex
          /\ f'.offsetIndex = f.offsetIndex /\ f'.index = from
      BY <1>1, <1>5, <1>7 DEF FileReader
    <2> QED BY <1>2, <1>3, <1>5, <1>7, <2>1
  <1>8. CASE /\ f.offsetIndex /\ chunk.pages = <<>> /\ row = 0 /\ ret' = P!Sought(row)
             /\ f' = [f EXCEPT !.skip = 0]
    BY <1>1, <1>2, <1>3, <1>8 DEF FileReader, ReaderStays
  <1>9. CASE f.offsetIndex /\ chunk.pages = <<>> /\ ret' = P!OutOfRange(row) /\ f' = f
    BY <1>1, <1>2, <1>3, <1>9
  <1>10. CASE /\ f.offsetIndex /\ chunk.pages # <<>> /\ ret' = P!Sought(row)
              /\ f' = SoughtByIndex(row)
    <2>1. \/ /\ f.lastPage # None /\ target = f.lastPageIndex
             /\ f' = [[f EXCEPT !.skip = skip] EXCEPT !.serveLastPage = TRUE]
          \/ f.index = target /\ f' = [f EXCEPT !.skip = skip]
          \/ f' = [[f EXCEPT !.skip = skip] EXCEPT !.index = target, !.stream = target,
                             !.dataPageOrd = target, !.dictPagePending = FALSE]
      BY <1>10 DEF SoughtByIndex
    <2>2. target \in Nat /\ skip \in Nat
      BY <1>4, <1>10
    <2> HIDE DEF skip, target
    <2>3. CASE /\ f.lastPage # None /\ target = f.lastPageIndex
               /\ f' = [[f EXCEPT !.skip = skip] EXCEPT !.serveLastPage = TRUE]
      BY <1>1, <1>10, <1>2, <1>3, <2>2, <2>3 DEF FileReader, ReaderStays, skip, target
    <2>4. CASE f.index = target /\ f' = [f EXCEPT !.skip = skip]
      BY <1>1, <1>10, <1>2, <1>3, <2>2, <2>4 DEF FileReader, ReaderStays, skip, target
    <2>5. CASE f' = [[f EXCEPT !.skip = skip] EXCEPT !.index = target, !.stream = target,
                               !.dataPageOrd = target, !.dictPagePending = FALSE]
      <3>1. /\ f' \in FileReader /\ f'.index = target /\ f'.skip = skip
            /\ f'.stream = target /\ f'.dataPageOrd = target /\ f'.dictPagePending = FALSE
            /\ f'.serveLastPage = f.serveLastPage /\ f'.pc = f.pc
            /\ f'.lastPage = f.lastPage /\ f'.lastPageIndex = f.lastPageIndex
            /\ f'.offsetIndex = f.offsetIndex
        BY <1>1, <2>2, <2>5 DEF FileReader
      <3> QED BY <1>2, <1>3, <1>10, <2>5, <3>1 DEF skip, target
    <2> QED BY <2>1, <2>3, <2>4, <2>5
  <1> QED BY <1>6, <1>7, <1>8, <1>9, <1>10

\* Every action leaves the buffered reader at a place, with its ordinal.
LEMMA FileInvStep == FileInv /\ [FilePagesNext]_fileVars => FileInv'
  <1> SUFFICES ASSUME FileInv, [FilePagesNext]_fileVars PROVE FileInv'
    OBVIOUS
  <1>0. /\ chunk \in Chunks /\ f \in FileReader /\ budget \in Budget
        /\ f.stream \in (0 .. NumPages(chunk)) \cup {DictPage, Inside}
        /\ f.lastPage # None => f.lastPage < NumPages(chunk)
        /\ f.stream <= NumPages(chunk) => f.dataPageOrd = f.stream
        /\ f.stream = DictPage => f.dataPageOrd = 0
        /\ f.dictPagePending => f.stream > NumPages(chunk)
    BY DEF FileInv, FileTypeOK, OrdinalFollows
  <1> USE PlacesDiffer
  <1>1. CASE ReadPage
    BY <1>0, <1>1, ReadPageLeaves DEF ReaderStays, FileInv, FileTypeOK, OrdinalFollows
  <1>2. CASE AtDictPage
    <2>1. /\ f.stream = DictPage /\ UNCHANGED <<chunk, budget>>
          /\ f' = [f EXCEPT !.dictionary = TRUE, !.stream = 0, !.dictPagePending = FALSE]
      BY <1>2 DEF AtDictPage
    <2>2. /\ f' \in FileReader /\ f'.stream = 0 /\ f'.dictPagePending = FALSE
          /\ f'.dataPageOrd = f.dataPageOrd /\ f'.lastPage = f.lastPage
      BY <1>0, <2>1 DEF FileReader
    <2> QED BY <1>0, <2>1, <2>2 DEF FileInv, FileTypeOK, OrdinalFollows
  <1>3. CASE AtEnd
    BY <1>0, <1>3 DEF AtEnd, FileReader, ReaderStays, FileInv, FileTypeOK, OrdinalFollows
  <1>4. CASE AtDataPage
    BY <1>0, <1>4, AtDataPageLeaves DEF FileInv, FileTypeOK, OrdinalFollows
  <1>5. CASE ReadPageFails
    <2>1. /\ chunk' = chunk
          /\ budget' \in {budget, [budget EXCEPT !.faults = @ + 1]}
          /\ \E s \in {f.stream, Inside} : f' = [f EXCEPT !.stream = s, !.pc = "idle"]
      <3>1. f.stream \in {f.stream, Inside} /\ [f EXCEPT !.pc = "idle"] = [f EXCEPT !.stream = f.stream, !.pc = "idle"]
        BY <1>0 DEF FileReader
      <3> QED BY <1>5, <3>1 DEF ReadPageFails
    <2>2. budget' \in Budget
      BY <1>0, <2>1, BudgetCounts
    <2>3. PICK s \in {f.stream, Inside} : f' = [f EXCEPT !.stream = s, !.pc = "idle"]
      BY <2>1
    <2>4. s \in Nat
      BY <1>0, <2>3 DEF FileReader
    <2>5. /\ f' \in FileReader /\ f'.stream = s /\ f'.dictPagePending = f.dictPagePending
          /\ f'.dataPageOrd = f.dataPageOrd /\ f'.lastPage = f.lastPage
      BY <1>0, <2>3, <2>4 DEF FileReader
    <2> QED BY <1>0, <2>1, <2>2, <2>3, <2>5 DEF FileInv, FileTypeOK, OrdinalFollows
  <1>6. CASE CallSeekToRow
    <2>1. PICK row \in 0 .. (RowsOf(chunk) + 1) : SeekToRow(row)
      BY <1>6 DEF CallSeekToRow
    <2>2. row \in Nat
      BY <2>1
    <2>3. /\ chunk' = chunk /\ budget' \in Budget /\ f' \in FileReader /\ f'.lastPage = f.lastPage
          /\ \/ ReaderStays \/ f' = f
             \/ f'.stream = 0 /\ f'.dataPageOrd = 0 /\ ~f'.dictPagePending
             \/ /\ chunk.pages # <<>> /\ f'.stream = Target(row) /\ f'.dataPageOrd = Target(row)
                /\ ~f'.dictPagePending
      BY <2>1, <2>2, SeekLeaves
    <2>4. chunk.pages # <<>> => Target(row) \in 0 .. (NumPages(chunk) - 1)
      BY <1>0, <2>2, TargetFound
    <2>5. CASE ReaderStays \/ f' = f
      BY <1>0, <2>3, <2>5 DEF ReaderStays, FileInv, FileTypeOK, OrdinalFollows
    <2>6. CASE f'.stream = 0 /\ f'.dataPageOrd = 0 /\ ~f'.dictPagePending
      BY <1>0, <2>3, <2>6 DEF FileInv, FileTypeOK, OrdinalFollows
    <2>7. CASE /\ chunk.pages # <<>> /\ f'.stream = Target(row) /\ f'.dataPageOrd = Target(row)
               /\ ~f'.dictPagePending
      BY <1>0, <2>3, <2>4, <2>7 DEF FileInv, FileTypeOK, OrdinalFollows
    <2> QED BY <2>3, <2>5, <2>6, <2>7
  <1>7. CASE ReadDictionary
    BY <1>0, <1>7, BudgetCounts DEF ReadDictionary, FileReader, ReaderStays, FileInv, FileTypeOK,
      OrdinalFollows
  <1>8. CASE ReadOffsetIndex
    BY <1>0, <1>8 DEF ReadOffsetIndex, FileReader, FileInv, FileTypeOK, OrdinalFollows
  <1>9. CASE ClosePages
    <2> DEFINE opened == Opened(chunk)
    <2>1. UNCHANGED <<chunk, budget>> /\ f' = [opened EXCEPT !.offsetIndex = f.offsetIndex, !.pc = "closed"]
      BY <1>9 DEF ClosePages
    <2>2. /\ opened \in FileReader /\ opened.stream = IF chunk.dict THEN DictPage ELSE 0
          /\ opened.lastPage = None /\ opened.dataPageOrd = 0 /\ (opened.dictPagePending => chunk.dict)
      BY <1>0, OpenedIs
    <2> HIDE DEF opened
    <2>3. /\ f' \in FileReader /\ f'.stream = opened.stream /\ f'.dictPagePending = opened.dictPagePending
          /\ f'.dataPageOrd = opened.dataPageOrd /\ f'.lastPage = opened.lastPage
      BY <1>0, <2>1, <2>2 DEF FileReader
    <2> QED BY <1>0, <2>1, <2>2, <2>3 DEF FileInv, FileTypeOK, OrdinalFollows
  <1>10. CASE UNCHANGED fileVars
    BY <1>0, <1>10 DEF fileVars, FileInv, FileTypeOK, OrdinalFollows
  <1> QED BY <1>1, <1>2, <1>3, <1>4, <1>5, <1>6, <1>7, <1>8, <1>9, <1>10 DEF FilePagesNext, CallReadPage

\* For any chunk, any order of reads and seeks, retries included, and whenever
\* the file fails: the ordinal by which FilePages authenticates a page is the
\* page's own, and the dictionary page never takes its place.
THEOREM PagesDecipherableCorrect == FilePagesSpec => []PagesDecipherable
  <1>1. FileInv => PagesDecipherable
    <2> SUFFICES ASSUME FileInv, f.stream < NumPages(chunk) PROVE ~Undecipherable
      BY DEF PagesDecipherable
    <2>1. chunk \in Chunks /\ f \in FileReader
      BY DEF FileInv, FileTypeOK
    <2>2. f.dataPageOrd = f.stream /\ ~f.dictPagePending
      BY <2>1, PlacesDiffer DEF FileInv, FileTypeOK, OrdinalFollows, FileReader
    <2> QED BY <2>2 DEF Undecipherable
  <1> QED BY <1>1, FileInvInit, FileInvStep, PTL DEF FilePagesSpec

-----------------------------------------------------------------------------
(* FilePages implements SeekablePages.                                     *)

PlaceStep ==
    [P!Next /\ UNCHANGED RowsOf(chunk)]_<<RowsOf(chunk), FilePosition, ret>>

\* The kinds of answers differ.
LEMMA AnswersDiffer ==
  /\ P!Failed.kind = "error" /\ P!EOF.kind = "eof" /\ P!Closed.kind = "closed"
  /\ \A n : P!Sought(n).kind = "seek" /\ P!OutOfRange(n).kind = "range"
  /\ \A a, b, d : P!Page(a, b, d).kind = "page"
  /\ "error" # "eof" /\ "error" # "closed" /\ "error" # "seek" /\ "error" # "range" /\ "error" # "page"
  BY DEF P!Failed, P!EOF, P!Closed, P!Sought, P!OutOfRange, P!Page

\* An open chunk is at its first row.
LEMMA PlaceInvInit == FilePagesInit /\ OneSeekAtATime => PlaceInv /\ P!Init
  <1> SUFFICES ASSUME FilePagesInit, OneSeekAtATime PROVE PlaceInv /\ P!Init
    OBVIOUS
  <1>1. /\ chunk \in Chunks /\ f = Opened(chunk) /\ ret = P!Sought(0)
        /\ budget = [calls |-> 0, seeks |-> 0, faults |-> 0]
    BY DEF FilePagesInit, FilePagesInitOn
  <1>2. /\ f \in FileReader /\ f.stream = IF chunk.dict THEN DictPage ELSE 0
        /\ f.lastPage = None /\ f.index = 0 /\ f.skip = 0
        /\ f.serveLastPage = FALSE /\ f.pc = "idle" /\ (f.offsetIndex <=> chunk.index = "loaded")
    BY <1>1, OpenedIs
  <1>3. ret # P!Failed /\ budget.seeks = 0
    BY <1>1, AnswersDiffer
  <1> USE PlacesDiffer
  <1>4. FileInv
    BY FileInvInit
  <1>5. IndexFollows
    BY <1>1, <1>2 DEF IndexFollows
  <1>6. LastPageBehind
    BY <1>2 DEF LastPageBehind
  <1>7. RowBegun
    BY <1>1, <1>2, PagesInOrder DEF RowBegun
  <1>8. FailureEnds
    BY <1>1, <1>2, <1>3 DEF FailureEnds
  <1>9. P!Init
    BY <1>1, PagesInOrder, OpenedIs, FilePositionIs DEF P!Init
  <1> QED BY <1>4, <1>5, <1>6, <1>7, <1>8, <1>9 DEF PlaceInv

\* Where the reader stands: at a page or the end, at the dictionary, at the last
\* page.
LEMMA PlaceIs ==
  ASSUME FileInv
  PROVE  /\ (f.serveLastPage /\ f.lastPage # None)
              => FilePosition = Data(chunk, f.lastPage).first + f.skip
         /\ (~f.serveLastPage /\ f.stream <= NumPages(chunk))
              => FilePosition = FirstOf(chunk, f.stream) + f.skip
         /\ (~f.serveLastPage /\ f.stream = DictPage) => FilePosition = f.skip
         /\ FilePosition \in Nat
  BY PositionOfType, FilePositionIs, PlacesDiffer DEF FileInv, FileTypeOK, PositionOf

\* The same in the next state.
LEMMA PlaceIsNext ==
  ASSUME FileInv'
  PROVE  /\ (f'.serveLastPage /\ f'.lastPage # None)
              => FilePosition' = Data(chunk', f'.lastPage).first + f'.skip
         /\ (~f'.serveLastPage /\ f'.stream <= NumPages(chunk'))
              => FilePosition' = FirstOf(chunk', f'.stream) + f'.skip
         /\ (~f'.serveLastPage /\ f'.stream = DictPage) => FilePosition' = f'.skip
         /\ FilePosition' \in Nat
  BY PositionOfType, FilePositionIs, PlacesDiffer DEF FileInv, FileTypeOK, PositionOf

\* Facts about the reader that the actions need.
LEMMA PlaceFacts ==
  ASSUME PlaceInv
  PROVE  /\ chunk \in Chunks /\ f \in FileReader /\ f.skip \in Nat /\ f.stream \in Nat
         /\ NumPages(chunk) \in Nat /\ RowsOf(chunk) \in Nat
         /\ f.lastPage # None => f.lastPage \in 0 .. (NumPages(chunk) - 1)
         /\ f.stream \in (0 .. NumPages(chunk)) \cup {DictPage, Inside}
         /\ f.serveLastPage => f.lastPage # None
         /\ f.pc = "reading" => ~f.serveLastPage /\ f.stream # Inside /\ ret # P!Failed
  BY PagesInOrder DEF PlaceInv, FileInv, FileTypeOK, FileReader, LastPageBehind, FailureEnds

\* What is served of page p.
LEMMA SliceIsRead ==
  ASSUME chunk \in Chunks, chunk' = chunk, NEW p \in 0 .. (NumPages(chunk) - 1), NEW skip \in Nat,
         skip < Data(chunk, p).rows, ret' = Slice(p, skip),
         FilePosition = Data(chunk, p).first + skip,
         FilePosition' = FirstOf(chunk, p + 1)
  PROVE  PlaceStep /\ ret'.kind = "page" /\ ret' # P!Failed
  <1> DEFINE n == Data(chunk, p).rows - skip
  <1>1. /\ Data(chunk, p).first \in Nat /\ Data(chunk, p).rows \in Nat
        /\ FirstOf(chunk, p + 1) = Data(chunk, p).first + Data(chunk, p).rows
        /\ FirstOf(chunk, p + 1) <= RowsOf(chunk) /\ RowsOf(chunk) \in Nat
    BY PagesInOrder DEF PageType
  <1>2. /\ n \in 0 .. RowsOf(chunk) /\ FilePosition + n <= RowsOf(chunk)
        /\ FilePosition' = FilePosition + n /\ n # 0
    BY <1>1
  <1>3. ret' = P!Page(FilePosition, n, FALSE)
    BY DEF Slice
  <1> HIDE DEF n
  <1>4. P!Read
    BY <1>2, <1>3 DEF P!Read
  <1> QED BY <1>3, <1>4, AnswersDiffer DEF PlaceStep, P!Next

\* ReadPage serves the rest of the last page, or goes on behind it.
LEMMA ReadPagePlace ==
  ASSUME PlaceInv, FileInv', ReadPage, MayGoOn, OneSeekAtATime
  PROVE  PlaceInv' /\ PlaceStep
  <1> DEFINE page == Data(chunk, f.lastPage)
  <1>1. /\ chunk \in Chunks /\ f.skip \in Nat /\ NumPages(chunk) \in Nat
        /\ f.lastPage # None => f.lastPage \in 0 .. (NumPages(chunk) - 1)
        /\ f.serveLastPage => f.lastPage # None
    BY PlaceFacts
  <1>2. /\ f.pc = "idle" /\ chunk' = chunk /\ budget'.seeks = 0 /\ ReaderStays
        /\ f'.seekToRowStart <=> f.skip > 0
    BY ReadPageLeaves DEF PlaceInv
  <1>3. ret # P!Failed
    BY DEF MayGoOn, OneSeekAtATime
  <1>4. CASE /\ ~f.serveLastPage
             /\ f'.serveLastPage = f.serveLastPage /\ f'.index = f.index
             /\ f'.skip = f.skip /\ f'.pc = "reading" /\ ret' = ret
    <2>1. IndexFollows'
      BY <1>2, <1>4 DEF PlaceInv, IndexFollows, ReaderStays
    <2>2. LastPageBehind'
      BY <1>2, <1>3, <1>4 DEF PlaceInv, LastPageBehind, ReaderStays
    <2>3. RowBegun'
      BY <1>1, <1>2, <1>3, <1>4 DEF PlaceInv, RowBegun, ReaderStays
    <2>4. FailureEnds'
      BY <1>2, <1>3, <1>4 DEF PlaceInv, FailureEnds, ReaderStays
    <2>5. FilePosition' = FilePosition
      BY <1>2, <1>4, FilePositionIs DEF PositionOf, ReaderStays
    <2> QED BY <1>2, <1>4, <2>1, <2>2, <2>3, <2>4, <2>5 DEF PlaceInv, PlaceStep
  <1>5. CASE f.serveLastPage /\ ~f'.serveLastPage /\ f'.index = f.lastPageIndex + 1
    <2>1. /\ f.offsetIndex /\ chunk.index # "none" /\ f.stream = f.lastPage + 1
          /\ f.lastPageIndex = f.lastPage /\ f.lastPage \in 0 .. (NumPages(chunk) - 1)
      BY <1>1, <1>5 DEF PlaceInv, LastPageBehind, IndexFollows
    <2>2. f.stream \in 1 .. NumPages(chunk) /\ f.stream # DictPage /\ f.stream # Inside
      BY <1>1, <2>1, PlacesDiffer
    <2>3. f.stream < NumPages(chunk) => ~Data(chunk, f.stream).continues
      BY <1>1, <2>1, <2>2, PagesInOrder
    <2>4. IndexFollows'
      BY <1>2, <1>5, <2>1, <2>2 DEF PlaceInv, IndexFollows, ReaderStays
    <2>5. LastPageBehind'
      BY <1>2, <1>5, <2>1 DEF LastPageBehind, ReaderStays
    <2>6. FilePosition = page.first + f.skip
      BY <1>1, <1>5, PlaceIs DEF PlaceInv
    <2>7. FilePosition' = FirstOf(chunk, f.stream) + f'.skip
      BY <1>2, <1>5, <2>2, PlaceIsNext DEF ReaderStays
    <2>8. /\ page.first \in Nat /\ page.rows \in Nat /\ page.rows > 0
          /\ FirstOf(chunk, f.stream) = page.first + page.rows
      BY <1>1, <2>1, PagesInOrder DEF PageType
    <2> HIDE DEF page
    <2>9. CASE /\ f.skip < page.rows /\ f'.skip = 0 /\ f'.pc = "idle"
               /\ ret' = Slice(f.lastPage, f.skip)
      <3>1. FilePosition' = FirstOf(chunk, f.lastPage + 1)
        BY <1>1, <2>1, <2>2, <2>7, <2>8, <2>9
      <3>2. PlaceStep /\ ret'.kind = "page" /\ ret' # P!Failed
        BY <1>1, <1>2, <2>1, <2>6, <2>9, <3>1, SliceIsRead DEF page
      <3>3. RowBegun'
        BY <2>9, <3>2 DEF RowBegun
      <3>4. FailureEnds'
        BY <1>2, <2>2, <2>9 DEF FailureEnds, ReaderStays
      <3> QED BY <2>4, <2>5, <3>2, <3>3, <3>4 DEF PlaceInv
    <2>10. CASE /\ f.skip >= page.rows /\ f'.skip = f.skip - page.rows /\ f'.pc = "reading"
                /\ ret' = ret
      <3>1. FilePosition' = FilePosition
        BY <1>1, <2>6, <2>7, <2>8, <2>10
      <3>2. RowBegun'
        BY <1>1, <1>2, <2>3, <2>8, <2>10 DEF RowBegun, ReaderStays
      <3>3. FailureEnds'
        BY <1>2, <1>3, <2>2, <2>10 DEF FailureEnds, ReaderStays
      <3> QED BY <1>2, <2>4, <2>5, <2>10, <3>1, <3>2, <3>3 DEF PlaceInv, PlaceStep
    <2>11. \/ /\ f.skip < page.rows /\ f'.skip = 0 /\ f'.pc = "idle"
              /\ ret' = Slice(f.lastPage, f.skip)
           \/ /\ f.skip >= page.rows /\ f'.skip = f.skip - page.rows /\ f'.pc = "reading"
              /\ ret' = ret
      BY <1>1, <1>5, ReadPageLeaves DEF PlaceInv, page
    <2> QED BY <2>9, <2>10, <2>11
  <1>6. \/ /\ ~f.serveLastPage
           /\ f'.serveLastPage = f.serveLastPage /\ f'.index = f.index
           /\ f'.skip = f.skip /\ f'.pc = "reading" /\ ret' = ret
        \/ f.serveLastPage /\ ~f'.serveLastPage /\ f'.index = f.lastPageIndex + 1
    BY <1>1, ReadPageLeaves DEF PlaceInv
  <1> QED BY <1>4, <1>5, <1>6

\* The dictionary page has no rows.
LEMMA AtDictPagePlace ==
  ASSUME PlaceInv, FileInv', AtDictPage
  PROVE  PlaceInv' /\ PlaceStep
  <1>1. /\ chunk \in Chunks /\ f \in FileReader /\ f.skip \in Nat /\ NumPages(chunk) \in Nat
        /\ ~f.serveLastPage /\ ret # P!Failed
    BY PlaceFacts DEF AtDictPage
  <1>2. /\ f.pc = "reading" /\ f.stream = DictPage /\ UNCHANGED <<chunk, ret, budget>>
        /\ f' = [f EXCEPT !.dictionary = TRUE, !.stream = 0, !.dictPagePending = FALSE]
    BY DEF AtDictPage
  <1>3. /\ f'.stream = 0 /\ f'.pc = "reading" /\ f'.index = f.index /\ f'.skip = f.skip
        /\ f'.serveLastPage = f.serveLastPage /\ f'.lastPage = f.lastPage
        /\ f'.lastPageIndex = f.lastPageIndex /\ f'.seekToRowStart = f.seekToRowStart
        /\ f'.offsetIndex = f.offsetIndex
    BY <1>1, <1>2 DEF FileReader
  <1>4. f.index = 0 /\ f.lastPage = None
    BY <1>2 DEF PlaceInv, IndexFollows
  <1> USE PlacesDiffer
  <1>5. IndexFollows'
    BY <1>1, <1>2, <1>3, <1>4 DEF PlaceInv, IndexFollows
  <1>6. LastPageBehind'
    BY <1>1, <1>3, <1>4 DEF LastPageBehind
  <1>7. RowBegun'
    BY <1>1, <1>2, <1>3, PagesInOrder DEF PlaceInv, RowBegun
  <1>8. FailureEnds'
    BY <1>1, <1>2, <1>3 DEF PlaceInv, FailureEnds
  <1>9. FilePosition' = FilePosition
    BY <1>1, <1>2, <1>3, PlaceIs, PlaceIsNext, PagesInOrder DEF PlaceInv
  <1> QED BY <1>2, <1>5, <1>6, <1>7, <1>8, <1>9 DEF PlaceInv, PlaceStep

\* The end is only reported when no row is left.
LEMMA AtEndPlace ==
  ASSUME PlaceInv, FileInv', AtEnd
  PROVE  PlaceInv' /\ PlaceStep
  <1>1. /\ chunk \in Chunks /\ f \in FileReader /\ f.skip \in Nat /\ NumPages(chunk) \in Nat
        /\ ~f.serveLastPage /\ ret # P!Failed
    BY PlaceFacts DEF AtEnd
  <1>2. /\ f.pc = "reading" /\ f.stream = NumPages(chunk) /\ UNCHANGED <<chunk, budget>>
        /\ f' = [f EXCEPT !.pc = "idle"] /\ ret' = P!EOF
    BY DEF AtEnd
  <1>3. /\ ReaderStays /\ f'.pc = "idle" /\ f'.index = f.index /\ f'.skip = f.skip
        /\ f'.serveLastPage = f.serveLastPage /\ f'.seekToRowStart = f.seekToRowStart
    BY <1>1, <1>2 DEF FileReader, ReaderStays
  <1> USE PlacesDiffer
  <1>4. ret' # P!Failed
    BY <1>2, AnswersDiffer
  <1>5. IndexFollows'
    BY <1>2, <1>3 DEF PlaceInv, IndexFollows, ReaderStays
  <1>6. LastPageBehind'
    BY <1>1, <1>2, <1>3 DEF PlaceInv, LastPageBehind, ReaderStays
  <1>7. RowBegun'
    BY <1>1, <1>2, <1>3 DEF RowBegun, ReaderStays
  <1>8. FailureEnds'
    BY <1>1, <1>2, <1>3 DEF PlaceInv, FailureEnds, ReaderStays
  <1>9. FilePosition = RowsOf(chunk) + f.skip /\ FilePosition' = FilePosition
    BY <1>1, <1>2, <1>3, PlaceIs, PlaceIsNext, PagesInOrder DEF PlaceInv, ReaderStays
  <1>10. P!ReadEnd
    BY <1>1, <1>2, <1>9, PagesInOrder DEF P!ReadEnd
  <1> QED BY <1>2, <1>5, <1>6, <1>7, <1>8, <1>10 DEF PlaceInv, PlaceStep, P!Next

\* A page is returned, from the row that was sought, or skipped as a whole.
LEMMA AtDataPagePlace ==
  ASSUME PlaceInv, FileInv', AtDataPage
  PROVE  PlaceInv' /\ PlaceStep
  <1> DEFINE page == Data(chunk, f.stream)
  <1>1. /\ chunk \in Chunks /\ f.skip \in Nat /\ NumPages(chunk) \in Nat /\ f.stream \in Nat
        /\ RowsOf(chunk) \in Nat
    BY PlaceFacts
  <1>2. /\ f.pc = "reading" /\ f.stream < NumPages(chunk) /\ UNCHANGED <<chunk, budget>>
        /\ f'.stream = f.stream + 1 /\ f'.lastPage = f.stream
        /\ f'.lastPageIndex = f.index /\ f'.index = f.index + 1
        /\ f'.serveLastPage = f.serveLastPage /\ f'.seekToRowStart = f.seekToRowStart
        /\ f'.offsetIndex = f.offsetIndex
    BY AtDataPageLeaves DEF PlaceInv
  <1>3. /\ ~f.serveLastPage /\ ret # P!Failed /\ f.stream \in 0 .. (NumPages(chunk) - 1)
        /\ f.stream + 1 \in 0 .. NumPages(chunk)
    BY <1>1, <1>2, PlaceFacts
  <1>4. /\ FilePosition = page.first + f.skip
        /\ FilePosition' = FirstOf(chunk, f.stream + 1) + f'.skip
    BY <1>1, <1>2, <1>3, PlaceIs, PlaceIsNext, PagesInOrder DEF PlaceInv
  <1>5. /\ page.first \in Nat /\ page.rows \in Nat /\ FirstOf(chunk, f.stream + 1) \in Nat
        /\ FirstOf(chunk, f.stream + 1) = page.first + page.rows
        /\ FirstOf(chunk, f.stream + 1) <= RowsOf(chunk)
        /\ page.continues \in BOOLEAN
        /\ page.continues => chunk.v1
        /\ page.rows = 0 => page.continues
    BY <1>1, <1>3, PagesInOrder DEF PageType
  <1>6. /\ f'.stream # DictPage /\ f'.stream # Inside /\ f'.stream <= NumPages(chunk)
        /\ f'.lastPage # None
    BY <1>1, <1>2, <1>3, PlacesDiffer
  <1>7. IndexFollows'
    BY <1>1, <1>2, <1>3, <1>6 DEF PlaceInv, IndexFollows
  <1>8. LastPageBehind'
    BY <1>2, <1>3 DEF LastPageBehind
  <1>9. (f'.pc = "reading" => ret' = ret) => FailureEnds'
    BY <1>2, <1>3, <1>6 DEF PlaceInv, FailureEnds
  <1> HIDE DEF page
  <1>10. CASE /\ f.skip = 0 /\ (~f.seekToRowStart \/ ~chunk.v1)
              /\ ret' = Whole(f.stream) /\ f'.skip = 0 /\ f'.pc = "idle"
    <2>1. page.continues => ~f.seekToRowStart
      BY <1>5, <1>10
    <2>2. page.continues => ret.kind = "page"
      BY <1>2, <1>3, <1>10, <2>1 DEF PlaceInv, RowBegun, page
    <2>3. ret' = P!Page(FilePosition, page.rows, page.continues)
      BY <1>4, <1>5, <1>10 DEF Whole, page
    <2>4. /\ page.rows \in 0 .. RowsOf(chunk) /\ FilePosition + page.rows <= RowsOf(chunk)
          /\ FilePosition' = FilePosition + page.rows
      BY <1>1, <1>4, <1>5, <1>10
    <2>5. P!Read
      BY <1>5, <2>2, <2>3, <2>4 DEF P!Read
    <2>6. ret'.kind = "page"
      BY <2>3, AnswersDiffer
    <2>7. RowBegun'
      BY <1>10, <2>6 DEF RowBegun
    <2> QED BY <1>2, <1>7, <1>8, <1>9, <1>10, <2>5, <2>7 DEF PlaceInv, PlaceStep, P!Next
  <1>11. CASE /\ f.skip = 0 /\ f.seekToRowStart /\ page.rows = 0
              /\ ret' = ret /\ f'.skip = 0 /\ f'.pc = "reading"
    BY <1>11, <1>2, <1>4, <1>5, <1>7, <1>8, <1>9 DEF RowBegun, PlaceInv, PlaceStep
  <1>12. CASE /\ page.rows > f.skip
              /\ ret' = Slice(f.stream, f.skip) /\ f'.skip = 0 /\ f'.pc = "idle"
    <2>1. FilePosition' = FirstOf(chunk, f.stream + 1)
      BY <1>4, <1>5, <1>12
    <2>2. f.skip < page.rows
      BY <1>1, <1>5, <1>12
    <2>3. PlaceStep /\ ret'.kind = "page" /\ ret' # P!Failed
      BY <1>1, <1>2, <1>3, <1>4, <1>12, <2>1, <2>2, SliceIsRead DEF page
    <2>4. RowBegun'
      BY <1>12, <2>3 DEF RowBegun
    <2> QED BY <1>7, <1>8, <1>9, <1>12, <2>3, <2>4 DEF PlaceInv
  <1>13. CASE /\ f.skip > 0 /\ page.rows <= f.skip
              /\ ret' = ret /\ f'.skip = f.skip - page.rows /\ f'.pc = "reading"
    <2>1. FilePosition' = FilePosition
      BY <1>1, <1>4, <1>5, <1>13
    <2>2. f.seekToRowStart
      BY <1>1, <1>2, <1>13 DEF PlaceInv, RowBegun
    <2>3. RowBegun'
      BY <1>2, <1>13, <2>2 DEF RowBegun
    <2> QED BY <1>2, <1>7, <1>8, <1>9, <1>13, <2>1, <2>3 DEF PlaceInv, PlaceStep
  <1>14. \/ /\ f.skip = 0 /\ (~f.seekToRowStart \/ ~chunk.v1)
            /\ ret' = Whole(f.stream) /\ f'.skip = 0 /\ f'.pc = "idle"
         \/ /\ f.skip = 0 /\ f.seekToRowStart /\ page.rows = 0
            /\ ret' = ret /\ f'.skip = 0 /\ f'.pc = "reading"
         \/ /\ page.rows > f.skip
            /\ ret' = Slice(f.stream, f.skip) /\ f'.skip = 0 /\ f'.pc = "idle"
         \/ /\ f.skip > 0 /\ page.rows <= f.skip
            /\ ret' = ret /\ f'.skip = f.skip - page.rows /\ f'.pc = "reading"
    BY AtDataPageLeaves DEF PlaceInv, page
  <1> QED BY <1>10, <1>11, <1>12, <1>13, <1>14

\* A failed read promises nothing.
LEMMA ReadPageFailsPlace ==
  ASSUME PlaceInv, FileInv', ReadPageFails
  PROVE  PlaceInv' /\ PlaceStep
  <1>1. f \in FileReader /\ budget \in Budget /\ ~f.serveLastPage
    BY PlaceFacts DEF ReadPageFails, PlaceInv, FileInv, FileTypeOK
  <1>2. /\ f.pc = "reading" /\ chunk' = chunk /\ ret' = P!Failed
        /\ budget' \in {budget, [budget EXCEPT !.faults = @ + 1]}
        /\ \E s \in {f.stream, Inside} : f' = [f EXCEPT !.stream = s, !.pc = "idle"]
    <2>1. [f EXCEPT !.pc = "idle"] = [f EXCEPT !.stream = f.stream, !.pc = "idle"]
      BY <1>1 DEF FileReader
    <2> QED BY <2>1 DEF ReadPageFails
  <1>3. PICK s \in {f.stream, Inside} : f' = [f EXCEPT !.stream = s, !.pc = "idle"]
    BY <1>2
  <1>4. budget'.seeks = budget.seeks
    BY <1>1, <1>2, BudgetCounts
  <1>5. /\ f'.stream = s /\ f'.pc = "idle" /\ f'.index = f.index
        /\ f'.serveLastPage = f.serveLastPage /\ f'.lastPage = f.lastPage
        /\ f'.lastPageIndex = f.lastPageIndex /\ f'.offsetIndex = f.offsetIndex
    BY <1>1, <1>3 DEF FileReader
  <1>6. NumPages(chunk) < Inside /\ Inside # DictPage /\ NumPages(chunk) \in Nat /\ Inside \in Nat
    BY PlacesDiffer, PlaceFacts
  <1>7. IndexFollows'
    BY <1>2, <1>3, <1>5, <1>6 DEF PlaceInv, IndexFollows
  <1>8. LastPageBehind'
    BY <1>1, <1>2, <1>5 DEF LastPageBehind
  <1>9. RowBegun'
    BY <1>2, <1>5 DEF RowBegun
  <1>10. FailureEnds'
    BY <1>2, <1>4, <1>5 DEF PlaceInv, FailureEnds
  <1>11. P!ReadFails
    BY <1>2, PlaceIsNext DEF P!ReadFails
  <1> QED BY <1>2, <1>7, <1>8, <1>9, <1>10, <1>11 DEF PlaceInv, PlaceStep, P!Next

\* The dictionary may be read beforehand.
LEMMA ReadDictionaryPlace ==
  ASSUME PlaceInv, FileInv', ReadDictionary
  PROVE  PlaceInv' /\ PlaceStep
  <1>1. f \in FileReader /\ budget \in Budget
    BY DEF PlaceInv, FileInv, FileTypeOK
  <1>2. /\ f.pc = "idle" /\ UNCHANGED <<chunk, ret>> /\ f' = [f EXCEPT !.dictionary = TRUE]
        /\ budget'.seeks = budget.seeks
    BY <1>1, BudgetCounts DEF ReadDictionary, MayCall
  <1>3. /\ ReaderStays /\ f'.pc = f.pc /\ f'.index = f.index /\ f'.skip = f.skip
        /\ f'.serveLastPage = f.serveLastPage /\ f'.seekToRowStart = f.seekToRowStart
    BY <1>1, <1>2 DEF FileReader, ReaderStays
  <1>4. IndexFollows'
    BY <1>2, <1>3 DEF PlaceInv, IndexFollows, ReaderStays
  <1>5. LastPageBehind'
    BY <1>2, <1>3 DEF PlaceInv, LastPageBehind, ReaderStays
  <1>6. RowBegun'
    BY <1>2, <1>3 DEF PlaceInv, RowBegun, ReaderStays
  <1>7. FailureEnds'
    BY <1>2, <1>3 DEF PlaceInv, FailureEnds, ReaderStays
  <1>8. FilePosition' = FilePosition
    BY <1>2, <1>3, FilePositionIs DEF PositionOf, ReaderStays
  <1> QED BY <1>2, <1>4, <1>5, <1>6, <1>7, <1>8 DEF PlaceInv, PlaceStep

\* An offset index that appears is one that the reader's counts agree with.
LEMMA ReadOffsetIndexPlace ==
  ASSUME PlaceInv, FileInv', ReadOffsetIndex
  PROVE  PlaceInv' /\ PlaceStep
  <1>1. f \in FileReader
    BY DEF PlaceInv, FileInv, FileTypeOK
  <1>2. /\ chunk.index = "lazy" /\ UNCHANGED <<chunk, ret, budget>>
        /\ f' = [f EXCEPT !.offsetIndex = TRUE]
    BY DEF ReadOffsetIndex
  <1>3. /\ f'.pc = f.pc /\ f'.index = f.index /\ f'.skip = f.skip /\ f'.stream = f.stream
        /\ f'.serveLastPage = f.serveLastPage /\ f'.seekToRowStart = f.seekToRowStart
        /\ f'.lastPage = f.lastPage /\ f'.lastPageIndex = f.lastPageIndex
        /\ f'.offsetIndex = TRUE
    BY <1>1, <1>2 DEF FileReader
  <1>4. IndexFollows'
    BY <1>2, <1>3 DEF PlaceInv, IndexFollows
  <1>5. LastPageBehind'
    BY <1>2, <1>3 DEF PlaceInv, LastPageBehind
  <1>6. RowBegun'
    BY <1>2, <1>3 DEF PlaceInv, RowBegun
  <1>7. FailureEnds'
    BY <1>2, <1>3 DEF PlaceInv, FailureEnds
  <1>8. FilePosition' = FilePosition
    BY <1>2, <1>3, FilePositionIs DEF PositionOf
  <1> QED BY <1>2, <1>4, <1>5, <1>6, <1>7, <1>8 DEF PlaceInv, PlaceStep

\* A closed reader has no place.
LEMMA ClosePagesPlace ==
  ASSUME PlaceInv, FileInv', ClosePages
  PROVE  PlaceInv' /\ PlaceStep
  <1> DEFINE opened == Opened(chunk)
  <1>1. f \in FileReader /\ chunk \in Chunks
    BY DEF PlaceInv, FileInv, FileTypeOK
  <1>2. /\ UNCHANGED <<chunk, budget>> /\ ret' = P!Closed
        /\ f' = [opened EXCEPT !.offsetIndex = f.offsetIndex, !.pc = "closed"]
    BY DEF ClosePages
  <1>3. /\ opened \in FileReader /\ opened.stream = IF chunk.dict THEN DictPage ELSE 0
        /\ opened.lastPage = None /\ opened.index = 0 /\ opened.serveLastPage = FALSE
    BY <1>1, OpenedIs
  <1> HIDE DEF opened
  <1>4. /\ f'.stream = opened.stream /\ f'.lastPage = None /\ f'.index = 0
        /\ f'.serveLastPage = FALSE /\ f'.pc = "closed" /\ f'.offsetIndex = f.offsetIndex
    BY <1>2, <1>3 DEF FileReader
  <1> USE PlacesDiffer
  <1>5. IndexFollows'
    BY <1>1, <1>2, <1>3, <1>4 DEF PlaceInv, IndexFollows
  <1>6. LastPageBehind'
    BY <1>4 DEF LastPageBehind
  <1>7. RowBegun'
    BY <1>1, <1>2, <1>3, <1>4, PagesInOrder DEF RowBegun
  <1>8. FailureEnds'
    BY <1>1, <1>2, <1>3, <1>4 DEF PlaceInv, FailureEnds
  <1>9. P!Close
    BY <1>2, PlaceIsNext DEF P!Close
  <1> QED BY <1>2, <1>5, <1>6, <1>7, <1>8, <1>9 DEF PlaceInv, PlaceStep, P!Next

\* An answer to a seek, with the reader at the row that was sought.
LEMMA SoughtIsSeek ==
  ASSUME chunk' = chunk, NEW row \in Nat, ret' = P!Sought(row), FilePosition' = row
  PROVE  PlaceStep /\ ret' # P!Failed
  BY AnswersDiffer DEF P!Sought, P!Seek, PlaceStep, P!Next

\* All three ways of a seek come to the row.
LEMMA SeekPlace ==
  ASSUME PlaceInv, FileInv', NEW row \in Nat, SeekToRow(row), OneSeekAtATime
  PROVE  PlaceInv' /\ PlaceStep
  <1> DEFINE target == Target(row)
             N == NumPages(chunk)
  <1>1. /\ chunk \in Chunks /\ N \in Nat /\ f.stream \in Nat /\ f.skip \in Nat
        /\ f.lastPage # None => f.lastPage \in 0 .. (N - 1)
        /\ f.stream \in (0 .. N) \cup {DictPage, Inside}
    BY PlaceFacts
  <1>2. /\ f.pc = "idle" /\ f'.pc = "idle" /\ chunk' = chunk
        /\ f'.lastPage = f.lastPage /\ f'.lastPageIndex = f.lastPageIndex
        /\ f'.offsetIndex = f.offsetIndex
    BY SeekLeaves DEF PlaceInv
  <1>3. ret # P!Failed /\ budget.seeks = 0 /\ budget'.seeks = 1
    BY SeekLeaves, FilePagesAssumption DEF PlaceInv, FileInv, FileTypeOK, Budget,
      FilePagesAssumption, OneSeekAtATime, MayGoOn
  <1>4. /\ ~f.serveLastPage /\ f.stream # Inside
        /\ f.lastPage # None => f.stream = f.lastPage + 1
    BY <1>2, <1>3 DEF PlaceInv, LastPageBehind, FailureEnds
  <1>5. f.stream \in 0 .. N \/ f.stream = DictPage
    BY <1>1, <1>4
  <1> USE PlacesDiffer
  <1>6. CASE /\ ~f.offsetIndex /\ ret' = P!Sought(row)
             /\ f'.stream = 0 /\ f'.skip = row /\ f'.serveLastPage = f.serveLastPage
             /\ ~chunk.dict => f'.index = 0
    <2>1. FilePosition' = row
      BY <1>1, <1>2, <1>4, <1>6, PlaceIsNext, PagesInOrder
    <2>2. PlaceStep /\ ret' # P!Failed
      BY <1>2, <1>6, <2>1, SoughtIsSeek
    <2>3. chunk.index # "none" => ~chunk.dict
      BY <1>1, <1>6, FilePagesAssumption DEF PlaceInv, IndexFollows, FilePagesAssumption, ChunkType,
        OneSeekAtATime
    <2>4. IndexFollows'
      BY <1>1, <1>2, <1>6, <2>3 DEF PlaceInv, IndexFollows
    <2>5. LastPageBehind'
      BY <1>1, <1>2, <1>3, <1>4, <1>6 DEF LastPageBehind
    <2>6. RowBegun'
      BY <1>1, <1>2, <1>6, PagesInOrder DEF RowBegun
    <2>7. FailureEnds'
      BY <1>1, <1>2, <1>3, <1>6 DEF FailureEnds
    <2> QED BY <2>2, <2>4, <2>5, <2>6, <2>7 DEF PlaceInv
  <1>7. ASSUME f'.serveLastPage = f.serveLastPage, ReaderStays, f'.index = f.index,
               f.offsetIndex, ret' # P!Failed
        PROVE  IndexFollows' /\ LastPageBehind' /\ RowBegun' /\ FailureEnds'
    <2>1. chunk.index # "none"
      BY <1>7 DEF PlaceInv, IndexFollows
    <2>2. f.stream < N => ~Data(chunk, f.stream).continues
      BY <1>1, <2>1, PagesInOrder
    <2>3. IndexFollows'
      BY <1>2, <1>7 DEF PlaceInv, IndexFollows, ReaderStays
    <2>4. LastPageBehind'
      BY <1>2, <1>3, <1>4, <1>7 DEF LastPageBehind, ReaderStays
    <2>5. RowBegun'
      BY <1>2, <1>7, <2>2 DEF RowBegun, ReaderStays
    <2>6. FailureEnds'
      BY <1>2, <1>3, <1>4, <1>7 DEF FailureEnds, ReaderStays
    <2> QED BY <2>3, <2>4, <2>5, <2>6
  <1>8. CASE /\ f.offsetIndex /\ chunk.pages = <<>> /\ row = 0 /\ ret' = P!Sought(row)
             /\ ReaderStays /\ f'.index = f.index /\ f'.skip = row
             /\ f'.serveLastPage = f.serveLastPage
    <2>1. N = 0
      BY <1>8 DEF NumPages
    <2>2. FilePosition' = row
      BY <1>1, <1>2, <1>4, <1>5, <1>8, <2>1, PlaceIsNext, PagesInOrder DEF ReaderStays
    <2>3. PlaceStep /\ ret' # P!Failed
      BY <1>2, <1>8, <2>2, SoughtIsSeek
    <2> QED BY <1>7, <1>8, <2>3 DEF PlaceInv
  <1>9. CASE f.offsetIndex /\ chunk.pages = <<>> /\ ret' = P!OutOfRange(row) /\ f' = f
    <2>1. ret'.kind = "range" /\ ret'.row = row
      BY <1>9 DEF P!OutOfRange
    <2>2. ret' # P!Failed
      BY <2>1, AnswersDiffer
    <2>3. IndexFollows' /\ LastPageBehind' /\ RowBegun' /\ FailureEnds'
      BY <1>7, <1>9, <2>2 DEF ReaderStays
    <2>4. FilePosition' = FilePosition
      BY <1>2, <1>9, FilePositionIs
    <2>5. P!SeekRefused
      BY <1>9, <2>1, <2>4 DEF P!SeekRefused
    <2> QED BY <1>2, <2>3, <2>5 DEF PlaceInv, PlaceStep, P!Next
  <1>10. CASE /\ f.offsetIndex /\ chunk.pages # <<>> /\ ret' = P!Sought(row)
              /\ f'.skip = row - Data(chunk, target).first
    <2>1. target \in 0 .. (N - 1)
      BY <1>1, <1>10, TargetFound
    <2>2. /\ Data(chunk, target).first \in Nat /\ FirstOf(chunk, target) = Data(chunk, target).first
          /\ target = 0 => Data(chunk, target).first = 0
      BY <1>1, <2>1, PagesInOrder DEF PageType
    <2>3. /\ chunk.index # "none"
          /\ f.stream <= N => f.index = f.stream
          /\ f.lastPage # None => f.lastPageIndex = f.lastPage
          /\ f.stream = DictPage => f.index = 0 /\ f.lastPage = None
      BY <1>10 DEF PlaceInv, IndexFollows
    <2>4. \A p \in 0 .. (N - 1) : ~Data(chunk, p).continues
      BY <1>1, <2>3, PagesInOrder
    <2>5. Data(chunk, target).first + f'.skip = row
      BY <1>10, <2>2
    <2> HIDE DEF target
    <2>6. CASE /\ f.lastPage # None /\ target = f.lastPageIndex
               /\ f'.serveLastPage /\ ReaderStays /\ f'.index = f.index
      <3>1. f.lastPage = target /\ f.stream = target + 1
        BY <1>4, <2>3, <2>6
      <3>2. FilePosition' = row
        BY <1>2, <2>5, <2>6, <3>1, PlaceIsNext
      <3>3. PlaceStep /\ ret' # P!Failed
        BY <1>2, <1>10, <3>2, SoughtIsSeek
      <3>4. IndexFollows'
        BY <1>2, <2>6 DEF PlaceInv, IndexFollows, ReaderStays
      <3>5. LastPageBehind'
        BY <1>2, <1>3, <1>10, <2>6, <3>1 DEF LastPageBehind, ReaderStays
      <3>6. RowBegun'
        BY <1>1, <1>2, <2>4, <2>6 DEF RowBegun, ReaderStays
      <3>7. FailureEnds'
        BY <1>2, <1>3, <1>4, <2>6 DEF FailureEnds, ReaderStays
      <3> QED BY <3>3, <3>4, <3>5, <3>6, <3>7 DEF PlaceInv
    <2>7. CASE /\ f.index = target /\ f'.serveLastPage = f.serveLastPage
               /\ ReaderStays /\ f'.index = f.index
      BY <1>1, <1>10, <1>2, <1>4, <1>5, <1>7, <2>2, <2>3, <2>5, <2>7, PlaceIsNext, SoughtIsSeek DEF
        ReaderStays, PlaceInv
    <2>8. CASE /\ f'.index = target /\ f'.serveLastPage = f.serveLastPage
               /\ f'.stream = target
      <3>1. FilePosition' = FirstOf(chunk, target) + f'.skip
        BY <1>1, <1>2, <1>4, <2>1, <2>8, PlaceIsNext
      <3>2. FilePosition' = row
        BY <2>2, <2>5, <3>1
      <3>3. PlaceStep /\ ret' # P!Failed
        BY <1>2, <1>10, <3>2, SoughtIsSeek
      <3>4. target < N /\ target # DictPage /\ target # Inside /\ target \in Nat
        BY <1>1, <2>1
      <3>5. IndexFollows'
        BY <1>2, <2>3, <2>8, <3>4 DEF PlaceInv, IndexFollows
      <3>6. LastPageBehind'
        BY <1>2, <1>3, <1>4, <2>8, <3>4 DEF LastPageBehind
      <3>7. RowBegun'
        BY <1>2, <2>1, <2>4, <2>8 DEF RowBegun
      <3>8. FailureEnds'
        BY <1>2, <1>3, <2>8, <3>4 DEF FailureEnds
      <3> QED BY <3>3, <3>5, <3>6, <3>7, <3>8 DEF PlaceInv
    <2>9. \/ /\ f.lastPage # None /\ target = f.lastPageIndex
             /\ f'.serveLastPage /\ ReaderStays /\ f'.index = f.index
          \/ /\ f.index = target /\ f'.serveLastPage = f.serveLastPage
             /\ ReaderStays /\ f'.index = f.index
          \/ /\ f'.index = target /\ f'.serveLastPage = f.serveLastPage
             /\ f'.stream = target
      BY <1>10, SeekLeaves DEF PlaceInv, target
    <2> QED BY <2>6, <2>7, <2>8, <2>9
  <1>11. \/ /\ ~f.offsetIndex /\ ret' = P!Sought(row)
            /\ f'.stream = 0 /\ f'.skip = row /\ f'.serveLastPage = f.serveLastPage
            /\ ~chunk.dict => f'.index = 0
         \/ /\ f.offsetIndex /\ chunk.pages = <<>> /\ row = 0 /\ ret' = P!Sought(row)
            /\ ReaderStays /\ f'.index = f.index /\ f'.skip = row
            /\ f'.serveLastPage = f.serveLastPage
         \/ f.offsetIndex /\ chunk.pages = <<>> /\ ret' = P!OutOfRange(row) /\ f' = f
         \/ /\ f.offsetIndex /\ chunk.pages # <<>> /\ ret' = P!Sought(row)
            /\ f'.skip = row - Data(chunk, target).first
    BY SeekLeaves DEF PlaceInv
  <1> QED BY <1>6, <1>8, <1>9, <1>10, <1>11

\* Every action keeps the place and is a step of SeekablePages.
LEMMA PlaceInvStep ==
  PlaceInv /\ [FilePagesNext]_fileVars /\ OneSeekAtATime => PlaceInv' /\ PlaceStep
  <1> SUFFICES ASSUME PlaceInv, [FilePagesNext]_fileVars, OneSeekAtATime
               PROVE  PlaceInv' /\ PlaceStep
    OBVIOUS
  <1>1. FileInv'
    BY FileInvStep DEF PlaceInv
  <1>2. CASE CallReadPage
    BY <1>1, <1>2, ReadPagePlace DEF CallReadPage
  <1>3. CASE CallSeekToRow
    <2>1. PICK row \in 0 .. (RowsOf(chunk) + 1) : SeekToRow(row)
      BY <1>3 DEF CallSeekToRow
    <2>2. row \in Nat
      BY <2>1
    <2> QED BY <1>1, <2>1, <2>2, SeekPlace
  <1>4. CASE UNCHANGED fileVars
    BY <1>1, <1>4, FilePositionIs DEF fileVars, PlaceInv, IndexFollows, LastPageBehind, RowBegun,
      FailureEnds, PlaceStep
  <1> QED BY <1>1, <1>2, <1>3, <1>4, AtDictPagePlace, AtEndPlace, AtDataPagePlace,
             ReadPageFailsPlace, ReadDictionaryPlace, ReadOffsetIndexPlace, ClosePagesPlace
          DEF FilePagesNext

\* For any chunk, dictionary or not, encrypted or not, with pages of any size
\* that may begin inside rows, and whenever an offset index is loaded: FilePages
\* returns the rows from the one that was sought, in order, and leaves none out.
\* Two seeks in a row are excluded, and calls after a failed one, and an index
\* loaded after pages of a chunk with a dictionary were counted without it.
THEOREM FilePagesImplementSeek ==
  ASSUME OneSeekAtATime
  PROVE  FilePagesSpec => FilePagesSeek
  <1>1. FilePagesInit => PlaceInv /\ P!Init
    BY PlaceInvInit
  <1>2. PlaceInv /\ [FilePagesNext]_fileVars => PlaceInv' /\ PlaceStep
    BY PlaceInvStep
  <1> QED BY <1>1, <1>2, PTL DEF FilePagesSpec, FilePagesSeek, PlaceStep, P!Spec

-----------------------------------------------------------------------------
(***************************************************************************)
(* Rows assembled from the columns of a row group.                         *)
(***************************************************************************)

(* The values of a column lie one row behind the other. *)

RowsValue == [column : Columns, row : Nat, rep : {0, 1}]
LeadingRows(k, n) == [i \in 1..n |-> RowValues(k, i - 1)]

\* A row has a value, and only its first value begins it.
LEMMA RowValuesType ==
  ASSUME NEW k \in Columns, NEW row \in 0 .. (NumRows - 1)
  PROVE  /\ RowValues(k, row) \in Seq(RowsValue) /\ Len(RowValues(k, row)) \in Nat \ {0}
         /\ \A j \in 1 .. Len(RowValues(k, row)) :
              RowValues(k, row)[j] = Value(k, row, IF j = 1 THEN 0 ELSE 1)
  <1>1. NumRows \in Nat /\ row \in Nat /\ row + 1 \in 1 .. NumRows /\ Width[row + 1] \in Nat \ {0}
    BY RowGroupRowsAssumption DEF RowGroupRowsAssumption, NumRows
  <1>2. \A rep \in {0, 1} : Value(k, row, rep) \in RowsValue
    BY <1>1 DEF Value, RowsValue
  <1>3. CASE k = 1
    <2> DEFINE v == Value(1, row, 0)
    <2>1. RowValues(k, row) = <<v>> /\ v \in RowsValue
      BY <1>2, <1>3 DEF RowValues
    <2> HIDE DEF v
    <2>2. <<v>> \in Seq(RowsValue) /\ Len(<<v>>) = 1 /\ <<v>>[1] = v
      BY <2>1
    <2>3. \A j \in 1 .. Len(RowValues(k, row)) : RowValues(k, row)[j] = v /\ j = 1
      BY <2>1, <2>2
    <2>4. v = Value(k, row, 0)
      BY <1>3 DEF v
    <2>5. \A j \in 1 .. Len(RowValues(k, row)) :
             RowValues(k, row)[j] = Value(k, row, IF j = 1 THEN 0 ELSE 1)
      BY <2>3, <2>4
    <2> QED BY <2>1, <2>2, <2>5
  <1>4. CASE k = 2
    <2> DEFINE w == Width[row + 1]
    <2>1. RowValues(k, row) = [i \in 1..w |-> Value(2, row, IF i = 1 THEN 0 ELSE 1)] /\ w \in Nat \ {0}
      BY <1>1, <1>4 DEF RowValues
    <2>2. \A i \in 1 .. w : Value(2, row, IF i = 1 THEN 0 ELSE 1) \in RowsValue
      BY <1>2, <1>4
    <2> HIDE DEF w
    <2> QED BY <1>4, <2>1, <2>2
  <1> QED BY <1>3, <1>4 DEF Columns

\* The values of the leading rows, one row more.
LEMMA LeadingRowsRecursion ==
  ASSUME NEW k \in Columns
  PROVE  /\ FlattenSeq(LeadingRows(k, 0)) = << >>
         /\ \A n \in 0 .. NumRows : FlattenSeq(LeadingRows(k, n)) \in Seq(RowsValue)
         /\ \A n \in 0 .. (NumRows - 1) :
              FlattenSeq(LeadingRows(k, n + 1)) = FlattenSeq(LeadingRows(k, n)) \o RowValues(k, n)
  <1>0. NumRows \in Nat
    BY RowGroupRowsAssumption DEF RowGroupRowsAssumption, NumRows
  <1>1. ASSUME NEW n \in 0 .. NumRows
        PROVE  LeadingRows(k, n) \in Seq(Seq(RowsValue)) /\ Len(LeadingRows(k, n)) = n
    <2>1. \A i \in 1 .. n : RowValues(k, i - 1) \in Seq(RowsValue)
      <3> TAKE i \in 1 .. n
      <3>1. i - 1 \in 0 .. (NumRows - 1)
        BY <1>0
      <3> QED BY <3>1, RowValuesType
    <2> QED BY <1>0, <2>1 DEF LeadingRows
  <1>2. LeadingRows(k, 0) = << >>
    BY <1>0, <1>1
  <1>3. ASSUME NEW n \in 0 .. (NumRows - 1)
        PROVE  FlattenSeq(LeadingRows(k, n + 1)) = FlattenSeq(LeadingRows(k, n)) \o RowValues(k, n)
    <2>1. /\ LeadingRows(k, n) \in Seq(Seq(RowsValue)) /\ Len(LeadingRows(k, n)) = n
          /\ LeadingRows(k, n + 1) \in Seq(Seq(RowsValue)) /\ Len(LeadingRows(k, n + 1)) = n + 1
          /\ RowValues(k, n) \in Seq(RowsValue)
      BY <1>0, <1>1, RowValuesType
    <2>2. LeadingRows(k, n + 1) = Append(LeadingRows(k, n), RowValues(k, n))
      <3> DEFINE s == LeadingRows(k, n)
                 t == LeadingRows(k, n + 1)
                 x == RowValues(k, n)
      <3>1. \A i \in 1 .. n : t[i] = s[i]
        BY <1>0 DEF LeadingRows
      <3>2. t[n + 1] = x
        BY <1>0 DEF LeadingRows
      <3>3. /\ s \in Seq(Seq(RowsValue)) /\ t \in Seq(Seq(RowsValue)) /\ x \in Seq(RowsValue)
            /\ Len(s) = n /\ Len(t) = n + 1 /\ n \in Nat
        BY <2>1, <1>0
      <3> HIDE DEF s, t, x
      <3>4. /\ Append(s, x) \in Seq(Seq(RowsValue)) /\ Len(Append(s, x)) = n + 1
            /\ \A i \in 1 .. n : Append(s, x)[i] = s[i]
            /\ Append(s, x)[n + 1] = x
        BY <3>3, AppendProperties
      <3>5. \A i \in 1 .. (n + 1) : t[i] = Append(s, x)[i]
        BY <3>1, <3>2, <3>3, <3>4
      <3>6. t = Append(s, x)
        BY <3>3, <3>4, <3>5, SeqEqual
      <3> QED BY <3>6 DEF s, t, x
    <2> QED BY <2>1, <2>2, FlattenSeqRecursion
  <1>4. ASSUME NEW n \in 0 .. NumRows PROVE FlattenSeq(LeadingRows(k, n)) \in Seq(RowsValue)
    BY <1>1, FlattenSeqRecursion
  <1> QED BY <1>2, <1>3, <1>4, FlattenSeqRecursion

\* ValuesBefore counts the values of the rows before, and each row begins there.
LEMMA ValuesLayout ==
  ASSUME NEW k \in Columns
  PROVE  /\ NumRows \in Nat /\ Values(k) \in Seq(RowsValue) /\ Len(Values(k)) \in Nat
         /\ ValuesBefore(k, 0) = 0
         /\ \A row \in Nat : ValuesBefore(k, row) \in 0 .. Len(Values(k))
         /\ \A row \in Nat : row >= NumRows => ValuesBefore(k, row) = Len(Values(k))
         /\ \A row \in 0 .. (NumRows - 1) :
              /\ ValuesBefore(k, row + 1) = ValuesBefore(k, row) + Len(RowValues(k, row))
              /\ \A j \in 1 .. Len(RowValues(k, row)) :
                   Values(k)[ValuesBefore(k, row) + j] = RowValues(k, row)[j]
  <1> DEFINE Lead(n) == FlattenSeq(LeadingRows(k, n))
  <1>0. NumRows \in Nat
    BY RowGroupRowsAssumption DEF RowGroupRowsAssumption, NumRows
  <1>1. Values(k) = Lead(NumRows)
    BY DEF Values, LeadingRows
  <1>2. \A row \in Nat :
          ValuesBefore(k, row) = IF row < NumRows THEN Len(Lead(row)) ELSE Len(Lead(NumRows))
    BY DEF ValuesBefore, LeadingRows
  <1>3. /\ Lead(0) = << >> /\ \A n \in 0 .. NumRows : Lead(n) \in Seq(RowsValue)
        /\ \A n \in 0 .. (NumRows - 1) : Lead(n + 1) = Lead(n) \o RowValues(k, n)
    BY LeadingRowsRecursion
  <1> HIDE DEF Lead
  <1> DEFINE Stage(n) == n <= NumRows =>
               \A row \in 0 .. n :
                 /\ Len(Lead(row)) <= Len(Lead(n))
                 /\ row < n => \A j \in 1 .. Len(RowValues(k, row)) :
                                 /\ Len(Lead(row)) + j <= Len(Lead(n))
                                 /\ Lead(n)[Len(Lead(row)) + j] = RowValues(k, row)[j]
             N == {n \in Nat : Stage(n)}
  <1>4. \A n \in 0 .. NumRows : Len(Lead(n)) \in Nat
    BY <1>0, <1>3
  <1>5. \A n \in 0 .. (NumRows - 1) :
          /\ Len(Lead(n + 1)) = Len(Lead(n)) + Len(RowValues(k, n))
          /\ Len(RowValues(k, n)) \in Nat \ {0}
          /\ \A j \in 1 .. Len(Lead(n)) : Lead(n + 1)[j] = Lead(n)[j]
          /\ \A j \in 1 .. Len(RowValues(k, n)) : Lead(n + 1)[Len(Lead(n)) + j] = RowValues(k, n)[j]
    <2> TAKE n \in 0 .. (NumRows - 1)
    <2> DEFINE s == Lead(n)
               t == RowValues(k, n)
    <2>1. s \in Seq(RowsValue) /\ t \in Seq(RowsValue) /\ Len(t) \in Nat \ {0} /\ Lead(n + 1) = s \o t
      BY <1>0, <1>3, RowValuesType
    <2> HIDE DEF s, t
    <2>2. /\ Len(s \o t) = Len(s) + Len(t)
          /\ \A j \in 1 .. Len(s) : (s \o t)[j] = s[j]
          /\ \A j \in 1 .. Len(t) : (s \o t)[Len(s) + j] = t[j]
      BY <2>1
    <2>3. Lead(n + 1) = s \o t
      BY <2>1
    <2> QED BY <2>1, <2>2, <2>3 DEF s, t
  <1>6. Stage(0)
    BY <1>4
  <1>7. ASSUME NEW n \in Nat, Stage(n) PROVE Stage(n + 1)
    <2> SUFFICES ASSUME n + 1 <= NumRows, NEW row \in 0 .. (n + 1)
                 PROVE  /\ Len(Lead(row)) <= Len(Lead(n + 1))
                        /\ row < n + 1 => \A j \in 1 .. Len(RowValues(k, row)) :
                                 /\ Len(Lead(row)) + j <= Len(Lead(n + 1))
                                 /\ Lead(n + 1)[Len(Lead(row)) + j] = RowValues(k, row)[j]
      OBVIOUS
    <2>1. /\ n \in 0 .. (NumRows - 1) /\ n \in 0 .. NumRows /\ n + 1 \in 0 .. NumRows
          /\ Len(Lead(n)) \in Nat /\ Len(Lead(n + 1)) \in Nat /\ Len(Lead(n + 1)) >= Len(Lead(n))
          /\ Len(Lead(n + 1)) = Len(Lead(n)) + Len(RowValues(k, n))
      BY <1>0, <1>4, <1>5
    <2>2. CASE row = n + 1
      BY <2>1, <2>2
    <2>3. CASE row = n
      BY <1>5, <2>1, <2>3
    <2>4. CASE row < n
      <3>1. row \in 0 .. n /\ row \in 0 .. NumRows /\ row \in 0 .. (NumRows - 1)
        BY <1>0, <2>1, <2>4
      <3>2. /\ Len(Lead(row)) <= Len(Lead(n)) /\ Len(Lead(row)) \in Nat
            /\ Len(RowValues(k, row)) \in Nat
            /\ \A j \in 1 .. Len(RowValues(k, row)) :
                 /\ Len(Lead(row)) + j <= Len(Lead(n))
                 /\ Lead(n)[Len(Lead(row)) + j] = RowValues(k, row)[j]
        <4>1. n <= NumRows
          BY <1>0, <2>1
        <4> QED BY <1>4, <1>5, <1>7, <2>4, <3>1, <4>1
      <3>3. \A j \in 1 .. Len(RowValues(k, row)) :
               /\ Len(Lead(row)) + j \in 1 .. Len(Lead(n))
               /\ Lead(n + 1)[Len(Lead(row)) + j] = Lead(n)[Len(Lead(row)) + j]
        <4> TAKE j \in 1 .. Len(RowValues(k, row))
        <4>1. Len(Lead(row)) + j \in 1 .. Len(Lead(n))
          BY <2>1, <3>2
        <4> QED BY <1>5, <2>1, <4>1
      <3>4. \A j \in 1 .. Len(RowValues(k, row)) : Len(Lead(row)) + j <= Len(Lead(n + 1))
        BY <2>1, <3>2
      <3> QED BY <2>1, <3>2, <3>3, <3>4
    <2> QED BY <2>2, <2>3, <2>4
  <1> HIDE DEF Stage
  <1>8. N \in SUBSET Nat /\ 0 \in N /\ \A n \in N : n + 1 \in N
    BY <1>6, <1>7
  <1> HIDE DEF N
  <1>9. Stage(NumRows)
    BY <1>0, <1>8, SetInduction DEF N
  <1>10. \A row \in Nat : ValuesBefore(k, row) \in 0 .. Len(Values(k))
    <2> TAKE row \in Nat
    <2>1. CASE row < NumRows
      BY <1>0, <1>1, <1>2, <1>4, <1>9, <2>1 DEF Stage
    <2>2. CASE ~(row < NumRows)
      BY <1>0, <1>1, <1>2, <1>4, <2>2
    <2> QED BY <2>1, <2>2
  <1>11. ASSUME NEW row \in 0 .. (NumRows - 1)
         PROVE  /\ ValuesBefore(k, row + 1) = ValuesBefore(k, row) + Len(RowValues(k, row))
                /\ \A j \in 1 .. Len(RowValues(k, row)) :
                     Values(k)[ValuesBefore(k, row) + j] = RowValues(k, row)[j]
    <2>1. /\ row \in Nat /\ row + 1 \in Nat /\ row < NumRows /\ row \in 0 .. NumRows
          /\ (~(row + 1 < NumRows) => row + 1 = NumRows)
      BY <1>0
    <2>2. ValuesBefore(k, row) = Len(Lead(row)) /\ ValuesBefore(k, row + 1) = Len(Lead(row + 1))
      BY <1>2, <2>1
    <2>3. \A j \in 1 .. Len(RowValues(k, row)) :
             Lead(NumRows)[Len(Lead(row)) + j] = RowValues(k, row)[j]
      <3>1. NumRows <= NumRows /\ row \in 0 .. NumRows /\ row < NumRows
        BY <1>0, <2>1
      <3>2. \A j \in 1 .. Len(RowValues(k, row)) :
               /\ Len(Lead(row)) + j <= Len(Lead(NumRows))
               /\ Lead(NumRows)[Len(Lead(row)) + j] = RowValues(k, row)[j]
        BY ONLY <1>9, <3>1 DEF Stage
      <3> QED BY ONLY <3>2
    <2> QED BY <1>1, <1>5, <2>2, <2>3
  <1>12. Values(k) \in Seq(RowsValue) /\ Len(Values(k)) \in Nat
    BY <1>0, <1>1, <1>3, <1>4
  <1>13. ValuesBefore(k, 0) = 0
    BY <1>0, <1>2, <1>3
  <1>14. \A row \in Nat : row >= NumRows => ValuesBefore(k, row) = Len(Values(k))
    BY <1>0, <1>1, <1>2
  <1> QED BY <1>0, <1>10, <1>11, <1>12, <1>13, <1>14

-----------------------------------------------------------------------------
(* The inductive invariant. *)

ColumnRows == [next : Nat, avail : Nat]
RowsCall == [pc : {"idle", "reading", "failed"}, rowIndex : Nat, begun : BOOLEAN, n : Nat,
             column : {1, 2, 3}, i : Nat \ {0}, numValuesInRow : {0, 1}, eof : BOOLEAN,
             rowCount : Nat]
RowsReader == [rowIndex : Nat, open : BOOLEAN, calls : Nat, reset : BOOLEAN]

\* The values of column k that rows have been made of.
Taken(k) == cols[k].next - cols[k].avail

RowsTypeOK ==
    /\ cols \in [Columns -> ColumnRows]
    /\ \A k \in Columns : /\ cols[k].avail <= cols[k].next
                          /\ cols[k].next <= Len(Values(k))
    /\ r \in RowsCall /\ reader \in RowsReader

\* Reader and rowGroupRows count the same rows, until Reset.
ReadersAgree ==
    /\ r.begun <=> reader.open
    /\ (reader.open /\ ~reader.reset) => r.rowIndex = reader.rowIndex
    /\ r.pc = "reading" => reader.open

\* Between calls, every column stands before the first value of the same row.
ColumnsAtRow ==
    (r.pc = "idle" /\ reader.open) =>
        \A k \in Columns : Taken(k) = ValuesBefore(k, reader.rowIndex)

\* The values of column k in a row, none behind the last row.
ValuesOfRow(k, row) == IF row < NumRows THEN RowValues(k, row) ELSE << >>

\* Those of the row of the slice at a, and those of the columns before column k.
AllOf(k, a) == ValuesOfRow(k, reader.rowIndex + a - 1)
AllBefore(k, a) == IF k = 1 THEN << >>
                   ELSE IF k = 2 THEN AllOf(1, a)
                   ELSE AllOf(1, a) \o AllOf(2, a)

\* The values of the row that is being assembled.
TakenOfRow == Taken(r.column) - ValuesBefore(r.column, reader.rowIndex + r.i - 1)

\* The loop over columns and rows: where each column stands.
LoopPlaces ==
    r.pc = "reading" =>
        /\ r.i <= r.n + 1
        /\ r.eof => r.n > 0
        /\ \A k \in Columns :
              /\ k < r.column => Taken(k) = ValuesBefore(k, reader.rowIndex + r.n)
              /\ k > r.column => Taken(k) = ValuesBefore(k, reader.rowIndex)
        /\ r.column \in Columns =>
              /\ TakenOfRow \in 0 .. Len(AllOf(r.column, r.i))
              /\ r.numValuesInRow = 1 => TakenOfRow = 0
              /\ r.numValuesInRow = 0 => TakenOfRow > 0 /\ r.i <= r.n

\* ... and what the rows of the slice hold.
LoopRows ==
    r.pc = "reading" =>
        /\ batch \in Seq(Seq(RowsValue)) /\ Len(batch) = r.n
        /\ \A a \in 1 .. r.n :
              /\ r.column \in Columns /\ a < r.i => batch[a] = AllBefore(r.column + 1, a)
              /\ r.column \in Columns /\ a = r.i =>
                    batch[a] = AllBefore(r.column, a) \o SubSeq(AllOf(r.column, a), 1, TakenOfRow)
              /\ r.column \notin Columns \/ a > r.i => batch[a] = AllBefore(r.column, a)

\* As many of the next a rows as there are.
RowsLeft(a) ==
    IF reader.rowIndex + a <= NumRows THEN a
    ELSE IF reader.rowIndex <= NumRows THEN NumRows - reader.rowIndex ELSE 0

LoopCount ==
    r.pc = "reading" =>
        r.rowCount = IF r.column > 1 THEN RowsLeft(r.n)
                     ELSE IF TakenOfRow > 0 THEN r.i ELSE RowsLeft(r.i - 1)

RowsInv == /\ RowsTypeOK /\ ReadersAgree /\ ColumnsAtRow
           /\ LoopPlaces /\ LoopRows /\ LoopCount /\ RowsWhole

-----------------------------------------------------------------------------
\* Rows lie one behind the other, also behind the last one.
LEMMA RowsOneByOne ==
  ASSUME NEW k \in Columns, NEW row \in Nat
  PROVE  /\ NumRows \in Nat
         /\ ValuesOfRow(k, row) \in Seq(RowsValue) /\ Len(ValuesOfRow(k, row)) \in Nat
         /\ row < NumRows <=> Len(ValuesOfRow(k, row)) > 0
         /\ row < NumRows => ValuesOfRow(k, row) = RowValues(k, row)
         /\ ValuesBefore(k, row) \in Nat
         /\ ValuesBefore(k, row + 1) = ValuesBefore(k, row) + Len(ValuesOfRow(k, row))
         /\ ValuesBefore(k, row + 1) <= Len(Values(k))
         /\ row >= NumRows => ValuesBefore(k, row) = Len(Values(k))
         /\ \A j \in 1 .. Len(ValuesOfRow(k, row)) :
              /\ Values(k)[ValuesBefore(k, row) + j] = ValuesOfRow(k, row)[j]
              /\ ValuesOfRow(k, row)[j].rep = IF j = 1 THEN 0 ELSE 1
              /\ ValuesOfRow(k, row)[j].row = row
  <1>1. NumRows \in Nat /\ row + 1 \in Nat
    BY ValuesLayout
  <1>2. CASE row < NumRows
    <2>1. row \in 0 .. (NumRows - 1) /\ ValuesOfRow(k, row) = RowValues(k, row)
      BY <1>1, <1>2 DEF ValuesOfRow
    <2>2. /\ RowValues(k, row) \in Seq(RowsValue) /\ Len(RowValues(k, row)) \in Nat \ {0}
          /\ \A j \in 1 .. Len(RowValues(k, row)) :
               RowValues(k, row)[j] = Value(k, row, IF j = 1 THEN 0 ELSE 1)
      BY <2>1, RowValuesType
    <2>3. \A j \in 1 .. Len(RowValues(k, row)) :
             /\ RowValues(k, row)[j].rep = IF j = 1 THEN 0 ELSE 1
             /\ RowValues(k, row)[j].row = row
      <3> TAKE j \in 1 .. Len(RowValues(k, row))
      <3> DEFINE b == IF j = 1 THEN 0 ELSE 1
      <3>1. RowValues(k, row)[j] = Value(k, row, b)
        BY <2>2
      <3>2. Value(k, row, b).rep = b /\ Value(k, row, b).row = row
        BY DEF Value
      <3> QED BY <3>1, <3>2
    <2>4. /\ ValuesBefore(k, row + 1) = ValuesBefore(k, row) + Len(RowValues(k, row))
          /\ \A j \in 1 .. Len(RowValues(k, row)) :
               Values(k)[ValuesBefore(k, row) + j] = RowValues(k, row)[j]
      BY <2>1, ValuesLayout
    <2>5. ValuesBefore(k, row) \in 0 .. Len(Values(k)) /\ ValuesBefore(k, row + 1) \in 0 .. Len(Values(k))
      BY <1>1, ValuesLayout
    <2> QED BY <1>1, <1>2, <2>1, <2>2, <2>3, <2>4, <2>5
  <1>3. CASE ~(row < NumRows)
    <2>1. ValuesOfRow(k, row) = << >>
      BY <1>3 DEF ValuesOfRow
    <2>2. << >> \in Seq(RowsValue) /\ Len(<< >>) = 0
      OBVIOUS
    <2>3. row >= NumRows /\ row + 1 >= NumRows
      BY <1>1, <1>3
    <2>4. /\ ValuesBefore(k, row) = Len(Values(k)) /\ ValuesBefore(k, row + 1) = Len(Values(k))
          /\ Len(Values(k)) \in Nat
      BY <1>1, <2>3, ValuesLayout
    <2> QED BY <1>1, <1>3, <2>1, <2>2, <2>4
  <1> QED BY <1>2, <1>3

\* What the types say of a column and of the call.
LEMMA RowsParts ==
  ASSUME RowsTypeOK
  PROVE  /\ \A k \in Columns :
              /\ cols[k].next \in Nat /\ cols[k].avail \in Nat
              /\ cols[k].avail <= cols[k].next /\ cols[k].next <= Len(Values(k))
              /\ Taken(k) \in Nat /\ Taken(k) + cols[k].avail = cols[k].next
         /\ r.pc \in {"idle", "reading", "failed"} /\ r.rowIndex \in Nat /\ r.begun \in BOOLEAN
         /\ r.n \in Nat /\ r.column \in {1, 2, 3} /\ r.i \in Nat \ {0}
         /\ r.numValuesInRow \in {0, 1} /\ r.eof \in BOOLEAN /\ r.rowCount \in Nat
         /\ reader.rowIndex \in Nat /\ reader.open \in BOOLEAN
         /\ reader.calls \in Nat /\ reader.reset \in BOOLEAN
         /\ \A a \in Nat \ {0} : reader.rowIndex + a - 1 \in Nat
  <1>1. \A k \in Columns : cols[k] \in ColumnRows
    BY DEF RowsTypeOK
  <1>2. \A k \in Columns :
              /\ cols[k].next \in Nat /\ cols[k].avail \in Nat
              /\ cols[k].avail <= cols[k].next /\ cols[k].next <= Len(Values(k))
    BY <1>1 DEF RowsTypeOK, ColumnRows
  <1>3. \A k \in Columns : Taken(k) \in Nat /\ Taken(k) + cols[k].avail = cols[k].next
    BY <1>2 DEF Taken
  <1>4. r \in RowsCall /\ reader \in RowsReader
    BY DEF RowsTypeOK
  <1> QED BY <1>2, <1>3, <1>4 DEF RowsCall, RowsReader

\* The smallest element of a set is unique.
LEMMA MinIs ==
  ASSUME NEW S \in SUBSET Nat, NEW v \in S, \A y \in S : v <= y
  PROVE  Min(S) = v
  <1>1. \E x \in S : \A y \in S : x <= y
    OBVIOUS
  <1>2. Min(S) \in S /\ \A y \in S : Min(S) <= y
    BY <1>1 DEF Min
  <1> DEFINE least == Min(S)
  <1>3. least \in Nat /\ v \in Nat /\ least <= v /\ v <= least
    BY <1>2
  <1> HIDE DEF least
  <1>4. least = v
    BY <1>3
  <1> QED BY <1>4 DEF least

\* The place of the column that is read, in the row that is assembled.
LEMMA PlaceInRow ==
  ASSUME RowsTypeOK, LoopPlaces, InLoop, NEW k, k = r.column, NEW row, row = reader.rowIndex + r.i - 1
  PROVE  /\ k \in Columns /\ row \in Nat
         /\ Taken(k) \in Nat /\ Taken(k) = ValuesBefore(k, row) + TakenOfRow
         /\ TakenOfRow \in 0 .. Len(ValuesOfRow(k, row)) /\ AllOf(k, r.i) = ValuesOfRow(k, row)
         /\ r.numValuesInRow = 1 => TakenOfRow = 0
         /\ r.numValuesInRow = 0 => TakenOfRow > 0
         /\ r.i <= r.n
  <1>1. k \in Columns /\ row \in Nat /\ r.i <= r.n /\ r.pc = "reading"
    BY RowsParts DEF InLoop
  <1>2. /\ TakenOfRow \in 0 .. Len(AllOf(k, r.i))
        /\ r.numValuesInRow = 1 => TakenOfRow = 0
        /\ r.numValuesInRow = 0 => TakenOfRow > 0
    BY <1>1 DEF LoopPlaces
  <1>3. AllOf(k, r.i) = ValuesOfRow(k, row)
    BY DEF AllOf
  <1>4. TakenOfRow = Taken(k) - ValuesBefore(k, row)
    BY DEF TakenOfRow
  <1>5. Taken(k) \in Nat /\ ValuesBefore(k, row) \in Nat /\ Len(ValuesOfRow(k, row)) \in Nat
    BY <1>1, RowsParts, RowsOneByOne
  <1> QED BY <1>1, <1>2, <1>3, <1>4, <1>5

\* The loop over the buffer finds the end of the row, or of the buffer.
LEMMA ValuesInRowIs ==
  ASSUME RowsTypeOK, LoopPlaces, InLoop, Col.avail > 0,
         NEW k, k = r.column, NEW row, row = reader.rowIndex + r.i - 1
  PROVE  LET rest == Len(ValuesOfRow(k, row)) - TakenOfRow
         IN  /\ row < NumRows
             /\ Len(Buffered) = Col.avail /\ Col.avail \in Nat
             /\ ValuesInRow = IF Col.avail <= rest THEN Col.avail ELSE rest
             /\ ValuesInRow \in Nat /\ rest \in Nat
             /\ SubSeq(Buffered, 1, ValuesInRow) =
                  SubSeq(ValuesOfRow(k, row), TakenOfRow + 1, TakenOfRow + ValuesInRow)
  <1> DEFINE vals == Values(k)
             R == ValuesOfRow(k, row)
             taken == TakenOfRow
             rest == Len(R) - taken
             begin == ValuesBefore(k, row)
             t == Taken(k)
             avail == Col.avail
             v == IF avail <= rest THEN avail ELSE rest
             ends == {x \in r.numValuesInRow..Len(Buffered) :
                        x = Len(Buffered) \/ Buffered[x + 1].rep = 0}
  <1>1. /\ k \in Columns /\ row \in Nat /\ t \in Nat /\ t = begin + taken
        /\ taken \in 0 .. Len(R) /\ Len(R) \in Nat /\ begin \in Nat
        /\ r.numValuesInRow \in {0, 1}
        /\ r.numValuesInRow = 1 => taken = 0
        /\ r.numValuesInRow = 0 => taken > 0
    <2>1. /\ k \in Columns /\ row \in Nat /\ t \in Nat /\ t = begin + taken
          /\ taken \in 0 .. Len(R)
          /\ r.numValuesInRow = 1 => taken = 0
          /\ r.numValuesInRow = 0 => taken > 0
      BY PlaceInRow
    <2>2. Len(R) \in Nat /\ begin \in Nat
      BY <2>1, RowsOneByOne
    <2>3. r.numValuesInRow \in {0, 1}
      BY RowsParts
    <2> QED BY <2>1, <2>2, <2>3
  <1>2. /\ avail \in Nat \ {0} /\ cols[k].next = t + avail /\ t + avail <= Len(vals)
        /\ avail = cols[k].avail
    <2>1. avail = cols[k].avail
      BY DEF Col
    <2>2. /\ cols[k].next \in Nat /\ cols[k].avail \in Nat
          /\ cols[k].next <= Len(vals) /\ t + cols[k].avail = cols[k].next
      BY <1>1, RowsParts
    <2>3. avail > 0
      OBVIOUS
    <2> HIDE DEF avail, t, vals
    <2> QED BY <2>1, <2>2, <2>3
  <1>3. NumRows \in Nat /\ vals \in Seq(RowsValue) /\ Len(vals) \in Nat
    BY <1>1, ValuesLayout
  <1>4. row < NumRows
    <2> SUFFICES ASSUME row >= NumRows PROVE FALSE
      BY <1>1, <1>3
    <2>1. begin = Len(vals) /\ Len(R) = 0
      BY <1>1, <1>3, RowsOneByOne
    <2> QED BY <1>1, <1>2, <1>3, <2>1
  <1>5. /\ Len(R) > 0
        /\ begin + Len(R) <= Len(vals)
        /\ \A j \in 1 .. Len(R) : vals[begin + j] = R[j] /\ R[j].rep = IF j = 1 THEN 0 ELSE 1
    BY <1>1, <1>4, RowsOneByOne
  <1>6. begin + Len(R) < Len(vals) => vals[begin + Len(R) + 1].rep = 0
    <2> DEFINE after == row + 1
    <2>1. after \in Nat /\ ValuesBefore(k, after) = begin + Len(R)
      <3>1. k \in Columns /\ row \in Nat /\ after \in Nat
        BY <1>1
      <3>2. ValuesBefore(k, row + 1) = ValuesBefore(k, row) + Len(ValuesOfRow(k, row))
        BY ONLY <3>1, RowsOneByOne
      <3> QED BY ONLY <3>1, <3>2
    <2> HIDE DEF after
    <2> SUFFICES ASSUME begin + Len(R) < Len(vals) PROVE vals[begin + Len(R) + 1].rep = 0
      OBVIOUS
    <2>2. after < NumRows
      <3> SUFFICES ASSUME after >= NumRows PROVE FALSE
        BY <1>3, <2>1
      <3>1. ValuesBefore(k, after) = Len(vals)
        BY <1>1, <2>1, RowsOneByOne
      <3> QED BY <1>1, <1>3, <2>1, <3>1
    <2>3. /\ Len(ValuesOfRow(k, after)) \in Nat /\ Len(ValuesOfRow(k, after)) > 0
          /\ \A j \in 1 .. Len(ValuesOfRow(k, after)) :
               /\ Values(k)[ValuesBefore(k, after) + j] = ValuesOfRow(k, after)[j]
               /\ ValuesOfRow(k, after)[j].rep = IF j = 1 THEN 0 ELSE 1
      <3>1. /\ Len(ValuesOfRow(k, after)) \in Nat
            /\ after < NumRows <=> Len(ValuesOfRow(k, after)) > 0
        BY <1>1, <2>1, RowsOneByOne
      <3>2. \A j \in 1 .. Len(ValuesOfRow(k, after)) :
               /\ Values(k)[ValuesBefore(k, after) + j] = ValuesOfRow(k, after)[j]
               /\ ValuesOfRow(k, after)[j].rep = IF j = 1 THEN 0 ELSE 1
        <4>1. k \in Columns /\ after \in Nat
          BY <1>1, <2>1
        <4> QED BY ONLY <4>1, RowsOneByOne
      <3> QED BY <2>2, <3>1, <3>2
    <2>4. 1 \in 1 .. Len(ValuesOfRow(k, after))
      BY <2>3
    <2> QED BY <2>1, <2>3, <2>4
  <1>7. /\ Buffered \in Seq(RowsValue) /\ Len(Buffered) = avail
        /\ \A x \in 1 .. avail : Buffered[x] = vals[t + x]
    <2> DEFINE lo == t + 1
               hi == t + avail
    <2>1. Buffered = SubSeq(vals, lo, hi)
      <3>1. Col.next - Col.avail + 1 = lo /\ Col.next = hi
        BY <1>1, <1>2 DEF Col
      <3> QED BY <3>1 DEF Buffered
    <2>2. lo \in Int /\ hi \in Int /\ \A i \in lo .. hi : vals[i] \in RowsValue
      BY <1>1, <1>2, <1>3
    <2> HIDE DEF lo, hi, vals
    <2>3. /\ SubSeq(vals, lo, hi) \in Seq(RowsValue)
          /\ Len(SubSeq(vals, lo, hi)) = IF lo <= hi THEN hi - lo + 1 ELSE 0
          /\ \A i \in 1 .. hi - lo + 1 : SubSeq(vals, lo, hi)[i] = vals[lo + i - 1]
      BY <2>2, SubSeqProperties
    <2>4. lo <= hi /\ hi - lo + 1 = avail /\ \A i \in 1 .. avail : lo + i - 1 = t + i
      BY <1>1, <1>2 DEF lo, hi
    <2> QED BY <2>1, <2>3, <2>4
  <1> HIDE DEF vals, R, taken, begin, t, avail
  <1>8. v \in Nat /\ rest \in Nat /\ v <= avail /\ v <= rest
    BY <1>1, <1>2
  <1>9. v \in ends
    <2>1. v \in r.numValuesInRow .. avail
      BY <1>1, <1>2, <1>5, <1>8
    <2>2. v = avail \/ Buffered[v + 1].rep = 0
      <3> SUFFICES ASSUME v # avail PROVE Buffered[v + 1].rep = 0
        OBVIOUS
      <3>1. v = rest /\ v + 1 \in 1 .. avail /\ rest < avail
        BY <1>1, <1>2, <1>8
      <3>2. t + (v + 1) = begin + Len(R) + 1 /\ begin + Len(R) < Len(vals)
        <4> HIDE DEF v
        <4>1. rest = Len(R) - taken
          OBVIOUS
        <4>2. v + 1 \in 1 .. avail /\ rest < avail /\ v = rest
          BY <3>1
        <4>3. t \in Nat /\ t = begin + taken /\ begin \in Nat /\ Len(R) \in Nat /\ taken \in 0 .. Len(R)
          BY <1>1
        <4>4. avail \in Nat /\ t + avail <= Len(vals) /\ Len(vals) \in Nat
          BY <1>2, <1>3
        <4> HIDE DEF rest
        <4> QED BY ONLY <4>1, <4>2, <4>3, <4>4
      <3> QED BY <1>6, <1>7, <3>1, <3>2
    <2> QED BY <1>7, <2>1, <2>2
  <1>10. \A y \in ends : v <= y
    <2> SUFFICES ASSUME NEW y \in ends, y < v PROVE FALSE
      BY <1>1, <1>2, <1>7, <1>8
    <2>1. /\ y \in Nat /\ r.numValuesInRow <= y /\ y <= avail
          /\ y = avail \/ Buffered[y + 1].rep = 0
      BY <1>1, <1>2, <1>7
    <2>2. Buffered[y + 1].rep = 0 /\ y + 1 \in 1 .. avail
      BY <1>2, <1>8, <2>1
    <2>3. taken + y + 1 \in 1 .. Len(R) /\ taken + y + 1 # 1 /\ t + (y + 1) = begin + (taken + y + 1)
      BY <1>1, <1>8, <2>1
    <2>4. vals[begin + (taken + y + 1)].rep = 1
      BY <1>5, <2>3
    <2> QED BY <1>7, <2>2, <2>3, <2>4
  <1>11. ValuesInRow = v
    <2>1. ends \in SUBSET Nat
      BY <1>1, <1>2, <1>7
    <2>2. ValuesInRow = Min(ends)
      BY DEF ValuesInRow
    <2> HIDE DEF ends, v
    <2> QED BY <1>9, <1>10, <2>1, <2>2, MinIs
  <1>12. SubSeq(Buffered, 1, v) = SubSeq(R, taken + 1, taken + v)
    <2> DEFINE lo == taken + 1
               hi == taken + v
               one == 1
    <2>0. R \in Seq(RowsValue)
      BY <1>1, RowsOneByOne DEF R
    <2>1. /\ one \in Int /\ v \in Int /\ lo \in Int /\ hi \in Int
          /\ \A i \in one .. v : Buffered[i] \in RowsValue
          /\ \A i \in lo .. hi : R[i] \in RowsValue
      <3>1. lo \in Int /\ hi \in Int /\ hi <= Len(R) /\ lo >= 1 /\ v <= Len(Buffered)
        BY <1>1, <1>2, <1>7, <1>8
      <3>2. \A i \in lo .. hi : i \in 1 .. Len(R)
        BY <1>1, <3>1
      <3>3. \A i \in one .. v : i \in 1 .. Len(Buffered)
        BY <1>2, <1>7, <1>8, <3>1
      <3>4. \A i \in 1 .. Len(R) : R[i] \in RowsValue
        BY <2>0
      <3>5. \A i \in 1 .. Len(Buffered) : Buffered[i] \in RowsValue
        BY <1>7
      <3> QED BY <1>8, <3>1, <3>2, <3>3, <3>4, <3>5
    <2>2. v - one + 1 = v /\ hi - lo + 1 = v /\ (one <= v <=> v > 0) /\ (lo <= hi <=> v > 0)
          /\ \A i \in 1 .. v : one + i - 1 = i /\ lo + i - 1 = taken + i
      BY <1>1, <1>8
    <2>3. \A i \in 1 .. v : Buffered[i] = R[taken + i]
      <3> TAKE i \in 1 .. v
      <3>1. i \in 1 .. avail /\ taken + i \in 1 .. Len(R) /\ t + i = begin + (taken + i)
        BY <1>1, <1>2, <1>8
      <3> QED BY <1>5, <1>7, <3>1
    <2> HIDE DEF lo, hi, v, one
    <2> DEFINE front == SubSeq(Buffered, one, v)
               B == SubSeq(R, lo, hi)
    <2>4. /\ front \in Seq(RowsValue)
          /\ Len(front) = IF one <= v THEN v - one + 1 ELSE 0
          /\ \A i \in 1 .. v - one + 1 : front[i] = Buffered[one + i - 1]
      BY <2>1, SubSeqProperties
    <2>5. /\ B \in Seq(RowsValue)
          /\ Len(B) = IF lo <= hi THEN hi - lo + 1 ELSE 0
          /\ \A i \in 1 .. hi - lo + 1 : B[i] = R[lo + i - 1]
      BY <2>1, SubSeqProperties
    <2> HIDE DEF front, B
    <2>6. Len(front) = v /\ Len(B) = v /\ \A i \in 1 .. v : front[i] = B[i]
      <3>1. v \in Nat
        BY <1>8 DEF v
      <3>2. Len(front) = v /\ Len(B) = v
        BY <2>2, <2>4, <2>5, <3>1
      <3>3. \A i \in 1 .. v : front[i] = Buffered[i] /\ B[i] = R[taken + i]
        <4> TAKE i \in 1 .. v
        <4>1. /\ front[i] = Buffered[one + i - 1] /\ B[i] = R[lo + i - 1]
              /\ one + i - 1 = i /\ lo + i - 1 = taken + i
          BY <2>2, <2>4, <2>5
        <4> QED BY <4>1
      <3> QED BY <2>3, <3>2, <3>3
    <2>7. front = B
      BY <2>4, <2>5, <2>6, SeqEqual
    <2> QED BY <2>7 DEF front, B, one, lo, hi
  <1>13. row < NumRows /\ Len(Buffered) = Col.avail /\ Col.avail \in Nat
    BY <1>2, <1>4, <1>7 DEF avail
  <1> QED BY <1>8, <1>11, <1>12, <1>13 DEF R, taken, avail

-----------------------------------------------------------------------------
\* More values of a row behind those that were taken.
LEMMA TakenAndMore ==
  ASSUME NEW T, NEW front \in Seq(T), NEW R \in Seq(T), NEW t \in Nat, NEW v \in Nat,
         t + v <= Len(R)
  PROVE  (front \o SubSeq(R, 1, t)) \o SubSeq(R, t + 1, t + v) = front \o SubSeq(R, 1, t + v)
  <1> DEFINE one == 1
             sum == t + v
             B == SubSeq(R, one, t)
             D == SubSeq(R, t + 1, sum)
  <1>1. Len(R) \in Nat /\ \A i \in 1 .. Len(R) : R[i] \in T
    OBVIOUS
  <1>2. one \in Int /\ t \in Int /\ \A i \in one .. t : R[i] \in T
    BY <1>1
  <1>3. sum \in Int /\ t + 1 \in Int /\ \A i \in (t + 1) .. sum : R[i] \in T
    BY <1>1
  <1>4. B \in Seq(T)
    BY <1>2, SubSeqProperties
  <1>5. D \in Seq(T)
    BY <1>3, SubSeqProperties
  <1>6. one \in 1 .. Len(R) + 1 /\ t \in one - 1 .. Len(R) /\ sum \in t .. Len(R)
    BY <1>1
  <1>7. B \o D = SubSeq(R, one, sum)
    BY <1>6, ConcatAdjacentSubSeq
  <1> HIDE DEF B, D
  <1>8. (front \o B) \o D = front \o (B \o D)
    <2>1. front \in Seq(T)
      OBVIOUS
    <2> QED BY ONLY <1>4, <1>5, <2>1
  <1> QED BY <1>7, <1>8 DEF B, D

\* The columns of a row, one after the other.
LEMMA ColumnsOfRow ==
  ASSUME RowsTypeOK, NEW a \in Nat \ {0}
  PROVE  /\ \A k \in {1, 2, 3} : AllBefore(k, a) \in Seq(RowsValue)
         /\ \A k \in Columns :
              /\ AllOf(k, a) \in Seq(RowsValue) /\ Len(AllOf(k, a)) \in Nat
              /\ AllBefore(k + 1, a) = AllBefore(k, a) \o AllOf(k, a)
              /\ AllBefore(k, a) \o SubSeq(AllOf(k, a), 1, 0) = AllBefore(k, a)
              /\ SubSeq(AllOf(k, a), 1, Len(AllOf(k, a))) = AllOf(k, a)
  <1> DEFINE one == AllOf(1, a)
             two == AllOf(2, a)
  <1>1. one \in Seq(RowsValue) /\ two \in Seq(RowsValue) /\ Len(one) \in Nat /\ Len(two) \in Nat
    BY RowsParts, RowsOneByOne DEF Columns, AllOf
  <1>2. AllBefore(1, a) = << >> /\ AllBefore(2, a) = one /\ AllBefore(3, a) = one \o two
    BY DEF AllBefore
  <1> HIDE DEF one, two
  <1>3. << >> \in Seq(RowsValue) /\ << >> \o one = one /\ one \o two \in Seq(RowsValue)
    BY <1>1, ConcatProperties, ConcatEmptySeq
  <1>4. \A s \in Seq(RowsValue), u \in Seq(RowsValue) :
          s \o SubSeq(u, 1, 0) = s /\ SubSeq(u, 1, Len(u)) = u
    <2> TAKE s \in Seq(RowsValue), u \in Seq(RowsValue)
    <2>1. SubSeq(u, 1, 0) = << >>
      BY SubSeqEmpty
    <2> QED BY <2>1, ConcatEmptySeq, SubSeqFull
  <1>5. /\ AllBefore(1, a) \in Seq(RowsValue) /\ AllBefore(2, a) \in Seq(RowsValue)
        /\ AllBefore(3, a) \in Seq(RowsValue)
    BY <1>1, <1>2, <1>3
  <1>6. AllBefore(2, a) = AllBefore(1, a) \o one /\ AllBefore(3, a) = AllBefore(2, a) \o two
    BY <1>2, <1>3
  <1>7. /\ AllBefore(1, a) \o SubSeq(one, 1, 0) = AllBefore(1, a) /\ SubSeq(one, 1, Len(one)) = one
        /\ AllBefore(2, a) \o SubSeq(two, 1, 0) = AllBefore(2, a) /\ SubSeq(two, 1, Len(two)) = two
    BY <1>1, <1>4, <1>5
  <1>8. \A k \in {1, 2, 3} : AllBefore(k, a) \in Seq(RowsValue)
    BY <1>5
  <1>9. ASSUME NEW k \in Columns
        PROVE  /\ AllOf(k, a) \in Seq(RowsValue) /\ Len(AllOf(k, a)) \in Nat
               /\ AllBefore(k + 1, a) = AllBefore(k, a) \o AllOf(k, a)
               /\ AllBefore(k, a) \o SubSeq(AllOf(k, a), 1, 0) = AllBefore(k, a)
               /\ SubSeq(AllOf(k, a), 1, Len(AllOf(k, a))) = AllOf(k, a)
    <2>1. k = 1 \/ k = 2
      BY DEF Columns
    <2>2. CASE k = 1
      BY <1>1, <1>6, <1>7, <2>2 DEF one
    <2>3. CASE k = 2
      BY <1>1, <1>6, <1>7, <2>3 DEF two
    <2> QED BY <2>1, <2>2, <2>3
  <1> QED BY <1>8, <1>9

\* A column has given all its values to a row of the slice.
LEMMA RowEnds ==
  ASSUME RowsInv, InLoop, RowsTypeOK', NEW k, k = r.column, NEW i, i = r.i,
         UNCHANGED <<reader, answer>>,
         r'.pc = "reading", r'.column = k, r'.i = i + 1, r'.n = r.n, r'.numValuesInRow = 1,
         r'.rowIndex = r.rowIndex, r'.begun = r.begun,
         r'.rowCount = IF k > 1 THEN r.rowCount ELSE RowsLeft(i),
         Taken(k)' = ValuesBefore(k, reader.rowIndex + i),
         \A j \in Columns : j # k => Taken(j)' = Taken(j),
         batch' \in Seq(Seq(RowsValue)), Len(batch') = r.n,
         batch'[i] = AllBefore(k + 1, i),
         \A a \in 1 .. r.n : a # i => batch'[a] = batch[a]
  PROVE  RowsInv'
  <1>1. /\ RowsTypeOK /\ ReadersAgree /\ LoopPlaces /\ LoopRows /\ LoopCount
    BY DEF RowsInv
  <1>2. /\ k \in Columns /\ i \in Nat \ {0} /\ r.n \in Nat /\ i <= r.n /\ r.pc = "reading"
        /\ reader.rowIndex \in Nat /\ k \in {1, 2}
    BY <1>1, RowsParts DEF InLoop, Columns
  <1>3. ReadersAgree'
    BY <1>1, <1>2 DEF ReadersAgree
  <1>4. \A j, a : AllOf(j, a)' = AllOf(j, a) /\ AllBefore(j, a)' = AllBefore(j, a)
    BY DEF AllOf, AllBefore, ValuesOfRow, RowValues
  <1>5. \A a : RowsLeft(a)' = RowsLeft(a)
    BY DEF RowsLeft
  <1>6. TakenOfRow' = 0
    <2>1. TakenOfRow' = Taken(k)' - ValuesBefore(k, reader.rowIndex + (i + 1) - 1)
      BY DEF TakenOfRow, Taken, ValuesBefore, RowValues
    <2>2. reader.rowIndex + (i + 1) - 1 = reader.rowIndex + i /\ reader.rowIndex + i \in Nat
      BY <1>2
    <2>3. ValuesBefore(k, reader.rowIndex + i) \in Nat
      BY <1>2, <2>2, RowsOneByOne
    <2> QED BY <2>1, <2>2, <2>3
  <1>7. LoopPlaces'
    <2>1. r'.i <= r'.n + 1 /\ (r'.eof => r'.n > 0)
      BY <1>2
    <2>2. ASSUME NEW j \in Columns
          PROVE  /\ j < k => Taken(j)' = ValuesBefore(j, reader'.rowIndex + r'.n)
                 /\ j > k => Taken(j)' = ValuesBefore(j, reader'.rowIndex)
      BY <1>1, <1>2 DEF LoopPlaces, Columns
    <2>3. 0 \in 0 .. Len(AllOf(k, i + 1))
      BY <1>1, <1>2, ColumnsOfRow
    <2>4. \A j \in Columns :
             /\ j < r'.column => Taken(j)' = ValuesBefore(j, reader'.rowIndex + r'.n)
             /\ j > r'.column => Taken(j)' = ValuesBefore(j, reader'.rowIndex)
      BY <2>2
    <2>5. TakenOfRow' \in 0 .. Len(AllOf(r.column, i + 1)) /\ AllOf(k, i + 1)' = AllOf(k, i + 1)
      BY <1>4, <1>6, <2>3
    <2> QED BY <1>6, <2>1, <2>4, <2>5 DEF LoopPlaces
  <1>8. LoopRows'
    <2> SUFFICES ASSUME NEW a \in 1 .. r.n
                 PROVE  /\ a < i + 1 => batch'[a] = AllBefore(k + 1, a)
                        /\ a = i + 1 => batch'[a] = AllBefore(k, a) \o SubSeq(AllOf(k, a), 1, 0)
                        /\ a > i + 1 => batch'[a] = AllBefore(k, a)
      BY <1>2, <1>4, <1>6 DEF LoopRows
    <2>1. /\ a < i => batch[a] = AllBefore(k + 1, a)
          /\ a > i => batch[a] = AllBefore(k, a)
      BY <1>1, <1>2 DEF LoopRows
    <2>2. AllBefore(k, a) \o SubSeq(AllOf(k, a), 1, 0) = AllBefore(k, a)
      <3>1. a \in Nat \ {0}
        BY <1>2
      <3> QED BY <1>1, <1>2, <3>1, ColumnsOfRow
    <2>3. a # i => batch'[a] = batch[a]
      OBVIOUS
    <2>4. a = i => batch'[a] = AllBefore(k + 1, a)
      OBVIOUS
    <2>5. a \in Int /\ i \in Int
      BY <1>2
    <2>6. CASE a < i
      <3>1. a < i + 1 /\ a # i + 1 /\ ~(a > i + 1) /\ a # i
        BY ONLY <2>5, <2>6
      <3> QED BY ONLY <2>1, <2>3, <2>6, <3>1
    <2>7. CASE a = i
      <3>1. a < i + 1 /\ a # i + 1 /\ ~(a > i + 1)
        BY ONLY <2>5, <2>7
      <3> QED BY ONLY <2>4, <2>7, <3>1
    <2>8. CASE a > i
      <3>1. ~(a < i + 1) /\ a # i
        BY ONLY <2>5, <2>8
      <3> QED BY ONLY <2>1, <2>2, <2>3, <2>8, <3>1
    <2> QED BY ONLY <2>5, <2>6, <2>7, <2>8
  <1>9. LoopCount'
    <2>1. k > 1 => r.rowCount = RowsLeft(r.n)
      BY <1>1, <1>2 DEF LoopCount
    <2>2. (i + 1) - 1 = i
      BY <1>2
    <2>3. r'.rowCount = IF k > 1 THEN RowsLeft(r'.n) ELSE RowsLeft(r'.i - 1)
      BY <2>1, <2>2
    <2> QED BY <1>5, <1>6, <2>3 DEF LoopCount
  <1>10. ColumnsAtRow' /\ RowsWhole'
    BY DEF ColumnsAtRow, RowsWhole
  <1> QED BY <1>3, <1>7, <1>8, <1>9, <1>10 DEF RowsInv

\* Up to the row that is being assembled there are as many rows as it says.
LEMMA RowsLeftIs ==
  ASSUME RowsTypeOK, NEW a \in Nat
  PROVE  /\ RowsLeft(a) \in Nat /\ RowsLeft(a) <= a
         /\ reader.rowIndex + a <= NumRows => RowsLeft(a) = a
         /\ reader.rowIndex + a >= NumRows => RowsLeft(a + 1) = RowsLeft(a)
         /\ \A b \in Nat : a <= b => RowsLeft(a) <= RowsLeft(b)
         /\ RowsLeft(a) < a => reader.rowIndex + RowsLeft(a) >= NumRows
         /\ RowsLeft(a) > 0 => reader.rowIndex + RowsLeft(a) <= NumRows
  <1>1. reader.rowIndex \in Nat /\ NumRows \in Nat
    BY RowsParts, RowGroupRowsAssumption DEF RowGroupRowsAssumption, NumRows
  <1> QED BY <1>1 DEF RowsLeft

\* A row that has all its values of a column.
LEMMA RowComplete ==
  ASSUME RowsInv, InLoop, NEW k, k = r.column, NEW i, i = r.i,
         TakenOfRow = Len(AllOf(k, i))
  PROVE  batch[i] = AllBefore(k + 1, i) /\ Taken(k) = ValuesBefore(k, reader.rowIndex + i)
  <1> DEFINE row == reader.rowIndex + i - 1
  <1>1. RowsTypeOK /\ LoopPlaces /\ LoopRows
    BY DEF RowsInv
  <1>2. /\ k \in Columns /\ row \in Nat /\ i \in Nat \ {0} /\ i \in 1 .. r.n /\ r.pc = "reading"
        /\ row + 1 = reader.rowIndex + i /\ Taken(k) = ValuesBefore(k, row) + TakenOfRow
        /\ AllOf(k, i) = ValuesOfRow(k, row)
    BY <1>1, RowsParts, PlaceInRow DEF InLoop
  <1> HIDE DEF row
  <1>3. ValuesBefore(k, row + 1) = ValuesBefore(k, row) + Len(ValuesOfRow(k, row))
    BY <1>2, RowsOneByOne
  <1>4. batch[i] = AllBefore(k, i) \o SubSeq(AllOf(k, i), 1, TakenOfRow)
    BY <1>1, <1>2 DEF LoopRows
  <1>5. /\ AllBefore(k + 1, i) = AllBefore(k, i) \o AllOf(k, i)
        /\ SubSeq(AllOf(k, i), 1, Len(AllOf(k, i))) = AllOf(k, i)
    BY <1>1, <1>2, ColumnsOfRow
  <1> QED BY <1>2, <1>3, <1>4, <1>5

\* A buffer is filled: no column has given more values to rows than before.
LEMMA TakenStays ==
  ASSUME RowsInv, RowsTypeOK', InLoop, UNCHANGED <<r, reader, batch, answer>>,
         \A j \in Columns : Taken(j)' = Taken(j)
  PROVE  RowsInv'
  <1>1. r.column \in Columns /\ r.pc = "reading"
    BY DEF InLoop
  <1>2. TakenOfRow' = TakenOfRow
    BY <1>1 DEF TakenOfRow, ValuesBefore, RowValues
  <1>3. \A j, a : AllOf(j, a)' = AllOf(j, a) /\ AllBefore(j, a)' = AllBefore(j, a)
    BY DEF AllOf, AllBefore, ValuesOfRow, RowValues
  <1>4. \A a : RowsLeft(a)' = RowsLeft(a)
    BY DEF RowsLeft
  <1>5. ReadersAgree' /\ ColumnsAtRow' /\ RowsWhole'
    BY <1>1 DEF RowsInv, ReadersAgree, ColumnsAtRow, RowsWhole
  <1>6. LoopPlaces'
    BY <1>1, <1>2, <1>3 DEF RowsInv, LoopPlaces
  <1>7. LoopRows'
    BY <1>1, <1>2, <1>3 DEF RowsInv, LoopRows
  <1>8. LoopCount'
    BY <1>1, <1>2, <1>4 DEF RowsInv, LoopCount
  <1> QED BY <1>5, <1>6, <1>7, <1>8 DEF RowsInv

\* The buffer of a column is empty and is filled.
LEMMA FillBufferStep == ASSUME RowsInv, FillBuffer PROVE RowsInv'
  <1> DEFINE k == r.column
  <1>1. RowsTypeOK /\ InLoop /\ k \in Columns /\ UNCHANGED <<r, reader, batch, answer>>
    BY DEF RowsInv, FillBuffer, InLoop
  <1>2. /\ cols \in [Columns -> ColumnRows] /\ cols[k].next \in Nat /\ cols[k].avail = 0
    BY <1>1, RowsParts DEF RowsTypeOK, FillBuffer, Col
  <1>3. PICK x \in 1 .. bufsize :
          /\ cols[k].next + x <= Len(Values(k))
          /\ cols' = [cols EXCEPT ![k] = [next |-> cols[k].next + x, avail |-> x]]
    BY DEF FillBuffer, Col
  <1> DEFINE full == [next |-> cols[k].next + x, avail |-> x]
  <1>4. full \in ColumnRows /\ full.next = cols[k].next + x /\ full.avail = x /\ x \in Nat
    BY <1>2, RowGroupRowsAssumption DEF ColumnRows, RowGroupRowsAssumption
  <1> HIDE DEF full, k
  <1>5. /\ cols' \in [Columns -> ColumnRows] /\ cols'[k] = full
        /\ \A j \in Columns : j # k => cols'[j] = cols[j]
    BY <1>1, <1>2, <1>3, <1>4 DEF full
  <1>6. \A j \in Columns : Taken(j)' = Taken(j)
    <2> TAKE j \in Columns
    <2>1. CASE j = k
      BY <1>2, <1>4, <1>5, <2>1 DEF Taken
    <2>2. CASE j # k
      BY <1>5, <2>2 DEF Taken
    <2> QED BY <2>1, <2>2
  <1>7. RowsTypeOK'
    <2>1. \A j \in Columns : cols'[j].avail <= cols'[j].next /\ cols'[j].next <= Len(Values(j))
      <3> TAKE j \in Columns
      <3>1. CASE j = k
        BY <1>2, <1>3, <1>4, <1>5, <3>1
      <3>2. CASE j # k
        BY <1>1, <1>5, <3>2 DEF RowsTypeOK
      <3> QED BY <3>1, <3>2
    <2> QED BY <1>1, <1>5, <2>1 DEF RowsTypeOK, Values, RowValues
  <1> QED BY <1>1, <1>6, <1>7, TakenStays

\* There are no more values in the column.
LEMMA ColumnEndsStep == ASSUME RowsInv, ColumnEnds PROVE RowsInv'
  <1>0. PICK k, i, row : k = r.column /\ i = r.i /\ row = reader.rowIndex + i - 1
    OBVIOUS
  <1>1. /\ RowsTypeOK /\ LoopPlaces /\ LoopRows /\ LoopCount /\ InLoop /\ k \in Columns /\ r \in RowsCall
        /\ UNCHANGED <<cols, reader, batch, answer>> /\ r.pc = "reading" /\ i <= r.n
        /\ cols[k].avail = 0 /\ cols[k].next = Len(Values(k))
    BY <1>0 DEF RowsInv, RowsTypeOK, ColumnEnds, InLoop, Col
  <1>2. r' = [r EXCEPT !.i = i + 1, !.numValuesInRow = 1, !.eof = TRUE]
    BY <1>0, <1>1 DEF ColumnEnds, NextRow, RowsCall
  <1>3. /\ i \in Nat \ {0} /\ row \in Nat /\ Taken(k) = Len(Values(k))
        /\ Taken(k) = ValuesBefore(k, row) + TakenOfRow /\ TakenOfRow \in 0 .. Len(ValuesOfRow(k, row))
        /\ AllOf(k, i) = ValuesOfRow(k, row) /\ i \in 1 .. r.n /\ row + 1 = reader.rowIndex + i
    <2>1. /\ i \in Nat \ {0} /\ reader.rowIndex \in Nat /\ r.n \in Nat
          /\ Taken(k) + cols[k].avail = cols[k].next /\ Taken(k) \in Nat
      BY <1>0, <1>1, RowsParts
    <2>2. /\ row \in Nat /\ Taken(k) = ValuesBefore(k, row) + TakenOfRow
          /\ TakenOfRow \in 0 .. Len(ValuesOfRow(k, row)) /\ AllOf(k, i) = ValuesOfRow(k, row)
      BY <1>0, <1>1, PlaceInRow
    <2>3. i \in 1 .. r.n /\ row + 1 = reader.rowIndex + i
      BY <1>0, <1>1, <2>1
    <2> QED BY <1>0, <1>1, <2>1, <2>2, <2>3
  <1>4. TakenOfRow = Len(AllOf(k, i))
    <2>1. /\ ValuesBefore(k, row + 1) = ValuesBefore(k, row) + Len(ValuesOfRow(k, row))
          /\ ValuesBefore(k, row + 1) <= Len(Values(k)) /\ ValuesBefore(k, row) \in Nat
          /\ Len(ValuesOfRow(k, row)) \in Nat
      <3>1. k \in Columns /\ row \in Nat
        BY <1>0, <1>1, <1>3
      <3> QED BY ONLY <3>1, RowsOneByOne
    <2> QED BY <1>3, <2>1
  <1>5. batch[i] = AllBefore(k + 1, i) /\ Taken(k) = ValuesBefore(k, reader.rowIndex + i)
    BY <1>0, <1>1, <1>4, RowComplete
  <1>6. /\ r' \in RowsCall /\ r'.pc = "reading" /\ r'.column = k /\ r'.i = i + 1 /\ r'.n = r.n
        /\ r'.numValuesInRow = 1 /\ r'.rowIndex = r.rowIndex /\ r'.begun = r.begun
        /\ r'.rowCount = r.rowCount
    <2> DEFINE after == i + 1
    <2>1. after \in Nat \ {0}
      BY <1>3
    <2>2. r' = [r EXCEPT !.i = after, !.numValuesInRow = 1, !.eof = TRUE]
      BY <1>2
    <2> HIDE DEF after
    <2>3. /\ r' \in RowsCall /\ r'.pc = r.pc /\ r'.column = r.column /\ r'.i = after /\ r'.n = r.n
          /\ r'.numValuesInRow = 1 /\ r'.rowIndex = r.rowIndex /\ r'.begun = r.begun
          /\ r'.rowCount = r.rowCount
      BY <1>0, <1>1, <2>1, <2>2 DEF RowsCall
    <2> QED BY <1>0, <1>1, <2>3 DEF after
  <1>7. RowsTypeOK'
    BY <1>0, <1>1, <1>6 DEF RowsTypeOK, Values, RowValues
  <1>8. ~(k > 1) => r.rowCount = RowsLeft(i)
    <2> SUFFICES ASSUME ~(k > 1) PROVE r.rowCount = RowsLeft(i)
      OBVIOUS
    <2>1. r.rowCount = IF TakenOfRow > 0 THEN i ELSE RowsLeft(i - 1)
      BY <1>0, <1>1 DEF LoopCount
    <2>2. row < NumRows <=> TakenOfRow > 0
      <3>1. k \in Columns /\ row \in Nat
        BY <1>1, <1>3
      <3>2. row < NumRows <=> Len(ValuesOfRow(k, row)) > 0
        BY ONLY <3>1, RowsOneByOne
      <3> QED BY <1>3, <1>4, <3>2
    <2>3. NumRows \in Nat /\ reader.rowIndex \in Nat /\ i - 1 \in Nat /\ (i - 1) + 1 = i
          /\ reader.rowIndex + (i - 1) = row
      <3>1. NumRows \in Nat
        BY <1>0, <1>1, ValuesLayout
      <3>2. reader.rowIndex \in Nat
        BY <1>0, <1>1, RowsParts
      <3> QED BY <1>0, <1>3, <3>1, <3>2
    <2>4. CASE row < NumRows
      <3>1. reader.rowIndex + i <= NumRows
        BY <1>3, <2>3, <2>4
      <3> QED BY <1>0, <1>1, <1>3, <2>1, <2>2, <2>4, <3>1, RowsLeftIs
    <2>5. CASE ~(row < NumRows)
      <3> DEFINE before == i - 1
      <3>1. before \in Nat /\ reader.rowIndex + before >= NumRows /\ before + 1 = i
        BY <1>3, <2>3, <2>5
      <3> HIDE DEF before
      <3>2. RowsLeft(before + 1) = RowsLeft(before)
        BY <1>0, <1>1, <3>1, RowsLeftIs
      <3> QED BY <2>1, <2>2, <2>5, <3>1, <3>2 DEF before
    <2> QED BY <2>4, <2>5
  <1>9. \A j \in Columns : Taken(j)' = Taken(j)
    BY <1>0, <1>1 DEF Taken
  <1>10. batch' \in Seq(Seq(RowsValue)) /\ Len(batch') = r.n /\ Taken(k)' = Taken(k)
    BY <1>0, <1>1, <1>9 DEF LoopRows
  <1> QED BY <1>0, <1>1, <1>5, <1>6, <1>7, <1>8, <1>9, <1>10, RowEnds

\* One element of a sequence is replaced.
LEMMA ElementReplaced ==
  ASSUME NEW T, NEW s \in Seq(T), NEW i \in 1 .. Len(s), NEW x \in T
  PROVE  /\ [s EXCEPT ![i] = x] \in Seq(T) /\ Len([s EXCEPT ![i] = x]) = Len(s)
         /\ [s EXCEPT ![i] = x][i] = x
         /\ \A a \in 1 .. Len(s) : a # i => [s EXCEPT ![i] = x][a] = s[a]
  OBVIOUS

\* Values of the row that is assembled are in the buffer, or it ended with the
\* last buffer.
LEMMA AppendValuesStep == ASSUME RowsInv, AppendValues PROVE RowsInv'
  <1>0. PICK k, i, row, v : k = r.column /\ i = r.i /\ row = reader.rowIndex + i - 1 /\ v = ValuesInRow
    OBVIOUS
  <1> DEFINE R == ValuesOfRow(k, row)
             taken == TakenOfRow
             rest == Len(R) - taken
             avail == cols[k].avail
  <1>1. /\ RowsTypeOK /\ LoopPlaces /\ LoopRows /\ LoopCount /\ ReadersAgree /\ InLoop
        /\ k \in Columns /\ r \in RowsCall /\ UNCHANGED <<reader, answer>>
        /\ r.pc = "reading" /\ i <= r.n /\ avail > 0 /\ cols \in [Columns -> ColumnRows]
    BY <1>0 DEF RowsInv, RowsTypeOK, AppendValues, InLoop, Col
  <1>2. /\ i \in Nat \ {0} /\ reader.rowIndex \in Nat /\ r.n \in Nat /\ r.rowCount \in Nat
        /\ Taken(k) + avail = cols[k].next /\ Taken(k) \in Nat /\ avail \in Nat
        /\ cols[k].next \in Nat /\ cols[k].next <= Len(Values(k))
    BY <1>0, <1>1, RowsParts
  <1>3. /\ row \in Nat /\ Taken(k) = ValuesBefore(k, row) + taken
        /\ taken \in 0 .. Len(R) /\ AllOf(k, i) = R
        /\ r.numValuesInRow = 0 => taken > 0
    BY <1>0, <1>1, PlaceInRow
  <1>4. i \in 1 .. r.n /\ row + 1 = reader.rowIndex + i /\ NumRows \in Nat
    <2>1. NumRows \in Nat
      BY <1>1, ValuesLayout
    <2>2. i \in 1 .. r.n /\ row + 1 = reader.rowIndex + i
      BY <1>0, <1>1, <1>2
    <2> QED BY <2>1, <2>2
  <1>5. /\ R \in Seq(RowsValue) /\ Len(R) \in Nat /\ ValuesBefore(k, row) \in Nat
        /\ ValuesBefore(k, row + 1) = ValuesBefore(k, row) + Len(R)
    <2>1. k \in Columns /\ row \in Nat
      BY <1>1, <1>3
    <2> QED BY ONLY <2>1, RowsOneByOne
  <1>6. /\ row < NumRows /\ v = (IF avail <= rest THEN avail ELSE rest) /\ v \in Nat /\ rest \in Nat
        /\ Len(Buffered) = avail
        /\ SubSeq(Buffered, 1, v) = SubSeq(R, taken + 1, taken + v)
    BY <1>0, <1>1, ValuesInRowIs DEF Col
  <1>7. /\ batch \in Seq(Seq(RowsValue)) /\ Len(batch) = r.n
        /\ batch[i] = AllBefore(k, i) \o SubSeq(R, 1, taken)
    BY <1>0, <1>1, <1>3, <1>4 DEF LoopRows
  <1>8. AllBefore(k, i) \in Seq(RowsValue)
    BY <1>1, <1>2, ColumnsOfRow DEF Columns
  <1>9. /\ RowsLeft(i) = i /\ r.rowCount <= RowsLeft(r.n) /\ i <= RowsLeft(r.n)
        /\ k > 1 => r.rowCount = RowsLeft(r.n)
        /\ ~(k > 1) => r.rowCount = IF taken > 0 THEN i ELSE i - 1
    <2>1. reader.rowIndex + i <= NumRows /\ i - 1 \in Nat /\ reader.rowIndex + (i - 1) <= NumRows
      <3>1. row < NumRows /\ row \in Nat
        BY <1>3, <1>6
      <3> QED BY <1>2, <1>4, <3>1
    <2>2. RowsLeft(i) = i /\ RowsLeft(i - 1) = i - 1 /\ RowsLeft(i) <= RowsLeft(r.n)
      BY <1>1, <1>2, <2>1, RowsLeftIs
    <2>3. /\ k > 1 => r.rowCount = RowsLeft(r.n)
          /\ ~(k > 1) => r.rowCount = IF taken > 0 THEN i ELSE RowsLeft(i - 1)
      BY <1>0, <1>1 DEF LoopCount
    <2>4. RowsLeft(r.n) \in Nat
      BY <1>1, <1>2, RowsLeftIs
    <2> QED BY <1>2, <2>2, <2>3, <2>4
  <1> HIDE DEF R, taken, avail
  <1>10. CASE v = 0
    <2>1. rest = 0 /\ taken = Len(R) /\ taken > 0
      <3>1. rest = 0
        BY <1>1, <1>2, <1>6, <1>10
      <3>2. Len(R) - taken = 0
        BY <3>1
      <3>3. taken = Len(R)
        BY <1>3, <1>5, <3>2
      <3>4. Len(R) > 0
        BY <1>1, <1>3, <1>6, RowsOneByOne DEF R
      <3> QED BY <3>1, <3>3, <3>4
    <2>2. r' = NextRow /\ UNCHANGED <<cols, batch>>
      BY <1>0, <1>10 DEF AppendValues
    <2>3. /\ r' \in RowsCall /\ r'.pc = "reading" /\ r'.column = k /\ r'.i = i + 1 /\ r'.n = r.n
          /\ r'.numValuesInRow = 1 /\ r'.rowIndex = r.rowIndex /\ r'.begun = r.begun
          /\ r'.rowCount = r.rowCount
      <3> DEFINE after == i + 1
      <3>1. after \in Nat \ {0}
        BY <1>2
      <3>2. r' = [r EXCEPT !.i = after, !.numValuesInRow = 1]
        BY <1>0, <1>1, <2>2 DEF NextRow, RowsCall
      <3> HIDE DEF after
      <3>3. /\ r' \in RowsCall /\ r'.pc = r.pc /\ r'.column = r.column /\ r'.i = after /\ r'.n = r.n
            /\ r'.numValuesInRow = 1 /\ r'.rowIndex = r.rowIndex /\ r'.begun = r.begun
            /\ r'.rowCount = r.rowCount
        BY <1>1, <3>1, <3>2 DEF RowsCall
      <3> QED BY <1>0, <1>1, <3>3 DEF after
    <2>4. RowsTypeOK'
      BY <1>1, <2>2, <2>3 DEF RowsTypeOK, Values, RowValues
    <2>5. \A j \in Columns : Taken(j)' = Taken(j)
      BY <2>2 DEF Taken
    <2>6. batch[i] = AllBefore(k + 1, i) /\ Taken(k) = ValuesBefore(k, reader.rowIndex + i)
      BY <1>0, <1>1, <1>3, <2>1, RowComplete DEF taken
    <2>7. r'.rowCount = IF k > 1 THEN r.rowCount ELSE RowsLeft(i)
      BY <1>9, <2>1, <2>3
    <2>8. /\ batch' \in Seq(Seq(RowsValue)) /\ Len(batch') = r.n /\ batch'[i] = AllBefore(k + 1, i)
          /\ \A a \in 1 .. r.n : a # i => batch'[a] = batch[a]
      BY <1>7, <2>2, <2>6
    <2>9. Taken(k)' = ValuesBefore(k, reader.rowIndex + i)
      BY <1>1, <2>5, <2>6
    <2> QED BY <1>0, <1>1, <2>3, <2>4, <2>5, <2>7, <2>8, <2>9, RowEnds
  <1>11. CASE v # 0
    <2> DEFINE head == SubSeq(Buffered, 1, v)
               left == avail - v
               count == IF r.rowCount < i THEN i ELSE r.rowCount
               longer == batch[i] \o head
    <2>1. /\ batch' = [batch EXCEPT ![i] = longer]
          /\ cols' = [cols EXCEPT ![k].avail = left]
          /\ r' = LET s == [r EXCEPT !.rowCount = count] IN
                  IF v # avail THEN [s EXCEPT !.i = i + 1, !.numValuesInRow = 1]
                  ELSE [s EXCEPT !.numValuesInRow = 0]
      <3>1. /\ batch' = [batch EXCEPT ![i] = batch[i] \o SubSeq(Buffered, 1, v)]
            /\ cols' = [cols EXCEPT ![k].avail = cols[k].avail - v]
            /\ r' = LET s == [r EXCEPT !.rowCount = IF r.rowCount < i THEN i ELSE r.rowCount] IN
                    IF v # Len(Buffered) THEN [s EXCEPT !.i = s.i + 1, !.numValuesInRow = 1]
                    ELSE [s EXCEPT !.numValuesInRow = 0]
        BY <1>0, <1>11 DEF AppendValues
      <3>2. [r EXCEPT !.rowCount = count].i = i
        BY <1>0, <1>1 DEF RowsCall
      <3> HIDE DEF head, longer
      <3> QED BY <1>6, <3>1, <3>2 DEF avail, head, longer
    <2>2. left \in Nat /\ count \in Nat /\ v <= avail /\ v <= rest /\ left <= cols[k].next
      BY <1>2, <1>6
    <2>3. longer = AllBefore(k, i) \o SubSeq(R, 1, taken + v) /\ longer \in Seq(RowsValue)
      <3> DEFINE front == AllBefore(k, i)
      <3>1. taken \in Nat /\ v \in Nat /\ taken + v <= Len(R)
        BY <1>3, <1>5, <1>6, <2>2
      <3>2. longer = (front \o SubSeq(R, 1, taken)) \o SubSeq(R, taken + 1, taken + v)
        BY <1>6, <1>7
      <3> HIDE DEF front, longer
      <3>3. longer = front \o SubSeq(R, 1, taken + v)
        <4>1. front \in Seq(RowsValue) /\ R \in Seq(RowsValue)
          BY <1>5, <1>8 DEF front
        <4> QED BY <3>1, <3>2, <4>1, TakenAndMore
      <3>4. SubSeq(R, 1, taken + v) \in Seq(RowsValue)
        <4> DEFINE one == 1
                   sum == taken + v
        <4>1. one \in Int /\ sum \in Int /\ \A x \in one .. sum : R[x] \in RowsValue
          BY <1>5, <3>1
        <4>2. SubSeq(R, one, sum) \in Seq(RowsValue)
          BY <4>1, SubSeqProperties
        <4> QED BY <4>2
      <3> QED BY <1>8, <3>3, <3>4, ConcatProperties DEF front
    <2> HIDE DEF head, left, count, longer
    <2>4. /\ batch' \in Seq(Seq(RowsValue)) /\ Len(batch') = r.n /\ batch'[i] = longer
          /\ \A a \in 1 .. r.n : a # i => batch'[a] = batch[a]
      <3>1. i \in 1 .. Len(batch) /\ batch \in Seq(Seq(RowsValue)) /\ longer \in Seq(RowsValue)
        BY <1>4, <1>7, <2>3
      <3>2. batch' = [batch EXCEPT ![i] = longer]
        BY <2>1
      <3> QED BY <1>7, <3>1, <3>2, ElementReplaced
    <2>5. /\ cols' \in [Columns -> ColumnRows] /\ cols'[k].avail = left /\ cols'[k].next = cols[k].next
          /\ \A j \in Columns : j # k => cols'[j] = cols[j]
      BY <1>1, <2>1, <2>2 DEF ColumnRows
    <2>6. \A j \in Columns : j # k => Taken(j)' = Taken(j)
      BY <2>5 DEF Taken
    <2>7. Taken(k)' = Taken(k) + v
      BY <1>1, <1>2, <1>6, <2>5 DEF Taken, avail, left
    <2>8. \A j \in Columns : cols'[j].avail <= cols'[j].next /\ cols'[j].next <= Len(Values(j))
      <3> TAKE j \in Columns
      <3>1. CASE j = k
        BY <1>2, <2>2, <2>5, <3>1
      <3>2. CASE j # k
        BY <1>1, <2>5, <3>2 DEF RowsTypeOK
      <3> QED BY <3>1, <3>2
    <2>9. count = IF k > 1 THEN r.rowCount ELSE RowsLeft(i)
      BY <1>1, <1>2, <1>9 DEF count, Columns
    <2>10. CASE v # avail
      <3>1. v = rest /\ taken + v = Len(R)
        BY <1>2, <1>3, <1>5, <1>6, <2>10
      <3>2. /\ r' \in RowsCall /\ r'.pc = "reading" /\ r'.column = k /\ r'.i = i + 1 /\ r'.n = r.n
            /\ r'.numValuesInRow = 1 /\ r'.rowIndex = r.rowIndex /\ r'.begun = r.begun
            /\ r'.rowCount = count
        <4> DEFINE after == i + 1
        <4>1. after \in Nat \ {0}
          BY <1>2
        <4>2. r' = [[r EXCEPT !.rowCount = count] EXCEPT !.i = after, !.numValuesInRow = 1]
          BY <2>1, <2>10
        <4> HIDE DEF after
        <4>3. /\ r' \in RowsCall /\ r'.pc = r.pc /\ r'.column = r.column /\ r'.i = after /\ r'.n = r.n
              /\ r'.numValuesInRow = 1 /\ r'.rowIndex = r.rowIndex /\ r'.begun = r.begun
              /\ r'.rowCount = count
          BY <1>1, <2>2, <4>1, <4>2 DEF RowsCall
        <4> QED BY <1>0, <1>1, <4>3 DEF after
      <3>3. RowsTypeOK'
        BY <1>1, <2>5, <2>8, <3>2 DEF RowsTypeOK, Values, RowValues
      <3>4. longer = AllBefore(k + 1, i)
        BY <1>1, <1>2, <1>3, <1>5, <2>3, <3>1, SubSeqFull, ColumnsOfRow
      <3>5. Taken(k)' = ValuesBefore(k, reader.rowIndex + i)
        BY <1>3, <1>4, <1>5, <1>6, <2>7, <3>1
      <3> QED BY <1>0, <1>1, <2>4, <2>6, <2>9, <3>2, <3>3, <3>4, <3>5, RowEnds
    <2>11. CASE v = avail
      <3>1. /\ r' \in RowsCall /\ r'.pc = "reading" /\ r'.column = k /\ r'.i = i /\ r'.n = r.n
            /\ r'.numValuesInRow = 0 /\ r'.rowIndex = r.rowIndex /\ r'.begun = r.begun
            /\ r'.rowCount = count /\ r'.eof = r.eof
        BY <1>0, <1>1, <2>1, <2>11, <2>2 DEF RowsCall
      <3>2. RowsTypeOK'
        BY <1>1, <2>5, <2>8, <3>1 DEF RowsTypeOK, Values, RowValues
      <3>3. \A j, a : AllOf(j, a)' = AllOf(j, a) /\ AllBefore(j, a)' = AllBefore(j, a)
        BY <1>1 DEF AllOf, AllBefore, ValuesOfRow, RowValues
      <3>4. \A a : RowsLeft(a)' = RowsLeft(a)
        BY <1>1 DEF RowsLeft
      <3>5. TakenOfRow' = taken + v
        <4>1. TakenOfRow' = Taken(k)' - ValuesBefore(k, row)
          BY <1>0, <1>1, <3>1 DEF TakenOfRow, Taken, ValuesBefore, RowValues
        <4> QED BY <1>2, <1>3, <1>5, <1>6, <2>7, <4>1
      <3>6. taken + v \in 0 .. Len(R) /\ taken + v > 0
        BY <1>3, <1>5, <1>6, <1>11, <2>2
      <3>7. ReadersAgree' /\ ColumnsAtRow' /\ RowsWhole'
        BY <1>1, <3>1 DEF ReadersAgree, ColumnsAtRow, RowsWhole
      <3>8. LoopPlaces'
        <4>1. \A j \in Columns : /\ j < k => Taken(j)' = ValuesBefore(j, reader'.rowIndex + r'.n)
                                 /\ j > k => Taken(j)' = ValuesBefore(j, reader'.rowIndex)
          <5> TAKE j \in Columns
          <5>1. /\ j < k => Taken(j) = ValuesBefore(j, reader.rowIndex + r.n)
                /\ j > k => Taken(j) = ValuesBefore(j, reader.rowIndex)
            BY <1>0, <1>1 DEF LoopPlaces
          <5>2. (j < k => j # k) /\ (j > k => j # k)
            BY <1>1 DEF Columns
          <5> QED BY <1>1, <2>6, <3>1, <5>1, <5>2
        <4>2. /\ r'.i <= r'.n + 1 /\ (r'.eof => r'.n > 0)
          BY <1>0, <1>1, <1>2, <3>1
        <4>3. TakenOfRow' \in 0 .. Len(AllOf(k, i)')
          BY <1>3, <3>3, <3>5, <3>6
        <4>4. TakenOfRow' > 0 /\ r'.i <= r'.n
          BY <1>1, <3>1, <3>5, <3>6
        <4> QED BY <3>1, <4>1, <4>2, <4>3, <4>4 DEF LoopPlaces
      <3>9. LoopRows'
        <4> SUFFICES ASSUME NEW a \in 1 .. r.n
                     PROVE  /\ a < i => batch'[a] = AllBefore(k + 1, a)
                            /\ a = i => batch'[a] = AllBefore(k, a) \o SubSeq(AllOf(k, a), 1, taken + v)
                            /\ a > i => batch'[a] = AllBefore(k, a)
          BY <1>1, <2>4, <3>1, <3>3, <3>5 DEF LoopRows
        <4>1. /\ a < i => batch[a] = AllBefore(k + 1, a)
              /\ a > i => batch[a] = AllBefore(k, a)
          BY <1>0, <1>1 DEF LoopRows
        <4>2. a # i => batch'[a] = batch[a]
          BY <2>4
        <4>3. a = i => batch'[a] = AllBefore(k, a) \o SubSeq(AllOf(k, a), 1, taken + v)
          BY <1>3, <2>3, <2>4
        <4>4. (a < i => a # i) /\ (a > i => a # i)
          BY <1>2
        <4> QED BY <4>1, <4>2, <4>3, <4>4
      <3>10. LoopCount'
        BY <1>9, <2>9, <3>1, <3>4, <3>5, <3>6 DEF LoopCount
      <3> QED BY <3>2, <3>7, <3>8, <3>9, <3>10 DEF RowsInv
    <2> QED BY <2>10, <2>11
  <1> QED BY <1>10, <1>11

\* The loop goes on with the next column, or ends.
LEMMA NextColumnStep == ASSUME RowsInv, NextColumn PROVE RowsInv'
  <1>0. PICK k : k = r.column
    OBVIOUS
  <1>1. /\ RowsTypeOK /\ LoopPlaces /\ LoopRows /\ LoopCount /\ ReadersAgree /\ k \in Columns
        /\ r \in RowsCall /\ UNCHANGED <<cols, reader, batch, answer>>
        /\ r.pc = "reading" /\ r.i > r.n
    BY <1>0 DEF RowsInv, RowsTypeOK, NextColumn
  <1>2. /\ r.i \in Nat \ {0} /\ r.n \in Nat /\ reader.rowIndex \in Nat /\ r.numValuesInRow \in {0, 1}
    BY <1>1, RowsParts
  <1>3. r.i = r.n + 1 /\ (r.eof => r.n > 0)
    BY <1>1, <1>2 DEF LoopPlaces
  <1>4. TakenOfRow = 0
    BY <1>0, <1>1, <1>2 DEF LoopPlaces
  <1>5. Taken(k) = ValuesBefore(k, reader.rowIndex + r.n)
    <2> DEFINE row == reader.rowIndex + r.n
    <2>1. row \in Nat /\ reader.rowIndex + r.i - 1 = row
      BY <1>2, <1>3
    <2>2. Taken(k) - ValuesBefore(k, row) = 0
      BY <1>0, <1>4, <2>1 DEF TakenOfRow
    <2>3. Taken(k) \in Nat
      BY <1>1, RowsParts
    <2>4. ValuesBefore(k, row) \in Nat
      BY <1>1, <2>1, RowsOneByOne
    <2> QED BY <2>2, <2>3, <2>4
  <1>6. /\ r' \in RowsCall /\ r'.pc = "reading" /\ r'.column = k + 1 /\ r'.i = 1 /\ r'.n = r.n
        /\ r'.numValuesInRow = 1 /\ r'.rowIndex = r.rowIndex /\ r'.begun = r.begun
        /\ r'.rowCount = r.rowCount /\ r'.eof = r.eof
    <2> DEFINE next == k + 1
    <2>1. next \in {1, 2, 3}
      BY <1>1 DEF Columns
    <2>2. r' = [r EXCEPT !.column = next, !.i = 1, !.numValuesInRow = 1]
      BY <1>0 DEF NextColumn
    <2> HIDE DEF next
    <2>3. /\ r' \in RowsCall /\ r'.pc = r.pc /\ r'.column = next /\ r'.i = 1 /\ r'.n = r.n
          /\ r'.numValuesInRow = 1 /\ r'.rowIndex = r.rowIndex /\ r'.begun = r.begun
          /\ r'.rowCount = r.rowCount /\ r'.eof = r.eof
      <3>1. r \in RowsCall /\ 1 \in Nat \ {0} /\ 1 \in {0, 1}
        BY <1>1
      <3> QED BY ONLY <2>1, <2>2, <3>1 DEF RowsCall
    <2> QED BY <1>1, <2>3 DEF next
  <1>7. RowsTypeOK'
    BY <1>1, <1>6 DEF RowsTypeOK, Values, RowValues
  <1>8. \A j, a : AllOf(j, a)' = AllOf(j, a) /\ AllBefore(j, a)' = AllBefore(j, a)
    BY <1>1 DEF AllOf, AllBefore, ValuesOfRow, RowValues
  <1>9. \A a : RowsLeft(a)' = RowsLeft(a)
    BY <1>1 DEF RowsLeft
  <1>10. \A j \in Columns : Taken(j)' = Taken(j)
    BY <1>1 DEF Taken
  <1>11. ReadersAgree' /\ ColumnsAtRow' /\ RowsWhole'
    BY <1>1, <1>6 DEF ReadersAgree, ColumnsAtRow, RowsWhole
  <1>12. \A j \in Columns : /\ j < k + 1 => Taken(j) = ValuesBefore(j, reader.rowIndex + r.n)
                            /\ j > k => Taken(j) = ValuesBefore(j, reader.rowIndex)
    <2> TAKE j \in Columns
    <2>1. /\ j < k => Taken(j) = ValuesBefore(j, reader.rowIndex + r.n)
          /\ j > k => Taken(j) = ValuesBefore(j, reader.rowIndex)
      BY <1>0, <1>1 DEF LoopPlaces
    <2>2. j < k + 1 => j < k \/ j = k
      BY <1>1 DEF Columns
    <2> QED BY <1>5, <2>1, <2>2
  <1>13. k + 1 \in Columns => TakenOfRow' = 0
    <2> SUFFICES ASSUME k + 1 \in Columns PROVE TakenOfRow' = 0
      OBVIOUS
    <2> DEFINE next == k + 1
    <2>1. next \in Columns /\ next > k
      BY <1>1 DEF Columns
    <2>2. Taken(next) = ValuesBefore(next, reader.rowIndex) /\ Taken(next)' = Taken(next)
      BY <1>10, <1>12, <2>1
    <2> HIDE DEF next
    <2>3. TakenOfRow' = Taken(next)' - ValuesBefore(next, reader.rowIndex + 1 - 1)
      BY <1>1, <1>6 DEF TakenOfRow, Taken, ValuesBefore, RowValues, next
    <2>4. reader.rowIndex + 1 - 1 = reader.rowIndex
      BY <1>2
    <2>5. ValuesBefore(next, reader.rowIndex) \in Nat
      BY <1>2, <2>1, RowsOneByOne
    <2> QED BY <2>2, <2>3, <2>4, <2>5
  <1>14. LoopPlaces'
    <2>1. \A j \in Columns :
             /\ j < r'.column => Taken(j)' = ValuesBefore(j, reader'.rowIndex + r'.n)
             /\ j > r'.column => Taken(j)' = ValuesBefore(j, reader'.rowIndex)
      <3> TAKE j \in Columns
      <3>1. j > k + 1 => j > k
        BY <1>1 DEF Columns
      <3> QED BY <1>1, <1>6, <1>10, <1>12, <3>1
    <2>2. r'.i <= r'.n + 1 /\ (r'.eof => r'.n > 0)
      BY <1>2, <1>3, <1>6
    <2>3. r'.column \in Columns => TakenOfRow' \in 0 .. Len(AllOf(k + 1, 1)) /\ TakenOfRow' = 0
      <3> SUFFICES ASSUME k + 1 \in Columns PROVE TakenOfRow' \in 0 .. Len(AllOf(k + 1, 1)) /\ TakenOfRow' = 0
        BY <1>6
      <3> DEFINE next == k + 1
      <3>1. Len(AllOf(next, 1)) \in Nat
        BY <1>1, ColumnsOfRow
      <3> QED BY <1>13, <3>1
    <2> QED BY <1>6, <1>8, <2>1, <2>2, <2>3 DEF LoopPlaces
  <1>15. LoopRows'
    <2> SUFFICES ASSUME NEW a \in 1 .. r.n
                 PROVE  /\ k + 1 \in Columns /\ a = 1 =>
                             batch[a] = AllBefore(k + 1, a) \o SubSeq(AllOf(k + 1, a), 1, 0)
                        /\ batch[a] = AllBefore(k + 1, a)
      <3>1. batch' \in Seq(Seq(RowsValue)) /\ Len(batch') = r'.n
        BY <1>1, <1>6 DEF LoopRows
      <3>2. ASSUME NEW a \in 1 .. r.n
            PROVE  /\ ~(a < 1)
                   /\ k + 1 \in Columns /\ a = 1 =>
                        batch'[a] = AllBefore(k + 1, a)' \o SubSeq(AllOf(k + 1, a)', 1, TakenOfRow')
                   /\ k + 1 \notin Columns \/ a > 1 => batch'[a] = AllBefore(k + 1, a)'
        <4>1. ~(a < 1)
          OBVIOUS
        <4>2. k + 1 \in Columns /\ a = 1 =>
                batch'[a] = AllBefore(k + 1, a)' \o SubSeq(AllOf(k + 1, a)', 1, TakenOfRow')
          BY <1>1, <1>8, <1>13
        <4>3. batch'[a] = AllBefore(k + 1, a)'
          BY <1>1, <1>8
        <4> QED BY <4>1, <4>2, <4>3
      <3> QED BY <1>6, <3>1, <3>2 DEF LoopRows
    <2>1. a \in Nat \ {0} /\ a < r.i
      BY <1>2, <1>3
    <2>2. batch[a] = AllBefore(k + 1, a)
      BY <1>0, <1>1, <2>1 DEF LoopRows
    <2>3. \A j \in Columns : AllBefore(j, a) \o SubSeq(AllOf(j, a), 1, 0) = AllBefore(j, a)
      BY <1>1, <2>1, ColumnsOfRow
    <2> QED BY <2>2, <2>3
  <1>16. LoopCount'
    <2>1. r.rowCount = RowsLeft(r.n)
      <3>1. k > 1 => r.rowCount = RowsLeft(r.n)
        BY <1>0, <1>1 DEF LoopCount
      <3>2. ~(k > 1) => r.rowCount = RowsLeft(r.i - 1)
        BY <1>0, <1>1, <1>4 DEF LoopCount
      <3>3. r.i - 1 = r.n
        BY <1>2, <1>3
      <3> QED BY <3>1, <3>2, <3>3
    <2>2. r'.column > 1
      BY <1>1, <1>6 DEF Columns
    <2> QED BY <1>6, <1>9, <2>1, <2>2 DEF LoopCount
  <1> QED BY <1>7, <1>11, <1>14, <1>15, <1>16 DEF RowsInv

\* A read that fails ends the behaviour of the columns.
LEMMA ReadRowsFailsStep == ASSUME RowsInv, ReadRowsFails PROVE RowsInv'
  <1>1. RowsTypeOK /\ ReadersAgree /\ r \in RowsCall /\ UNCHANGED <<cols, reader, batch>>
        /\ r' = [r EXCEPT !.pc = "failed"]
    BY DEF RowsInv, RowsTypeOK, ReadRowsFails
  <1>2. /\ r' \in RowsCall /\ r'.pc = "failed" /\ r'.begun = r.begun /\ r'.rowIndex = r.rowIndex
    BY <1>1 DEF RowsCall
  <1>3. RowsTypeOK'
    BY <1>1, <1>2 DEF RowsTypeOK, Values, RowValues
  <1> QED BY <1>1, <1>2, <1>3
          DEF RowsInv, ReadersAgree, ColumnsAtRow, LoopPlaces, LoopRows, LoopCount, RowsWhole

\* Columns that are sought stand before the row.
LEMMA SoughtColumnsAre ==
  ASSUME NEW row \in Nat, cols' = SoughtColumns(row)
  PROVE  /\ cols' \in [Columns -> ColumnRows]
         /\ \A k \in Columns : /\ Taken(k)' = ValuesBefore(k, row)
                               /\ cols'[k].avail <= cols'[k].next /\ cols'[k].next <= Len(Values(k))
  <1>1. \A k \in Columns : ValuesBefore(k, row) \in Nat /\ ValuesBefore(k, row) <= Len(Values(k))
    BY ValuesLayout
  <1>2. \A k \in Columns : cols'[k].next = ValuesBefore(k, row) /\ cols'[k].avail = 0
    BY DEF SoughtColumns
  <1>3. cols' \in [Columns -> ColumnRows]
    BY <1>1 DEF SoughtColumns, ColumnRows
  <1>4. \A k \in Columns : Taken(k)' = ValuesBefore(k, row)
    BY <1>1, <1>2 DEF Taken
  <1> QED BY <1>1, <1>2, <1>3, <1>4

\* Columns that were reset stand before the first row.
LEMMA UnreadColumnsAre ==
  ASSUME cols' = [k \in Columns |-> Unread]
  PROVE  /\ cols' \in [Columns -> ColumnRows]
         /\ \A k \in Columns : /\ Taken(k)' = ValuesBefore(k, 0)
                               /\ cols'[k].avail <= cols'[k].next /\ cols'[k].next <= Len(Values(k))
  <1>1. \A k \in Columns : cols'[k].next = 0 /\ cols'[k].avail = 0
    BY DEF Unread
  <1>2. \A k \in Columns : ValuesBefore(k, 0) = 0 /\ Len(Values(k)) \in Nat
    BY ValuesLayout
  <1>3. cols' \in [Columns -> ColumnRows]
    BY DEF Unread, ColumnRows
  <1> QED BY <1>1, <1>2, <1>3 DEF Taken

\* A call begins: the columns stand at the row that is wanted.
LEMMA ReadRowsStep == ASSUME RowsInv, NEW n \in BatchSizes, ReadRows(n) PROVE RowsInv'
  <1> DEFINE again == reader.open /\ r.begun
             rowIndex == IF again THEN r.rowIndex ELSE reader.rowIndex
  <1>1. /\ RowsTypeOK /\ ReadersAgree /\ ColumnsAtRow /\ r \in RowsCall /\ reader \in RowsReader
        /\ r.pc = "idle" /\ n \in Nat
    BY RowGroupRowsAssumption DEF RowsInv, RowsTypeOK, ReadRows, MayCallRows, RowGroupRowsAssumption
  <1>2. /\ reader.rowIndex \in Nat /\ r.rowIndex \in Nat /\ reader.calls \in Nat
        /\ r.begun <=> reader.open
        /\ reader.open /\ ~reader.reset => r.rowIndex = reader.rowIndex
    BY <1>1, RowsParts DEF ReadersAgree
  <1>3. /\ cols' = IF again THEN cols ELSE SoughtColumns(reader.rowIndex)
        /\ r' = [r EXCEPT !.pc = "reading", !.n = n, !.column = 1, !.i = 1, !.numValuesInRow = 1,
                          !.eof = FALSE, !.rowCount = 0, !.begun = TRUE, !.rowIndex = rowIndex]
        /\ reader' = [reader EXCEPT !.open = TRUE, !.calls = reader.calls + 1]
        /\ batch' = [i \in 1..n |-> << >>] /\ answer' = answer
    BY <1>1 DEF ReadRows, RowsCall
  <1>4. rowIndex \in Nat /\ (reader.open /\ ~reader.reset => rowIndex = reader.rowIndex)
        /\ (~reader.open => rowIndex = reader.rowIndex)
    BY <1>2
  <1>5. /\ cols' \in [Columns -> ColumnRows]
        /\ \A k \in Columns : /\ Taken(k)' = ValuesBefore(k, reader.rowIndex)
                              /\ cols'[k].avail <= cols'[k].next /\ cols'[k].next <= Len(Values(k))
    <2>1. CASE again
      <3>1. cols' = cols /\ reader.open
        BY <1>3, <2>1
      <3>2. \A k \in Columns : Taken(k) = ValuesBefore(k, reader.rowIndex)
        BY <1>1, <3>1 DEF ColumnsAtRow
      <3>3. \A k \in Columns : Taken(k)' = Taken(k)
        BY <3>1 DEF Taken
      <3> QED BY <1>1, <3>1, <3>2, <3>3 DEF RowsTypeOK
    <2>2. CASE ~again
      BY <1>2, <1>3, <2>2, SoughtColumnsAre
    <2> QED BY <2>1, <2>2
  <1> HIDE DEF rowIndex, again
  <1>6. /\ r' \in RowsCall /\ r'.pc = "reading" /\ r'.n = n /\ r'.column = 1 /\ r'.i = 1
        /\ r'.numValuesInRow = 1 /\ r'.eof = FALSE /\ r'.rowCount = 0 /\ r'.begun = TRUE
        /\ r'.rowIndex = rowIndex
    <2>1. r \in RowsCall /\ 1 \in Nat \ {0} /\ 1 \in {0, 1} /\ 1 \in {1, 2, 3} /\ 0 \in Nat
      BY <1>1
    <2> QED BY ONLY <1>1, <1>3, <1>4, <2>1 DEF RowsCall
  <1>7. /\ reader' \in RowsReader /\ reader'.open = TRUE /\ reader'.rowIndex = reader.rowIndex
        /\ reader'.reset = reader.reset
    <2> DEFINE made == reader.calls + 1
    <2>1. made \in Nat /\ reader' = [reader EXCEPT !.open = TRUE, !.calls = made]
      BY <1>2, <1>3
    <2> HIDE DEF made
    <2> QED BY <1>1, <2>1 DEF RowsReader
  <1>8. RowsTypeOK'
    BY <1>5, <1>6, <1>7 DEF RowsTypeOK, Values, RowValues
  <1>9. \A j, a : AllOf(j, a)' = AllOf(j, a) /\ AllBefore(j, a)' = AllBefore(j, a)
    BY <1>7 DEF AllOf, AllBefore, ValuesOfRow, RowValues
  <1>10. \A a : RowsLeft(a)' = RowsLeft(a)
    BY <1>7 DEF RowsLeft
  <1>11. ReadersAgree'
    BY <1>1, <1>2, <1>4, <1>6, <1>7 DEF RowsReader, ReadersAgree
  <1>12. ColumnsAtRow' /\ RowsWhole'
    BY <1>6 DEF ColumnsAtRow, RowsWhole
  <1>13. TakenOfRow' = 0
    <2>1. TakenOfRow' = Taken(1)' - ValuesBefore(1, reader.rowIndex + 1 - 1)
      BY <1>6, <1>7 DEF TakenOfRow, Taken, ValuesBefore, RowValues
    <2>2. reader.rowIndex + 1 - 1 = reader.rowIndex /\ 1 \in Columns
      BY <1>2 DEF Columns
    <2>3. ValuesBefore(1, reader.rowIndex) \in Nat
      BY <1>2, <2>2, RowsOneByOne
    <2> QED BY <1>5, <2>1, <2>2, <2>3
  <1>14. 0 \in 0 .. Len(AllOf(1, 1)) /\ 1 \in Columns
    BY <1>1, ColumnsOfRow DEF Columns
  <1>15. LoopPlaces'
    <2>1. \A j \in Columns :
             /\ j < r'.column => Taken(j)' = ValuesBefore(j, reader'.rowIndex + r'.n)
             /\ j > r'.column => Taken(j)' = ValuesBefore(j, reader'.rowIndex)
      <3> TAKE j \in Columns
      <3>1. ~(j < 1)
        BY DEF Columns
      <3> QED BY <1>5, <1>6, <1>7, <3>1
    <2>2. r'.i <= r'.n + 1 /\ (r'.eof => r'.n > 0)
      BY <1>1, <1>6
    <2> QED BY <1>6, <1>9, <1>13, <1>14, <2>1, <2>2 DEF LoopPlaces
  <1>16. LoopRows'
    <2>1. batch' \in Seq(Seq(RowsValue)) /\ Len(batch') = n /\ \A a \in 1 .. n : batch'[a] = << >>
      <3>1. << >> \in Seq(RowsValue)
        OBVIOUS
      <3> DEFINE none == << >>
      <3>2. none \in Seq(RowsValue) /\ batch' = [i \in 1..n |-> none]
        BY <1>3, <3>1
      <3>3. none = << >>
        OBVIOUS
      <3> HIDE DEF none
      <3>4. batch' \in Seq(Seq(RowsValue)) /\ Len(batch') = n /\ \A a \in 1 .. n : batch'[a] = none
        BY <1>1, <3>2
      <3> QED BY <3>3, <3>4
    <2>2. ASSUME NEW a \in 1 .. n
          PROVE  /\ ~(a < 1)
                 /\ a = 1 => batch'[a] = AllBefore(1, a)' \o SubSeq(AllOf(1, a)', 1, TakenOfRow')
                 /\ a > 1 => batch'[a] = AllBefore(1, a)'
      <3>1. ~(a < 1) /\ a \in Nat \ {0}
        BY <1>1
      <3>2. AllBefore(1, a)' = << >>
        BY DEF AllBefore
      <3>3. AllBefore(1, a) \o SubSeq(AllOf(1, a), 1, 0) = AllBefore(1, a)
        BY <1>1, <1>14, <3>1, ColumnsOfRow
      <3> QED BY <1>9, <1>13, <2>1, <3>1, <3>2, <3>3
    <2> QED BY <1>6, <1>14, <2>1, <2>2 DEF LoopRows
  <1>17. LoopCount'
    BY <1>1, <1>10, <1>13, <1>6, RowsLeftIs DEF LoopCount
  <1> QED BY <1>8, <1>11, <1>12, <1>15, <1>16, <1>17 DEF RowsInv

-----------------------------------------------------------------------------
\* A step of the reader is one that SeekablePages allows, or none.
RowsStep == [Q!Next /\ UNCHANGED NumRows]_<<NumRows, reader.rowIndex, answer>>

\* The kinds of answers differ.
LEMMA RowAnswers ==
  /\ Q!EOF.kind = "eof" /\ Q!Failed.kind = "error"
  /\ \A row : Q!Sought(row).kind = "seek" /\ Q!Sought(row).row = row
  /\ \A a, b, d : Q!Page(a, b, d).kind = "page" /\ Q!Page(a, b, d).first = a
  BY DEF Q!EOF, Q!Failed, Q!Sought, Q!Page

\* A call returns the rows it has assembled.
LEMMA ReadRowsReturnsStep == ASSUME RowsInv, ReadRowsReturns PROVE RowsInv' /\ RowsStep
  <1> DEFINE first == reader.rowIndex
             count == r.rowCount
  <1>1. /\ RowsTypeOK /\ ReadersAgree /\ LoopPlaces /\ LoopRows /\ LoopCount
        /\ r \in RowsCall /\ reader \in RowsReader /\ r.pc = "reading" /\ r.column \notin Columns
        /\ cols' = cols
    BY DEF RowsInv, RowsTypeOK, ReadRowsReturns
  <1>2. /\ first \in Nat /\ r.rowIndex \in Nat /\ r.n \in Nat /\ count \in Nat /\ r.column = 3
        /\ NumRows \in Nat
    BY <1>1, RowsParts, RowGroupRowsAssumption DEF RowGroupRowsAssumption, NumRows, Columns
  <1>3. /\ r' = [r EXCEPT !.pc = "idle", !.rowIndex = r.rowIndex + count]
        /\ reader' = [reader EXCEPT !.rowIndex = first + count]
        /\ batch' = SubSeq(batch, 1, count)
        /\ answer' = IF count > 0 THEN Q!Page(FirstRowOf(batch), count, FALSE)
                     ELSE IF r.eof THEN Q!EOF ELSE answer
    BY <1>1 DEF ReadRowsReturns, RowsCall, RowsReader
  <1>4. /\ count = RowsLeft(r.n) /\ count <= r.n
        /\ first + r.n <= NumRows => count = r.n
        /\ count < r.n => first + count >= NumRows
        /\ count > 0 => first + count <= NumRows
    <2>1. count = RowsLeft(r.n)
      BY <1>1, <1>2 DEF LoopCount
    <2> HIDE DEF first, count
    <2>2. /\ RowsLeft(r.n) <= r.n
          /\ first + r.n <= NumRows => RowsLeft(r.n) = r.n
          /\ RowsLeft(r.n) < r.n => first + RowsLeft(r.n) >= NumRows
          /\ RowsLeft(r.n) > 0 => first + RowsLeft(r.n) <= NumRows
      BY <1>1, <1>2, RowsLeftIs DEF first
    <2> QED BY <2>1, <2>2
  <1>5. \A k \in Columns : Taken(k) = ValuesBefore(k, first + r.n)
    <2> TAKE k \in Columns
    <2>1. k < r.column
      BY <1>2 DEF Columns
    <2> QED BY <1>1, <2>1 DEF LoopPlaces
  <1>6. \A k \in Columns : Taken(k) = ValuesBefore(k, first + count)
    <2> TAKE k \in Columns
    <2>1. CASE count = r.n
      BY <1>5, <2>1
    <2>2. CASE count # r.n
      <3>1. first + count >= NumRows /\ first + r.n >= NumRows /\ first + count \in Nat /\ first + r.n \in Nat
        BY <1>2, <1>4, <2>2
      <3>2. /\ ValuesBefore(k, first + count) = Len(Values(k))
            /\ ValuesBefore(k, first + r.n) = Len(Values(k))
        BY <3>1, ValuesLayout
      <3> QED BY <1>5, <3>2
    <2> QED BY <2>1, <2>2
  <1>7. batch \in Seq(Seq(RowsValue)) /\ Len(batch) = r.n
    BY <1>1 DEF LoopRows
  <1>8. ASSUME NEW a \in 1 .. count
        PROVE  /\ batch[a] = RowValues(1, first + a - 1) \o RowValues(2, first + a - 1)
               /\ first + a - 1 \in 0 .. (NumRows - 1)
    <2>1. a \in 1 .. r.n /\ first + a - 1 < NumRows /\ first + a - 1 \in Nat /\ a \in Nat \ {0}
      BY <1>2, <1>4
    <2>2. batch[a] = AllBefore(3, a)
      BY <1>1, <1>2, <2>1 DEF LoopRows
    <2>3. AllBefore(3, a) = AllOf(1, a) \o AllOf(2, a)
      BY DEF AllBefore
    <2>4. AllOf(1, a) = RowValues(1, first + a - 1) /\ AllOf(2, a) = RowValues(2, first + a - 1)
      BY <2>1 DEF AllOf, ValuesOfRow
    <2> QED BY <1>2, <2>1, <2>2, <2>3, <2>4
  <1>9. count > 0 => FirstRowOf(batch) = first
    <2> SUFFICES ASSUME count > 0 PROVE FirstRowOf(batch) = first
      OBVIOUS
    <2> DEFINE s == RowValues(1, first)
               t == RowValues(2, first)
    <2>1. 1 \in 1 .. count /\ first + 1 - 1 = first
      BY <1>2
    <2>2. batch[1] = s \o t /\ first \in 0 .. (NumRows - 1)
      BY <1>8, <2>1
    <2>3. 1 \in Columns /\ 2 \in Columns
      BY DEF Columns
    <2>4. /\ s \in Seq(RowsValue) /\ t \in Seq(RowsValue) /\ Len(s) \in Nat \ {0}
          /\ \A j \in 1 .. Len(s) : s[j] = Value(1, first, IF j = 1 THEN 0 ELSE 1)
      BY <2>2, <2>3, RowValuesType
    <2> HIDE DEF s, t
    <2>5. (s \o t)[1] = s[1] /\ s \o t # << >>
      BY <2>4
    <2>6. s[1].row = first
      <3>1. 1 \in 1 .. Len(s)
        BY <2>4
      <3>2. s[1] = Value(1, first, 0)
        BY <2>4, <3>1
      <3> QED BY <3>2 DEF Value
    <2> QED BY <2>2, <2>5, <2>6 DEF FirstRowOf
  <1>10. batch' \in Seq(Seq(RowsValue)) /\ Len(batch') = count /\ \A a \in 1 .. count : batch'[a] = batch[a]
    <2> DEFINE one == 1
    <2>1. one \in Int /\ count \in Int /\ \A a \in one .. count : batch[a] \in Seq(RowsValue)
      BY <1>2, <1>4, <1>7
    <2>2. /\ SubSeq(batch, one, count) \in Seq(Seq(RowsValue))
          /\ Len(SubSeq(batch, one, count)) = IF one <= count THEN count - one + 1 ELSE 0
          /\ \A a \in 1 .. count - one + 1 : SubSeq(batch, one, count)[a] = batch[one + a - 1]
      BY <2>1, SubSeqProperties
    <2>3. batch' = SubSeq(batch, one, count)
      BY <1>3
    <2> HIDE DEF count
    <2>4. Len(batch') = count
      BY <1>2, <2>2, <2>3
    <2>5. ASSUME NEW a \in 1 .. count PROVE batch'[a] = batch[a]
      BY <1>2, <2>2, <2>3
    <2> QED BY <2>2, <2>3, <2>4, <2>5
  <1> HIDE DEF first, count
  <1>11. /\ r' \in RowsCall /\ r'.pc = "idle" /\ r'.begun = r.begun /\ r'.rowIndex = r.rowIndex + count
    <2> DEFINE next == r.rowIndex + count
    <2>1. next \in Nat /\ r' = [r EXCEPT !.pc = "idle", !.rowIndex = next]
      BY <1>2, <1>3
    <2> HIDE DEF next
    <2>2. r' \in RowsCall /\ r'.pc = "idle" /\ r'.begun = r.begun /\ r'.rowIndex = next
      BY <1>1, <2>1 DEF RowsCall
    <2> QED BY <2>2 DEF next
  <1>12. /\ reader' \in RowsReader /\ reader'.open = reader.open /\ reader'.reset = reader.reset
         /\ reader'.rowIndex = first + count
    <2> DEFINE next == first + count
    <2>1. next \in Nat /\ reader' = [reader EXCEPT !.rowIndex = next]
      BY <1>2, <1>3
    <2> HIDE DEF next
    <2>2. /\ reader' \in RowsReader /\ reader'.open = reader.open /\ reader'.reset = reader.reset
          /\ reader'.rowIndex = next
      BY <1>1, <2>1 DEF RowsReader
    <2> QED BY <2>2 DEF next
  <1>13. RowsTypeOK'
    BY <1>1, <1>11, <1>12 DEF RowsTypeOK, Values, RowValues
  <1>14. ReadersAgree'
    BY <1>1, <1>11, <1>12 DEF ReadersAgree, first
  <1>15. ColumnsAtRow'
    BY <1>1, <1>12, <1>6 DEF Taken, ColumnsAtRow, ValuesBefore, RowValues
  <1>16. RowsWhole'
    <2> SUFFICES ASSUME NEW a \in 1 .. count
                 PROVE  batch'[a] = RowValues(1, answer'.first + a - 1) \o RowValues(2, answer'.first + a - 1)
      BY <1>10 DEF RowsWhole, RowValues
    <2>1. count > 0
      BY <1>2
    <2>2. answer'.first = first
      BY <1>3, <1>9, <2>1 DEF Q!Page
    <2> QED BY <1>8, <1>10, <2>2
  <1>17. LoopPlaces' /\ LoopRows' /\ LoopCount'
    BY <1>11 DEF LoopPlaces, LoopRows, LoopCount
  <1>18. RowsStep
    <2>1. CASE count > 0
      <3>1. /\ count \in 0 .. NumRows /\ first + count <= NumRows
            /\ answer' = Q!Page(first, count, FALSE) /\ reader'.rowIndex = first + count
        BY <1>2, <1>3, <1>4, <1>9, <1>12, <2>1
      <3>2. FALSE \in BOOLEAN /\ (FALSE => answer.kind = "page") /\ (count = 0 => FALSE)
        BY <2>1
      <3>3. Q!Read
        BY <3>1, <3>2 DEF Q!Read, first
      <3> QED BY <3>3 DEF RowsStep, Q!Next, NumRows
    <2>2. CASE ~(count > 0)
      <3>1. count = 0 /\ reader'.rowIndex = first
        BY <1>2, <1>12, <2>2
      <3>2. CASE r.eof
        <4>1. r.n > 0
          BY <1>1, <3>2 DEF LoopPlaces
        <4>2. first >= NumRows
          BY <1>2, <1>4, <3>1, <4>1
        <4>3. Q!ReadEnd
          BY <1>3, <2>2, <3>1, <3>2, <4>2 DEF Q!ReadEnd, first
        <4> QED BY <4>3 DEF RowsStep, Q!Next, NumRows
      <3>3. CASE ~r.eof
        BY <1>3, <2>2, <3>1, <3>3 DEF RowsStep, NumRows, first
      <3> QED BY <3>2, <3>3
    <2> QED BY <2>1, <2>2
  <1> QED BY <1>13, <1>14, <1>15, <1>16, <1>17, <1>18 DEF RowsInv

\* Reader.SeekToRow: the columns are sought, or stand there, or will be.
LEMMA ReaderSeekStep ==
  ASSUME RowsInv, ~SeekAfterReset, NEW row \in Nat, ReaderSeekToRow(row)
  PROVE  RowsInv' /\ RowsStep
  <1>1. /\ RowsTypeOK /\ ReadersAgree /\ ColumnsAtRow /\ r \in RowsCall /\ reader \in RowsReader
        /\ r.pc = "idle" /\ ~reader.reset /\ answer' = Q!Sought(row)
    BY DEF RowsInv, RowsTypeOK, ReaderSeekToRow, MayCallRows
  <1>2. /\ reader.rowIndex \in Nat /\ r.rowIndex \in Nat /\ reader.calls \in Nat
        /\ r.begun <=> reader.open
        /\ reader.open => r.rowIndex = reader.rowIndex
    BY <1>1, RowsParts DEF ReadersAgree
  <1>3. /\ reader' \in RowsReader /\ reader'.open = reader.open /\ reader'.rowIndex = row
        /\ reader'.reset = reader.reset
    <2> DEFINE made == reader.calls + 1
    <2>1. made \in Nat /\ reader' = [reader EXCEPT !.rowIndex = row, !.calls = made]
      BY <1>1, <1>2 DEF ReaderSeekToRow, RowsReader
    <2> HIDE DEF made
    <2> QED BY <1>1, <2>1 DEF RowsReader
  <1>4. RowsStep
    BY <1>1, <1>3, RowAnswers DEF Q!Seek, RowsStep, Q!Next, NumRows
  <1>5. answer'.kind # "page"
    BY <1>1, RowAnswers
  <1>6. CASE reader.open /\ row # reader.rowIndex /\ ~AlreadyAt(row)
    <2>1. cols' = SoughtColumns(row) /\ r' = [r EXCEPT !.rowIndex = row, !.begun = TRUE]
      BY <1>6 DEF ReaderSeekToRow
    <2>2. r' \in RowsCall /\ r'.pc = "idle" /\ r'.rowIndex = row /\ r'.begun = TRUE
      BY <1>1, <2>1 DEF RowsCall
    <2>3. /\ cols' \in [Columns -> ColumnRows]
          /\ \A k \in Columns : /\ Taken(k)' = ValuesBefore(k, row)
                                /\ cols'[k].avail <= cols'[k].next /\ cols'[k].next <= Len(Values(k))
      BY <2>1, SoughtColumnsAre
    <2>4. RowsTypeOK'
      BY <1>3, <2>2, <2>3 DEF RowsTypeOK, Values, RowValues
    <2>5. ReadersAgree'
      BY <1>3, <1>6, <2>2 DEF ReadersAgree
    <2>6. ColumnsAtRow'
      BY <1>3, <2>3 DEF ColumnsAtRow, ValuesBefore, RowValues
    <2> QED BY <1>4, <1>5, <2>2, <2>4, <2>5, <2>6
            DEF RowsInv, LoopPlaces, LoopRows, LoopCount, RowsWhole
  <1>7. CASE ~(reader.open /\ row # reader.rowIndex /\ ~AlreadyAt(row))
    <2>1. UNCHANGED <<cols, r>>
      BY <1>7 DEF ReaderSeekToRow
    <2>2. reader.open => row = reader.rowIndex
      BY <1>2, <1>7 DEF AlreadyAt
    <2>3. RowsTypeOK'
      BY <1>1, <1>3, <2>1 DEF RowsTypeOK, Values, RowValues
    <2>4. ReadersAgree'
      BY <1>1, <1>2, <1>3, <2>1, <2>2 DEF ReadersAgree
    <2>5. ColumnsAtRow'
      BY <1>1, <1>3, <2>1, <2>2 DEF Taken, ColumnsAtRow, ValuesBefore, RowValues
    <2> QED BY <1>1, <1>4, <1>5, <2>1, <2>3, <2>4, <2>5
            DEF RowsInv, LoopPlaces, LoopRows, LoopCount, RowsWhole
  <1> QED BY <1>6, <1>7

\* Reader.Reset: back to the first row.
LEMMA ReaderResetStep == ASSUME RowsInv, ReaderReset PROVE RowsInv' /\ RowsStep
  <1>1. /\ RowsTypeOK /\ ReadersAgree /\ r \in RowsCall /\ reader \in RowsReader
        /\ r.pc = "idle" /\ answer' = Q!Sought(0) /\ r' = r
    BY DEF RowsInv, RowsTypeOK, ReaderReset, MayCallRows
  <1>2. reader.calls \in Nat /\ r.begun <=> reader.open
    BY <1>1, RowsParts DEF ReadersAgree
  <1>3. /\ reader' \in RowsReader /\ reader'.open = reader.open /\ reader'.rowIndex = 0
        /\ reader'.reset = TRUE
    <2> DEFINE made == reader.calls + 1
    <2>1. made \in Nat /\ reader' = [reader EXCEPT !.rowIndex = 0, !.calls = made, !.reset = TRUE]
      BY <1>1, <1>2, RowsParts DEF ReaderReset, RowsReader
    <2> HIDE DEF made
    <2> QED BY <1>1, <2>1 DEF RowsReader
  <1>4. RowsStep
    BY <1>1, <1>3, RowAnswers DEF Q!Seek, RowsStep, Q!Next, NumRows
  <1>5. answer'.kind # "page"
    BY <1>1, RowAnswers
  <1>6. RowsTypeOK' /\ ColumnsAtRow'
    BY <1>1, <1>3, UnreadColumnsAre DEF ReaderReset, RowsTypeOK, ColumnsAtRow, Values, ValuesBefore,
      RowValues
  <1>7. ReadersAgree'
    BY <1>1, <1>2, <1>3 DEF ReadersAgree
  <1> QED BY <1>1, <1>4, <1>5, <1>6, <1>7
          DEF RowsInv, LoopPlaces, LoopRows, LoopCount, RowsWhole

\* Before the first call.
LEMMA RowsInvInit == RowsInit => RowsInv /\ Q!Init
  <1> SUFFICES ASSUME RowsInit PROVE RowsInv /\ Q!Init
    OBVIOUS
  <1>1. /\ cols = [k \in Columns |-> Unread]
        /\ r = [pc |-> "idle", rowIndex |-> 0, begun |-> FALSE, n |-> 0, column |-> 1,
                i |-> 1, numValuesInRow |-> 1, eof |-> FALSE, rowCount |-> 0]
        /\ reader = [rowIndex |-> 0, open |-> FALSE, calls |-> 0, reset |-> FALSE]
        /\ answer = Q!Sought(0)
    BY DEF RowsInit
  <1>2. r \in RowsCall /\ reader \in RowsReader /\ cols \in [Columns -> ColumnRows]
    BY <1>1 DEF RowsCall, RowsReader, Unread, ColumnRows
  <1>3. \A k \in Columns : cols[k].avail <= cols[k].next /\ cols[k].next <= Len(Values(k))
    <2> TAKE k \in Columns
    <2>1. cols[k].avail = 0 /\ cols[k].next = 0
      BY <1>1 DEF Unread
    <2>2. Len(Values(k)) \in Nat
      BY ValuesLayout
    <2> QED BY <2>1, <2>2
  <1>4. RowsTypeOK
    BY <1>2, <1>3 DEF RowsTypeOK
  <1>5. answer.kind # "page"
    BY <1>1, RowAnswers
  <1>6. NumRows \in Nat
    BY RowGroupRowsAssumption DEF RowGroupRowsAssumption, NumRows
  <1> QED BY <1>1, <1>4, <1>5, <1>6
          DEF RowsInv, ReadersAgree, ColumnsAtRow, LoopPlaces, LoopRows, LoopCount, RowsWhole, Q!Init

\* Every action keeps the invariant and is a step of SeekablePages.
LEMMA RowsInvStep ==
  RowsInv /\ [RowsNext]_rowVars /\ ~SeekAfterReset => RowsInv' /\ RowsStep
  <1> SUFFICES ASSUME RowsInv, [RowsNext]_rowVars, ~SeekAfterReset PROVE RowsInv' /\ RowsStep
    OBVIOUS
  <1>1. CASE CallReadRows
    <2>1. PICK n \in BatchSizes : ReadRows(n)
      BY <1>1 DEF CallReadRows
    <2>2. reader'.rowIndex = reader.rowIndex /\ answer' = answer
      BY <2>1 DEF ReadRows, RowsInv, RowsTypeOK, RowsReader
    <2> QED BY <2>1, <2>2, ReadRowsStep DEF RowsStep, NumRows
  <1>2. CASE FillBuffer \/ ColumnEnds \/ AppendValues \/ NextColumn
    BY <1>2, FillBufferStep, ColumnEndsStep, AppendValuesStep, NextColumnStep DEF FillBuffer,
      ColumnEnds, AppendValues, NextColumn, RowsStep, NumRows
  <1>3. CASE ReadRowsFails
    <2>1. answer' = Q!Failed /\ reader' = reader
      BY <1>3 DEF ReadRowsFails
    <2>2. reader.rowIndex \in Nat
      BY RowsParts DEF RowsInv
    <2>3. Q!ReadFails
      BY <2>1, <2>2 DEF Q!ReadFails
    <2> QED BY <1>3, <2>3, ReadRowsFailsStep DEF RowsStep, Q!Next, NumRows
  <1>4. CASE ReadRowsReturns
    BY <1>4, ReadRowsReturnsStep
  <1>5. CASE CallReaderSeek
    <2>1. PICK row \in 0 .. (NumRows + 1) : ReaderSeekToRow(row)
      BY <1>5 DEF CallReaderSeek
    <2>2. row \in Nat
      BY <2>1
    <2> QED BY <2>1, <2>2, ReaderSeekStep
  <1>6. CASE ReaderReset
    BY <1>6, ReaderResetStep
  <1>7. CASE UNCHANGED rowVars
    <2>1. UNCHANGED <<cols, r, reader, batch, answer>>
      BY <1>7 DEF rowVars
    <2>2. \A j, a : AllOf(j, a)' = AllOf(j, a) /\ AllBefore(j, a)' = AllBefore(j, a)
      BY <2>1 DEF AllOf, AllBefore, ValuesOfRow, RowValues
    <2>3. \A a : RowsLeft(a)' = RowsLeft(a)
      BY <2>1 DEF RowsLeft
    <2>4. \A k : Taken(k)' = Taken(k)
      BY <2>1 DEF Taken
    <2>5. TakenOfRow' = TakenOfRow
      BY <2>1 DEF TakenOfRow, Taken, ValuesBefore, RowValues
    <2>6. RowsTypeOK' /\ ReadersAgree' /\ ColumnsAtRow' /\ RowsWhole'
      BY <2>1, <2>4 DEF RowsInv, RowsTypeOK, ReadersAgree, ColumnsAtRow, RowsWhole,
                        Values, ValuesBefore, RowValues
    <2>7. LoopPlaces'
      BY <2>1, <2>2, <2>4, <2>5 DEF RowsInv, LoopPlaces, ValuesBefore, RowValues
    <2>8. LoopRows'
      BY <2>1, <2>2, <2>5 DEF RowsInv, LoopRows
    <2>9. LoopCount'
      BY <2>1, <2>3, <2>5 DEF RowsInv, LoopCount
    <2> QED BY <2>1, <2>6, <2>7, <2>8, <2>9 DEF RowsInv, RowsStep, NumRows
  <1> QED BY <1>1, <1>2, <1>3, <1>4, <1>5, <1>6, <1>7 DEF RowsNext

\* Every row that ReadRows returns has all its values of all columns and no
\* others, for rows of any width and a buffer of any size. Seeks after Reset are
\* excluded.
THEOREM RowsWholeCorrect ==
  ASSUME ~SeekAfterReset
  PROVE  RowsSpec => []RowsWhole
  <1>1. RowsInit => RowsInv
    BY RowsInvInit
  <1>2. RowsInv /\ [RowsNext]_rowVars => RowsInv'
    BY RowsInvStep
  <1>3. RowsInv => RowsWhole
    BY DEF RowsInv
  <1> QED BY <1>1, <1>2, <1>3, PTL DEF RowsSpec

\* Reader.ReadRows returns the rows from the one that was sought, in order and
\* without a gap, whatever the columns' pages and buffers.
THEOREM RowsImplementSeek ==
  ASSUME ~SeekAfterReset
  PROVE  RowsSpec => RowsSeek
  <1>1. RowsInit => RowsInv /\ Q!Init
    BY RowsInvInit
  <1>2. RowsInv /\ [RowsNext]_rowVars => RowsInv' /\ RowsStep
    BY RowsInvStep
  <1> QED BY <1>1, <1>2, PTL DEF RowsSpec, RowsSeek, RowsStep, Q!Spec
=============================================================================
