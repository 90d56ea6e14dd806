------------------------------ MODULE FilePages ------------------------------
(***************************************************************************)
(* The pages of a column chunk of a file, read in order and sought by row.  *)
(*                                                                         *)
(* The fields of `f' are those of the Go struct, except that `stream' is    *)
(* the page at which the buffered reader stands (the bytes before it are    *)
(* read or discarded) and `lastPage' the number of the page that the cached *)
(* page object holds.  `index' and `lastPageIndex' are what the code        *)
(* believes these numbers to be.                                            *)
(***************************************************************************)
EXTENDS Naturals, Sequences, FiniteSetsExt

CONSTANTS Chunks,         \* column chunks: see ChunkType
          MaxSeeks,       \* how often the caller seeks before it reads again
          MaxCalls,       \* bound on the calls of a behaviour
          MaxFaults,      \* how often reading from the file fails
          RetryReads,     \* whether the caller goes on after a failed read
          None            \* a page number no page has

DictPage == None + 1      \* the buffered reader stands at the dictionary page
Inside == None + 2        \* ... or in the middle of a page

\* pages[k + 1] is data page k.  `first' is its FirstRowIndex in the offset
\* index; `continues' says that it begins inside a row (data page V1 only).
PageType == [first : Nat, rows : Nat, continues : BOOLEAN]
ChunkType == [pages : Seq(PageType), dict : BOOLEAN, v1 : BOOLEAN,
              encrypted : BOOLEAN, index : {"none", "lazy", "loaded"}]

ASSUME FilePagesAssumption ==
    /\ Chunks \subseteq ChunkType
    /\ MaxSeeks \in Nat /\ MaxCalls \in Nat /\ MaxFaults \in Nat
    /\ RetryReads \in BOOLEAN /\ None \in Nat
    /\ \A c \in Chunks : Len(c.pages) < None
    /\ \A c \in Chunks : \A i \in 1..Len(c.pages) :
          /\ c.pages[i].first =
                IF i = 1 THEN 0 ELSE c.pages[i - 1].first + c.pages[i - 1].rows
          /\ c.pages[i].continues => c.v1 /\ i > 1 /\ c.index = "none"
          /\ c.pages[i].rows = 0 => c.pages[i].continues

VARIABLES chunk, f, ret,  \* ret: what the last call has returned
          budget          \* calls, consecutive seeks and faults so far

fileVars == <<chunk, f, ret, budget>>

NumPages(c) == Len(c.pages)
Data(c, k) == c.pages[k + 1]
RowsOf(c) == IF c.pages = <<>> THEN 0
             ELSE Data(c, NumPages(c) - 1).first + Data(c, NumPages(c) - 1).rows
FirstOf(c, k) == IF k < NumPages(c) THEN Data(c, k).first ELSE RowsOf(c)

\* The row at which the reader stands, as SeekablePages sees it.
FilePosition ==
    IF f.serveLastPage /\ f.lastPage # None
    THEN Data(chunk, f.lastPage).first + f.skip
    ELSE CASE f.stream = DictPage -> f.skip
           [] f.stream = Inside -> 0
           [] OTHER -> FirstOf(chunk, f.stream) + f.skip

P == INSTANCE SeekablePages WITH numRows <- RowsOf(chunk),
                                 position <- FilePosition, result <- ret

Slice(k, skip) == P!Page(Data(chunk, k).first + skip, Data(chunk, k).rows - skip, FALSE)
Whole(k) == P!Page(Data(chunk, k).first, Data(chunk, k).rows, Data(chunk, k).continues)

-----------------------------------------------------------------------------
\* FilePages.init
Opened(c) ==
    [index |-> 0, skip |-> 0, dictionary |-> FALSE, lastPage |-> None,
     lastPageIndex |-> None, serveLastPage |-> FALSE, seekToRowStart |-> FALSE,
     stream |-> IF c.dict THEN DictPage ELSE 0,
     dataPageOrd |-> 0, dictPagePending |-> c.encrypted /\ c.dict,
     offsetIndex |-> c.index = "loaded", pc |-> "idle"]

FilePagesInitOn(chunks) ==
    /\ chunk \in chunks
    /\ f = Opened(chunk)
    /\ ret = P!Sought(0)
    /\ budget = [calls |-> 0, seeks |-> 0, faults |-> 0]

FilePagesInit == FilePagesInitOn(Chunks)

Called == [budget EXCEPT !.calls = @ + 1, !.seeks = 0]
MayCall == f.pc = "idle" /\ budget.calls < MaxCalls

\* ReadPage, up to its loop: the last page is served again if SeekToRow has
\* asked for it, and skipped if the row is not in it.
ReadPage ==
    LET serve == f.serveLastPage /\ f.lastPage # None
        g == [f EXCEPT !.seekToRowStart = f.skip > 0]
        h == [g EXCEPT !.serveLastPage = FALSE, !.index = f.lastPageIndex + 1]
    IN
    /\ MayCall
    /\ budget' = Called
    /\ UNCHANGED chunk
    /\ \/ /\ ~serve
          /\ f' = [g EXCEPT !.pc = "reading"]
          /\ UNCHANGED ret
       \/ /\ serve
          /\ f.skip < Data(chunk, f.lastPage).rows
          /\ f' = [h EXCEPT !.skip = 0]
          /\ ret' = Slice(f.lastPage, f.skip)
       \/ /\ serve
          /\ f.skip >= Data(chunk, f.lastPage).rows
          /\ f' = [h EXCEPT !.skip = @ - Data(chunk, f.lastPage).rows, !.pc = "reading"]
          /\ UNCHANGED ret

\* One page of the loop of ReadPage.
AtDictPage ==
    /\ f.pc = "reading" /\ f.stream = DictPage
    /\ f' = [f EXCEPT !.dictionary = TRUE, !.stream = 0, !.dictPagePending = FALSE]
    /\ UNCHANGED <<chunk, ret, budget>>

AtEnd ==
    /\ f.pc = "reading" /\ f.stream = NumPages(chunk)
    /\ f' = [f EXCEPT !.pc = "idle"]
    /\ ret' = P!EOF
    /\ UNCHANGED <<chunk, budget>>

\* The ordinal that authenticates the page is counted, not read.
Undecipherable == chunk.encrypted /\ (f.dictPagePending \/ f.dataPageOrd # f.stream)

\* readEncryptedPage / readPage, readDataPageV1 / readDataPageV2: the page
\* becomes the last page.
Decoded == [f EXCEPT !.dictionary = f.dictionary \/ chunk.dict,
                     !.stream = @ + 1, !.dataPageOrd = @ + 1,
                     !.lastPage = f.stream, !.lastPageIndex = f.index,
                     !.index = @ + 1]

Returned(p, g) == /\ ret' = p
                  /\ f' = [g EXCEPT !.skip = 0, !.pc = "idle"]

AtDataPage ==
    LET page == Data(chunk, f.stream) IN
    /\ f.pc = "reading" /\ f.stream < NumPages(chunk)
    /\ ~Undecipherable
    /\ UNCHANGED <<chunk, budget>>
    /\ \/ /\ f.skip = 0
          /\ ~f.seekToRowStart \/ ~chunk.v1
          /\ Returned(Whole(f.stream), Decoded)
       \/ /\ f.skip = 0 /\ f.seekToRowStart /\ chunk.v1
          /\ page.rows = 0
          /\ f' = Decoded
          /\ UNCHANGED ret
       \/ /\ f.skip = 0 /\ f.seekToRowStart /\ chunk.v1
          /\ page.rows > 0
          /\ Returned(Slice(f.stream, 0), Decoded)
       \/ /\ f.skip > 0 /\ page.rows <= f.skip
          /\ f' = [Decoded EXCEPT !.skip = @ - page.rows]
          /\ UNCHANGED ret
       \/ /\ f.skip > 0 /\ page.rows > f.skip
          /\ Returned(Slice(f.stream, f.skip), Decoded)

\* An error of the file: before the header or in the middle of a page.  A page
\* that cannot be deciphered, or the middle of one, is an error as well.
ReadPageFails ==
    /\ f.pc = "reading"
    /\ \/ /\ budget.faults < MaxFaults
          /\ budget' = [budget EXCEPT !.faults = @ + 1]
          /\ \E s \in {f.stream, Inside} : f' = [f EXCEPT !.stream = s, !.pc = "idle"]
       \/ /\ f.stream = Inside \/ (f.stream < NumPages(chunk) /\ Undecipherable)
          /\ f' = [f EXCEPT !.pc = "idle"]
          /\ UNCHANGED budget
    /\ ret' = P!Failed
    /\ UNCHANGED chunk

-----------------------------------------------------------------------------
MayGoOn == RetryReads \/ ret # P!Failed

\* Mutant: the count of data pages goes on from where the reader was.
SoughtKeepingOrdinal(row) ==
    [f EXCEPT !.stream = 0, !.skip = row,
              !.index = IF chunk.dict THEN 1 ELSE 0, !.dictPagePending = FALSE]

\* SeekToRow without an offset index: from the first data page, by skipping.
SoughtByScan(row) ==
    [f EXCEPT !.stream = 0, !.skip = row,
              !.index = IF chunk.dict THEN 1 ELSE 0,
              !.dataPageOrd = 0, !.dictPagePending = FALSE]

\* SeekToRow with an offset index.
Target(row) == Max({k \in 0..(NumPages(chunk) - 1) : Data(chunk, k).first <= row})

\* Mutant: the buffered reader is not moved to the page.
SoughtWithoutReader(row) ==
    LET target == Target(row)
        g == [f EXCEPT !.skip = row - Data(chunk, target).first]
    IN  IF f.lastPage # None /\ target = f.lastPageIndex
        THEN [g EXCEPT !.serveLastPage = TRUE] ELSE [g EXCEPT !.index = target]

SoughtByIndex(row) ==
    LET target == Target(row)
        g == [f EXCEPT !.skip = row - Data(chunk, target).first]
    IN  IF f.lastPage # None /\ target = f.lastPageIndex THEN [g EXCEPT !.serveLastPage = TRUE]
        ELSE IF f.index = target THEN g
        ELSE [g EXCEPT !.index = target, !.stream = target,
                       !.dataPageOrd = target, !.dictPagePending = FALSE]

SeekToRow(row) ==
    /\ MayCall /\ MayGoOn
    /\ budget.seeks < MaxSeeks
    /\ budget' = [budget EXCEPT !.calls = @ + 1, !.seeks = @ + 1]
    /\ UNCHANGED chunk
    /\ \/ /\ ~f.offsetIndex
          /\ f' = SoughtByScan(row)
          /\ ret' = P!Sought(row)
       \/ /\ f.offsetIndex /\ chunk.pages = <<>>
          /\ f' = IF row = 0 THEN [f EXCEPT !.skip = 0] ELSE f
          /\ ret' = IF row = 0 THEN P!Sought(0) ELSE P!OutOfRange(row)
       \/ /\ f.offsetIndex /\ chunk.pages # <<>>
          /\ f' = SoughtByIndex(row)
          /\ ret' = P!Sought(row)

\* ReadDictionary, called before any page was read.
ReadDictionary ==
    /\ MayCall /\ chunk.dict /\ ~f.dictionary
    /\ f' = [f EXCEPT !.dictionary = TRUE]
    /\ budget' = [budget EXCEPT !.calls = @ + 1]
    /\ UNCHANGED <<chunk, ret>>

\* FileColumnChunk.OffsetIndex, called by this or another goroutine: the index
\* of a file opened with SkipPageIndex is read and kept.
ReadOffsetIndex ==
    /\ chunk.index = "lazy" /\ ~f.offsetIndex /\ f.pc = "idle"
    /\ f' = [f EXCEPT !.offsetIndex = TRUE]
    /\ UNCHANGED <<chunk, ret, budget>>

\* Close
ClosePages ==
    /\ MayCall
    /\ f' = [Opened(chunk) EXCEPT !.offsetIndex = f.offsetIndex, !.pc = "closed"]
    /\ ret' = P!Closed
    /\ UNCHANGED <<chunk, budget>>

CallReadPage == MayGoOn /\ ReadPage
CallSeekToRow == \E row \in 0..(RowsOf(chunk) + 1) : SeekToRow(row)

FilePagesNext == \/ CallReadPage \/ AtDictPage \/ AtEnd \/ AtDataPage \/ ReadPageFails
                 \/ CallSeekToRow \/ ReadDictionary \/ ReadOffsetIndex \/ ClosePages

FilePagesSpec == FilePagesInit /\ [][FilePagesNext]_fileVars

-----------------------------------------------------------------------------
(* ReadPage returns the rows from the one that was sought, in order, and     *)
(* leaves none out: whether the page is cached, buffered, reached by         *)
(* skipping or through the offset index, and whenever the index is loaded.   *)
FilePagesSeek == P!Spec

(* The ordinal by which a page is authenticated is the page's own: no read   *)
(* of an encrypted chunk fails but by a fault of the file.                   *)
PagesDecipherable ==
    f.pc = "reading" /\ f.stream < NumPages(chunk) => ~Undecipherable
==============================================================================
