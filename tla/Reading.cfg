\* Each reader over its chunks and lists: short pages, pages that continue a row,
\* chunks without rows; one fault, one seek between two reads; the metadata of
\* this writer and of others.
SPECIFICATION ReadingSpec
CONSTANTS
 Chunks <- MCChunks
 MaxSeeks = 1
 MaxCalls = 6
 MaxFaults = 1
 RetryReads = FALSE
 None = 1000
 AsyncRows = {0, 3}
 MaxPageRows = 2
 MaxAsyncCalls = 4
 MaxFatal = 1
 RowGroupLists <- MCLists
 MaxMultiCalls = 5
 Width <- MCWidth
 BatchSizes = {0, 1, 2, 5}
 bufsize = 2
 MaxRowCalls = 4
 SeekAfterReset = FALSE
 Exchanges <- MCExchanges
 Footers <- MCFooters
 MaxDecodes = 3
 MaxFailures = 1
 CutStep = 5
INVARIANTS PagesDecipherable PagesReleased RowsWhole MetadataSurvives
PROPERTIES FilePagesSeek AsyncPagesSeek AsyncCallsReturn MultiPagesSeek RowsSeek
CHECK_DEADLOCK FALSE
