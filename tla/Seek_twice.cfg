\* The calls of Reading.cfg, with two seeks between two reads.
SPECIFICATION ReadingSpec
CONSTANTS
 Chunks <- MCChunks
 MaxSeeks = 2
 MaxCalls = 6
 MaxFaults = 1
 RetryReads = FALSE
 None = 1000
 AsyncRows = {0, 3}
 MaxPageRows = 2
 MaxAsyncCalls = 4
 MaxFatal = 1
 RowGroupLists <- MCLists
 MaxMultiCalls = 5
 Width <- MCWidth
 BatchSizes = {0, 1, 2, 5}
 bufsize = 2
 MaxRowCalls = 4
 SeekAfterReset = FALSE
 Exchanges <- MCExchanges
 Footers <- MCFooters
 MaxDecodes = 3
 MaxFailures = 1
 CutStep = 5
PROPERTY FilePagesSeek
CHECK_DEADLOCK FALSE
