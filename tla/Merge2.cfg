\* Two readers with up to 4 rows of three keys, buffers of 3 growing to 4 rows,
\* calls with room for 0, 1 or 3 rows; runs are emitted from the second win on.
\* A reader may fail once; the caller tries again unless its first call failed.
SPECIFICATION FairSpec
CONSTANTS
  NumReaders = 2
  Key = {1, 2, 3}
  MaxInput = 3
  MaxRows = 6
  BatchSizes = {0, 1, 3}
  minRowBufferSize = 3
  maxRowBufferSize = 4
  runDetectionStreak = 1
  Retries = {"refill"}
  MaxFaults = 1
PROPERTIES ImplementsMerge CallsReturn
CHECK_DEADLOCK FALSE
