\* The dictionary of column 1 outgrows its limit and the column falls back to
\* PLAIN; row groups fill up in the middle of calls; every call must return.
SPECIFICATION FairSpec
CONSTANTS
  NumColumns = 2
  Value = {0, 1, 2}
  ValueOf <- MCValueOf
  BufferSize <- MCBufferSize
  DictionaryColumns = {1}
  DictionaryMaxBytes = 1
  FilterColumns = {2}
  HeaderSize = 1
  MaxRows = 8
  RowGroups = {}
  MaxRowsPerRowGroup = 5
  MaxRowGroups = 2
  maxRowsPerWrite = 2
  DeferredBloomFilters = FALSE
  MaxCall = 3
  CallKinds = {"Write"}
  SourcePage = 2
  reencodeBatch = 2
  MaxResets = 0
  Faults = FALSE
INVARIANTS LocationsExact DictionaryCovers SizeLimits
PROPERTIES CallsReturn
CHECK_DEADLOCK FALSE
