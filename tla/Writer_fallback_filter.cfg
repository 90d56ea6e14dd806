\* The bloom filter of a column whose dictionary was abandoned.
SPECIFICATION Spec
CONSTANTS
  NumColumns = 2
  Value = {0, 1, 2}
  ValueOf <- MCValueOf
  BufferSize <- MCBufferSize
  DictionaryColumns = {1}
  DictionaryMaxBytes = 1
  FilterColumns = {1}
  HeaderSize = 1
  MaxRows = 5
  RowGroups = {}
  MaxRowsPerRowGroup = 5
  MaxRowGroups = 3
  maxRowsPerWrite = 2
  DeferredBloomFilters = FALSE
  MaxCall = 3
  CallKinds = {"Write"}
  SourcePage = 2
  reencodeBatch = 2
  MaxResets = 0
  Faults = FALSE
INVARIANTS BloomFilterComplete
CHECK_DEADLOCK FALSE
