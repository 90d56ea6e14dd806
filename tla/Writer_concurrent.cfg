\* A goroutine fills a row group of BeginRowGroup while the main thread writes,
\* flushes, commits, re-encodes a row group and closes, defers its bloom filters to
\* Close, and reuses the writer after Close or after an error; either may fail.
SPECIFICATION Spec
CONSTANTS
  NumColumns = 2
  Value = {0, 1, 2}
  ValueOf <- MCValueOf
  BufferSize <- MCBufferSize
  DictionaryColumns = {1}
  DictionaryMaxBytes = 0
  FilterColumns = {2}
  HeaderSize = 1
  MaxRows = 3
  RowGroups = {1}
  MaxRowsPerRowGroup = 2
  MaxRowGroups = 3
  maxRowsPerWrite = 2
  DeferredBloomFilters = TRUE
  MaxCall = 3
  CallKinds = {"WriteRows", "columnar"}
  SourcePage = 2
  reencodeBatch = 2
  MaxResets = 1
  Faults = TRUE
INVARIANTS PoolSafe ColumnsAligned RowsAccounted
CHECK_DEADLOCK FALSE
