\* WriteRowGroup by its three paths mixed with WriteRows; page buffers and the
\* output fail anywhere, bloom filters are deferred to Close, and the writer is
\* reused through Reset.
SPECIFICATION Spec
CONSTANTS
  NumColumns = 2
  Value = {0, 1, 2}
  ValueOf <- MCValueOf
  BufferSize <- MCBufferSize
  DictionaryColumns = {1}
  DictionaryMaxBytes = 0
  FilterColumns = {1, 2}
  HeaderSize = 1
  MaxRows = 4
  RowGroups = {}
  MaxRowsPerRowGroup = 3
  MaxRowGroups = 3
  maxRowsPerWrite = 2
  DeferredBloomFilters = TRUE
  MaxCall = 4
  CallKinds = {"WriteRows", "copyable", "columnar", "opaque"}
  SourcePage = 2
  reencodeBatch = 2
  MaxResets = 2
  Faults = TRUE
INVARIANTS TypeOK SegmentsDisjoint BloomFilterComplete
PROPERTIES ImplementsRowLog
CHECK_DEADLOCK FALSE
