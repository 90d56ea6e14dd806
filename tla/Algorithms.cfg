\* Every algorithm over all its inputs up to the bounds; buffers of every nesting
\* and storage with three rows, columns of every type with two values, and paths
\* of two conversions between all types.
SPECIFICATION AlgorithmsSpec
CONSTANTS
  Key = {1, 2, 3}
  MaxWindow = 9
  Lanes512 = 2
  Lanes256 = 1
  MaxData = 11
  MaxSmallPage = 10
  Schemas <- MCSchemas
  MaxBatch = 7
  WordSize = 4
  PackingCases <- MCPackingCases
  GroupSize = 2
  Block = 4
  MiniBlocks = 2
  IntBits = 4
  Chunk = 4
  EncodingCases <- MCEncodingCases
  IndexKinds = {"boolean", "int", "int96", "float", "unsigned", "byteArray", "fixedLen", "be128", "null"}
  MaxPages <- MCMaxPages
  MaxChunks = 3
  MaxByte = 1
  MaxBytes = 2
  SizeLimit = 1
  NullPageKinds = {"boolean", "int", "int96", "float", "unsigned", "byteArray", "null"}
  BufferKinds = {"unsigned"}
  WritePageBounds = TRUE
  Columns <- MCLayouts
  ByteArrays <- MCByteArrays
  BitsPerByte = 2
  MaxColumnRows = 3
  MaxColumnCalls = 4
  WriteAfterPage = FALSE
  TypeNames <- MCTypeNames
  MaxTypedRows = 2
  MaxConversions = 2
INVARIANTS
  RunLengthCorrect
  KernelsScanEverything
  RowsSurvive PathsAgree
  KernelsExact
  ValuesSurvive
  IndexTruthful SearchFindsFirst
  PageShowsRows LessFollowsRows
  FallbackKeepsValues BoundsCoverPages
  ConversionsKeepValues
CHECK_DEADLOCK FALSE
