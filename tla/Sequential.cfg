SPECIFICATION MCSpec
CONSTANTS
  Names = {a, b}
  NumSectors = 8
  NumDirEntries = 2
  NumDirect = 2
  Sizes = {0, 2}
  MaxOpen = 1
  MaxFiles = 3
  Values = {0, 1}
  OpenFiles = {1}
  SectorSize = 3
  Place <- MCPlace
  Lengths = {0, 2, 3, 5, 7}
  Foreign = {2}
  Byte = {0, 1}
  Buffers <- MCBuffers
  TransferSize = 2
  Chunk <- MCChunk
  Cells = {1, 2, 3}
  Items = {x, y}
  Keys = {0, 1, 2}
  NULL = NULL
  SizeBound = 3
  StackSize = 3
  Pushed = {1, 2}
  Addresses = {a1, a2, a3}
  Null = Null
  numBits = 4
  BitsInWord = 3
  NoBit = NoBit
  Builds <- MCBuilds
  Options <- MCOptions
  MaxOptions = 2
SYMMETRY Symmetry
INVARIANTS Consistent CrashKeepsFiles ContentsKept BytesRight CopyShown StructuresRight StartsRight
PROPERTY ImplementsSequence
