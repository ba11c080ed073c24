SPECIFICATION MCSpec
CONSTANTS
  p1 = p1
  p2 = p2
  p3 = p3
  Processes = {p1, p2, p3}
  Main = p1
  NoProcess = NoProcess
  Invalid = Invalid
  NumPhysPages = 3
  MaxWrites = 1
  NumPages <- SmallPrograms
  SectorsPerTrack = 4
  NumTracks = 3
  RotationTime = 3
  SeekTime = 2
  MaxLate = 2
  MaxTime = 40
  WordBits = 8
  RegNums = {0, 1, 2, 3}
  R31 = 3
  MemSize = 8
  Programs <- MCPrograms
  Samples <- MCSamples
  t1 = t1
  t2 = t2
  t3 = t3
  Threads = {t1, t2, t3}
  MainThread = t1
  Unset = Unset
  StackTop = 7
  Depths <- MCDepths
  Coffs <- MCCoffs
  Zero = Zero
  Junk = Junk
  PageSize = 4
  UserStackSize = 5
  HeaderSize = 2
  StackMargin = 2
  MemBytes = 5
  BytesPerPage = 2
  Memories <- MCMemories
  Inputs <- MCInputs
INVARIANT InterpretersAgree
