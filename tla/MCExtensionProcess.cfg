SPECIFICATION MCFairSpec
CONSTANTS
  c1 = c1
  s1 = s1
  s2 = s2
  b1 = b1
  b2 = b2
  c2 = c2
  Callbacks = {c1, c2}
  FirstCallback = c1
  Nobody = Nobody
  Workers = {s1, s2}
  NoWorker = NoWorker
  MayEnd = TRUE
  MayPanic = TRUE
  Clients = {"zoom", "stranger"}
  Signing <- MCSigning
  Buffers = {b1, b2}
  NoBuffer = NoBuffer
  Nothing = Nothing
  OutWidth = 2
  OutHeight = 2
  OutStride = 12
  Frames <- MCFrames
  Leftovers <- MCLeftovers
  Capacity = 16
  Regions <- MCRegions
  ReaderLimit = 20
  Modes = {"SharedMemory", "File"}
  WordMax = 99
  HeaderBytes = 8
  PageBytes = 16
  SlotCount = 3
  SpoolHeader = 4
INVARIANTS ProcessInv PictureInv
PROPERTIES StoppedIsSilent RestartRevives StopReturns SamplesFlow
CHECK_DEADLOCK FALSE
