SPECIFICATION FairSpec
CONSTANTS
  w1 = w1
  w2 = w2
  r1 = r1
  o1 = o1
  o2 = o2
  o3 = o3
  Writers = {w1, w2}
  Readers = {r1}
  NoProcess = NoProcess
  Objects = {o1, o2, o3}
  NoObject = NoObject
  Kinds = {"Posix", "File"}
  MaxGen = 3
  MaxLives = 2
INVARIANT EndpointInv
PROPERTIES LiveRegionUndisturbed ReadersFindWriter
CHECK_DEADLOCK FALSE
