SPECIFICATION AckSpec
CONSTANTS
  r1 = r1
  Readers = {r1}
  NoPid = NoPid
  SlotCount = 2
  MaxGen = 2
  MaxSeq = 2
  LastSeq = 2
INVARIANTS AckWasAnswered
CHECK_DEADLOCK FALSE
