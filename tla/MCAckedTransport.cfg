SPECIFICATION AckSpec
CONSTANTS
  r1 = r1
  r2 = r2
  Readers = {r1, r2}
  NoPid = NoPid
  SlotCount = 2
  MaxGen = 2
  MaxSeq = 2
  LastSeq = 1
CONSTRAINT LastSendsLess
ACTION_CONSTRAINT OneIsAttached
SYMMETRY Symmetry
INVARIANTS AckInv
CHECK_DEADLOCK FALSE
