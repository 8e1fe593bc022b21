SPECIFICATION Spec
CONSTANTS
  Modes = {"SharedMemory", "File"}
  Rates = {1, 2}
  DefaultRate = 2
  StaleAfter = 1
  StalePeriods = 1
  OpenEvery = 1
  CheckEvery = 1
  MayFail = TRUE
  MaxGen = 2
  MaxSeq = 2
  MaxLate = 1
  None = None
INVARIANTS PumpInv NoStaleSample
ACTION_CONSTRAINT OneRatePerWriter
PROPERTIES JumpIsFlagged
