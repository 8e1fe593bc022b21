SPECIFICATION FairSpec
CONSTANTS
  r1 = r1
  Readers = {r1}
  NoPid = NoPid
  SlotCount = 3
  MaxGen = 2
  MaxSeq = 4
INVARIANTS TypeOK NoTornFrame NoSlotLeaks FreshFrame
PROPERTIES ImplementsLatestFrame StepsBackAtMostOne OneReaderNeverDrops
  LatestIsRead
CHECK_DEADLOCK FALSE
