SPECIFICATION FairSpec
CONSTANTS
  UI = UI
  IO = IO
  Threads = {UI, IO}
  Pids = {1, 2}
  Attempts = 2
  MaxJobs = 3
INVARIANT FileInv
PROPERTIES CompletedSurvives OperationEnds
