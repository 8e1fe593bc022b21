SPECIFICATION Spec
CONSTANTS
  MaxEpoch = 2
  MaxMerged = 2
  MayNotCompose = TRUE
  None = None
INVARIANT PipelineInv
CHECK_DEADLOCK FALSE
