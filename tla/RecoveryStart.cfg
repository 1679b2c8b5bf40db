SPECIFICATION Spec
CONSTANTS
  SLICE_KEEP_TIME = 1
  NoSlice = NoSlice
  MaxOps = 1
  MaxForks = 1
  MaxStarts = 2
  MaxTime = 1
INVARIANTS
  StartSucceeds
CHECK_DEADLOCK FALSE
