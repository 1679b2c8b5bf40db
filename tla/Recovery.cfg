SPECIFICATION Spec
CONSTANTS
  SLICE_KEEP_TIME = 1
  NoSlice = NoSlice
  MaxOps = 2
  MaxForks = 2
  MaxStarts = 3
  MaxTime = 1
INVARIANTS
  TypeOK
  LastSliceWhole
  OrdersMatchBalances
  LoggedIsRemembered
  LogIdsFresh
CHECK_DEADLOCK FALSE
