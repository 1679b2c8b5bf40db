SPECIFICATION Spec
CONSTANTS
  Tags = {p0}
  Chain <- MCChain
  Log <- MCLog
  INSERT_LIMIT = 2
  spawn_limit = 2
  MaxQueue = 1
  MaxRewinds = 1
  MaxFails = 1
INVARIANTS
  TypeOK
  CommittedIsStored
  CommitsCatchUp
CHECK_DEADLOCK FALSE
