SPECIFICATION FairSpec
CONSTANTS
  p0 = p0
  p1 = p1
  NoNotify = NoNotify
  Tags = {p0, p1}
  Input <- MCInput
  INSERT_LIMIT = 2
  CHANNEL_LIMIT = 2
  spawn_limit = 2
  Chunks = {1}
  MaxFails = 2
INVARIANTS
  TypeOK
  TwiceOnlyIfDoubtful
  ReportComplete
PROPERTIES
  ImplementsRowStore
  AcceptedIsStored
CHECK_DEADLOCK FALSE
