SPECIFICATION Spec
CONSTANTS
  p0 = p0
  p1 = p1
  NoNotify = NoNotify
  Tags = {p0, p1}
  Input <- MCMoreRows
  INSERT_LIMIT = 2
  CHANNEL_LIMIT = 2
  spawn_limit = 3
  Chunks = {1}
  MaxFails = 0
INVARIANTS
  NoReportPastDrop
CHECK_DEADLOCK FALSE
