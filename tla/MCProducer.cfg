SPECIFICATION FairSpec
CONSTANTS
  persistors <- MCPersistors
  Operations <- MCOperations
  Capacity = 2
  Reserve = 1
  ListLimit = 2
  KafkaLimit = 1
  MaxErrors = 2
INVARIANTS
  EngineSurvives
  UnifyInOrder
  InOnePlace
PROPERTIES
  CatchesUp
CHECK_DEADLOCK FALSE
