SPECIFICATION Spec
CONSTANTS
  persistors <- MCPersistors
  Operations <- MCBurst
  Capacity = 2
  Reserve = 1
  ListLimit = 2
  KafkaLimit = 1
  MaxErrors = 0
INVARIANTS
  EngineSurvives
CHECK_DEADLOCK FALSE
