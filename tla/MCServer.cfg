SPECIFICATION FairSpec
CONSTANTS
  query = query
  deposit = deposit
  order = order
  reload = reload
  Requests = {query, deposit, order, reload}
  Request <- MCRequest
  Dispatcher = Dispatcher
  ChannelSize = 1
  DBRows <- MCRows
  Loaded = 4
  MaxTicks = 1
  MaxGone = 1
INVARIANTS
  TypeOK
  ReadYourWrites
  AnswersAreTrue
  OrderFindsMarket
  ScratchIsComplete
  GracefulEnd
PROPERTIES
  DamageNotSaved
  EveryRequestEnds
CHECK_DEADLOCK FALSE
