SPECIFICATION Spec
CONSTANTS
  u1 = u1
  u2 = u2
  eth = eth
  btc = btc
  usdt = usdt
  ethbtc = ethbtc
  btcusdt = btcusdt
  Users = {u1, u2}
  Assets = {eth, btc, usdt}
  Markets = {ethbtc, btcusdt}
  Conf <- MCConf
  Scale = 2
  DisableSelfTrade = TRUE
  DisableMarketOrder = FALSE
  UserOrderNumLimit = 2
  InitialBalance <- MCBalance
  OrderInputs <- MCInputs
  Deltas <- MCDeltas
  NoTaker = NoTaker
  MaxOrders = 3
  MaxBalance = 4
SYMMETRY MCSymmetry
INVARIANTS
  FrozenMatchesOrders
  OrderNumLimit
  NonNegative
  TakerFunds
  DeathHasACause
PROPERTIES
  ImplementsLedger
CHECK_DEADLOCK FALSE
