SPECIFICATION Spec
CONSTANTS
  u1 = u1
  u2 = u2
  btc = btc
  usdt = usdt
  spot = spot
  Users = {u1, u2}
  Assets = {btc, usdt}
  Markets = {spot}
  Conf <- MCConf
  Scale = 2
  DisableSelfTrade = TRUE
  DisableMarketOrder = FALSE
  UserOrderNumLimit = 2
  InitialBalance <- MCBalance
  OrderInputs <- MCInputs
  Deltas = {}
  NoTaker = NoTaker
  MaxOrders = 2
  MaxBalance = 4
SYMMETRY MCSymmetry
INVARIANTS
  NoDebt
CHECK_DEADLOCK FALSE
