SPECIFICATION Spec
CONSTANTS
  u1 = u1
  u2 = u2
  btc = btc
  usdt = usdt
  spot = spot
  Users = {u1, u2}
  Assets = {btc, usdt}
  Markets = {spot}
  Conf <- MCConf
  Scale = 2
  DisableSelfTrade = FALSE
  DisableMarketOrder = FALSE
  UserOrderNumLimit = 2
  InitialBalance <- MCBalance
  OrderInputs <- MCSound
  Deltas = {}
  NoTaker = NoTaker
  MaxOrders = 4
  MaxBalance = 4
SYMMETRY MCSymmetry
INVARIANTS
  NoPanic
CHECK_DEADLOCK FALSE
