---------------------------- MODULE MCTwoMarkets ----------------------------
(***************************************************************************)
(* Two markets that share an asset: btc is the quote asset of one and the  *)
(* base asset of the other, so a bid in the first and an ask in the second *)
(* freeze the same balance.  Deposits and withdrawals come in between.     *)
(***************************************************************************)
EXTENDS MarketLedger, TLC

CONSTANTS u1, u2, eth, btc, usdt, ethbtc, btcusdt

MCConf == (ethbtc :> [base |-> eth, quote |-> btc, min_amount |-> 1, fee_prec |-> 2])
       @@ (btcusdt :> [base |-> btc, quote |-> usdt, min_amount |-> 2, fee_prec |-> 0])

MCBalance == [u \in Users |-> [a \in Assets |-> 4]]

\* Fees are charged in ethbtc only: fee_prec = 0 forbids them in btcusdt.
Limit(m, side, amount, price) ==
  [market |-> m, side |-> side, type |-> "LIMIT", amount |-> amount,
   price |-> price, quote_limit |-> 0, taker_fee |-> IF m = ethbtc THEN 1 ELSE 0,
   maker_fee |-> IF m = ethbtc THEN 1 ELSE 0, post_only |-> FALSE]

MarketOrder(m, side, amount, limit) ==
  [Limit(m, side, amount, 0) EXCEPT !.type = "MARKET", !.quote_limit = limit]

MCInputs ==
  {Limit(ethbtc, s, n, p) : s \in OrderSide, n \in {1, 2}, p \in {1, 2}}
  \cup {Limit(btcusdt, s, n, 1) : s \in OrderSide, n \in {2, 3}}
  \cup {MarketOrder(btcusdt, "ASK", 2, 0), MarketOrder(ethbtc, "BID", 2, 0),
         MarketOrder(ethbtc, "BID", 2, 6)}
  \cup {Limit(btcusdt, "BID", 2, -1), MarketOrder(ethbtc, "BID", 2, -6),
         [Limit(ethbtc, "ASK", 1, 2) EXCEPT !.taker_fee = 3, !.maker_fee = -2]}

MCDeltas == {-4, 4}

MCSymmetry == Permutations({u1, u2})

=============================================================================
