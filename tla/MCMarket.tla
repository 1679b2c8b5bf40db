------------------------------ MODULE MCMarket ------------------------------
(***************************************************************************)
(* One market and two users: the instances on which TLC checks module      *)
(* Market.                                                                 *)
(***************************************************************************)
EXTENDS MarketLedger, TLC

CONSTANTS u1, u2, btc, usdt, spot

MCConf == [m \in {spot} |->
             [base |-> btc, quote |-> usdt, min_amount |-> 1, fee_prec |-> 2]]

MCBalance == [u \in Users |-> [a \in Assets |-> IF a = btc THEN 2 ELSE 4]]

Limit(side, amount, price, post_only) ==
  [market |-> spot, side |-> side, type |-> "LIMIT", amount |-> amount,
   price |-> price, quote_limit |-> 0, taker_fee |-> 1, maker_fee |-> 1,
   post_only |-> post_only]

MarketOrder(side, amount, limit) ==
  [market |-> spot, side |-> side, type |-> "MARKET", amount |-> amount,
   price |-> 0, quote_limit |-> limit, taker_fee |-> 1, maker_fee |-> 0,
   post_only |-> FALSE]

MCSound ==
  {Limit(s, n, p, FALSE) : s \in OrderSide, n \in 1..2, p \in 1..2}
  \cup {Limit(s, 1, p, TRUE) : s \in OrderSide, p \in {1}}
  \cup {MarketOrder("ASK", 2, 0), MarketOrder("BID", 2, 0), MarketOrder("BID", 2, 6)}

\* Requests whose numbers have the wrong sign or size, and a limit that
\* rounds to zero: none of them is refused for it.
MCOdd ==
  {Limit("BID", 1, -1, FALSE), MarketOrder("BID", 2, -6), MarketOrder("BID", 1, 1),
   [Limit("ASK", 1, 2, FALSE) EXCEPT !.taker_fee = 3, !.maker_fee = -2]}

MCInputs == MCSound \cup MCOdd

MCSymmetry == Permutations({u1, u2})

=============================================================================
