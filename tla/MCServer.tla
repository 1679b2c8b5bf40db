------------------------------ MODULE MCServer ------------------------------
(***************************************************************************)
(* The requests: a query, a deposit, an order that may end the engine, and *)
(* a reload from scratch.                                                  *)
(***************************************************************************)
EXTENDS Server

CONSTANTS query, deposit, order, reload

Req(kind, roles) ==
  [kind |-> kind, roles |-> roles, valid |-> TRUE, market |-> "", scratch |-> FALSE, panics |-> FALSE]

MCRequest ==
  [r \in Requests |->
     CASE r = query   -> Req("query", {"user"})
       [] r = deposit -> Req("deposit", {"user", "deposit_admin"})
       [] r = order   -> [Req("order", {"user"}) EXCEPT !.market = "btc_usdt", !.panics = TRUE]
       [] r = reload  -> [Req("reload", {"user", "admin"}) EXCEPT !.scratch = TRUE]]

Asset(a, t) ==
  [table |-> "asset", name |-> a, needs |-> {}, precise |-> TRUE, create_time |-> t]
Pair(m, as, t) ==
  [table |-> "market", name |-> m, needs |-> as, precise |-> TRUE, create_time |-> t]

\* Inserted later: a market with more digits than its assets have, and one
\* with the create_time of the last one loaded.
MCRows == <<Asset("btc", 1), Asset("usdt", 1), Asset("eth", 1),
            Pair("btc_usdt", {"btc", "usdt"}, 1),
            [Pair("eth_btc", {"eth", "btc"}, 1) EXCEPT !.precise = FALSE],
            Pair("eth_usdt", {"eth", "usdt"}, 1)>>

=============================================================================
