------------------------------- MODULE Market -------------------------------
(***************************************************************************)
(* The matching engine: the markets (market/mod.rs), the balances they     *)
(* share (asset/) and the controller operations that change them           *)
(* (controller.rs: order_put, order_cancel, order_cancel_all and           *)
(* update_balance).                                                        *)
(*                                                                         *)
(* Every one of those operations runs alone, under the write lock of the   *)
(* server's dispatcher.  The two that loop are modelled one iteration per  *)
(* step: put_order's matching loop (taker # NoTaker while it runs) and     *)
(* cancel_all_for_user (cancelling # {}).  No operation starts while one   *)
(* runs, and a reader, who needs the read lock, sees only idle states.     *)
(*                                                                         *)
(* Order ids come from one sequencer shared by all markets, so the         *)
(* markets' maps are merged: orders holds the open orders of every market  *)
(* by id, and asks, bids and users hold the ids of the three indexes over  *)
(* them.  The source keeps an order in a shared cell (OrderRc) that all    *)
(* four maps point to, so the record is stored once here too.              *)
(***************************************************************************)
EXTENDS Orders, FiniteSets

CONSTANTS
  DisableSelfTrade,      \* settings.disable_self_trade
  DisableMarketOrder,    \* settings.disable_market_order
  UserOrderNumLimit,     \* settings.user_order_num_limit
  InitialBalance,        \* what each user owns when the engine starts
  OrderInputs,           \* the order requests clients may send
  Deltas,                \* the amounts clients may deposit (> 0) or withdraw (< 0)
  NoTaker,               \* no order is being executed
  MaxOrders,             \* bound: orders created
  MaxBalance             \* bound: a deposit lifts no balance above this

ASSUME EngineAssumption ==
  /\ DisableSelfTrade \in BOOLEAN
  /\ DisableMarketOrder \in BOOLEAN
  /\ UserOrderNumLimit \in Nat \ {0}
  /\ InitialBalance \in [Users -> [Assets -> Nat]]
  /\ OrderInputs \subseteq OrderInput
  /\ Deltas \subseteq Int
  /\ NoTaker \notin Order
  /\ MaxOrders \in Nat
  /\ MaxBalance \in Nat

VARIABLES
  balance,       \* BalanceManager.balances
  orders,        \* open orders by id (Market.orders of every market)
  asks, bids,    \* ids in the two sides of the books
  users,         \* ids of each user's open orders (Market.users)
  order_id,      \* the sequencer's last order id
  taker,         \* the order being executed, or NoTaker
  quote_limit,   \* the most a market bid may spend
  quote_sum,     \* the quote amount it has spent
  visited,       \* the counter orders its matching loop has traded with
  cancelling,    \* the orders cancel_all_for_user has still to finish
  event,         \* the last event sent for each order
  inflow,        \* deposits minus withdrawals minus traded fees, by asset
  faults,        \* the kinds of faulty requests the engine has accepted so far
  panicked       \* an unwrap() of a refused balance update ended the engine

bookVars == <<orders, asks, bids, users>>
execVars == <<taker, quote_limit, quote_sum, visited>>
vars == <<balance, orders, asks, bids, users, order_id, taker, quote_limit,
          quote_sum, visited, cancelling, event, inflow, faults, panicked>>

EventType == {"PUT", "UPDATE", "FINISH"}

(***************************************************************************)
(* A fresh engine whose users have deposited InitialBalance.               *)
(***************************************************************************)
Init ==
  /\ balance = [t \in BalanceType |->
                  IF t = "AVAILABLE" THEN InitialBalance
                  ELSE [u \in Users |-> [a \in Assets |-> 0]]]
  /\ orders = [i \in {} |-> NoTaker]
  /\ asks = {} /\ bids = {}
  /\ users = [u \in Users |-> {}]
  /\ order_id = 0
  /\ taker = NoTaker /\ quote_limit = 0 /\ quote_sum = 0 /\ visited = {}
  /\ cancelling = {}
  /\ event = [i \in {} |-> "PUT"]
  /\ inflow = [a \in Assets |-> 0]
  /\ faults = {}
  /\ panicked = FALSE

Idle == taker = NoTaker /\ cancelling = {} /\ ~panicked

Executing == taker # NoTaker /\ ~panicked

(***************************************************************************)
(* The open orders on the other side of an order's market.                 *)
(***************************************************************************)
CounterOrders(side, m) ==
  {i \in IF side = "ASK" THEN bids ELSE asks : orders[i].market = m}

\* Mutant: the price is forgotten in the check of a limit bid.
Affordable_NoPrice(u, in) ==
  LET available == balance["AVAILABLE"][u]
  IN  IF in.side = "ASK"
      THEN available[Conf[in.market].base] >= in.amount
      ELSE in.type = "LIMIT"
             => available[Conf[in.market].quote] >= in.amount

(***************************************************************************)
(* Market::put_order: the checks that refuse a request.  A refused request *)
(* changes nothing.                                                        *)
(***************************************************************************)
Affordable(u, in) ==
  LET available == balance["AVAILABLE"][u]
  IN  IF in.side = "ASK"
      THEN available[Conf[in.market].base] >= in.amount
      ELSE in.type = "LIMIT"
             => available[Conf[in.market].quote] >= in.amount * in.price

\* Mutant: the number of open orders is not checked.
Acceptable_NoLimit(u, in) ==
  /\ in.amount >= Conf[in.market].min_amount
  /\ IF in.type = "MARKET"
     THEN in.price = 0 /\ ~in.post_only /\ CounterOrders(in.side, in.market) # {}
     ELSE in.price # 0
  /\ Affordable(u, in)

Acceptable(u, in) ==
  /\ Cardinality(users[u]) # UserOrderNumLimit
  /\ ~(in.type = "MARKET" /\ DisableMarketOrder)
  /\ in.amount >= Conf[in.market].min_amount
  /\ Conf[in.market].fee_prec = 0 => in.taker_fee = 0 /\ in.maker_fee = 0
  /\ IF in.type = "MARKET"
     THEN /\ in.price = 0
          /\ ~in.post_only
          /\ CounterOrders(in.side, in.market) # {}
     ELSE in.price # 0
  /\ Affordable(u, in)

\* Mutant: the client's limit is taken as it is, whatever the balance.
QuoteLimit_NotCapped(u, in) ==
  IF in.quote_limit = 0
  THEN balance["AVAILABLE"][u][Conf[in.market].quote]
  ELSE Truncate(in.quote_limit, Scale)

(***************************************************************************)
(* What a market bid may spend; not used for other orders.  Zero stands    *)
(* for no limit of the client's, but a limit that rounds to zero stays.    *)
(***************************************************************************)
QuoteLimit(u, in) ==
  LET available == balance["AVAILABLE"][u][Conf[in.market].quote]
      limit == Truncate(in.quote_limit, Scale)
  IN  IF in.type = "MARKET" /\ in.side = "BID"
      THEN IF in.quote_limit = 0 \/ available <= limit THEN available ELSE limit
      ELSE 0

OrderPut(u, in) ==
  /\ Idle
  /\ order_id < MaxOrders
  /\ Acceptable(u, in)
  /\ order_id' = order_id + 1
  /\ taker' = NewOrder(order_id + 1, u, in)
  /\ quote_limit' = QuoteLimit(u, in)
  /\ quote_sum' = 0
  /\ visited' = {}
  /\ event' = [i \in 1..order_id + 1 |->
                 IF i = order_id + 1 THEN "PUT" ELSE event[i]]
  /\ faults' = faults \cup Faults(in)
  /\ UNCHANGED <<balance, bookVars, cancelling, inflow, panicked>>

(***************************************************************************)
(* Market::execute_order, the matching loop.  The loop walks the counter   *)
(* orders in book order; AtMaker(i) says that i is the one it looks at.    *)
(***************************************************************************)
Unvisited == CounterOrders(taker.side, taker.market) \ visited

AtMaker(i) ==
  /\ taker.remain # 0
  /\ i \in Unvisited
  /\ \A j \in Unvisited \ {i} : KeyBefore(orders[i], orders[j])

\* Mutant: equal prices do not match.
Crosses_Strict(i) ==
  taker.type = "LIMIT" =>
    IF is_ask(taker) THEN taker.price < orders[i].price
                     ELSE orders[i].price < taker.price

\* Mutant: the limit price is not looked at.
Crosses_AnyPrice(i) == i \in DOMAIN orders

Crosses(i) ==
  taker.type = "LIMIT" =>
    IF is_ask(taker) THEN taker.price <= orders[i].price
                     ELSE orders[i].price <= taker.price

\* Mutant: self trades are not stopped.
MustCancel_PostOnly(i) == taker.post_only /\ i \in DOMAIN orders

MustCancel(i) ==
  \/ taker.post_only
  \/ taker.user = orders[i].user /\ DisableSelfTrade

(***************************************************************************)
(* What the two orders could trade, unless the price of it takes a market  *)
(* bid over its limit: then what the rest of the limit buys, which may be  *)
(* nothing.                                                                *)
(***************************************************************************)
Offered(i) ==
  IF taker.remain <= orders[i].remain THEN taker.remain ELSE orders[i].remain

Limited(i) ==
  /\ taker.side = "BID" /\ taker.type = "MARKET"
  /\ quote_sum + orders[i].price * Offered(i) > quote_limit

TradedBase(i) ==
  IF Limited(i) THEN Truncate(quote_limit - quote_sum, orders[i].price) ELSE Offered(i)

Exhausted(i) == Limited(i) /\ TradedBase(i) = 0

(***************************************************************************)
(* The trade with maker i: its quote amount and the fee on each side.      *)
(***************************************************************************)
AskOrder(i) == IF is_ask(taker) THEN taker ELSE orders[i]
BidOrder(i) == IF is_ask(taker) THEN orders[i] ELSE taker

TradedQuote(i) == orders[i].price * TradedBase(i)

AskFee(i) ==
  Fee(TradedQuote(i), IF is_ask(taker) THEN taker.taker_fee ELSE orders[i].maker_fee)

BidFee(i) ==
  Fee(TradedBase(i), IF is_ask(taker) THEN orders[i].maker_fee ELSE taker.taker_fee)

(***************************************************************************)
(* Its four balance updates, in the order the code makes them.  The maker  *)
(* pays from what it has frozen, the taker from what it has available.     *)
(***************************************************************************)
BidGets(i) ==
  [type |-> "AVAILABLE", user |-> BidOrder(i).user, asset |-> Base(taker),
   change |-> TradedBase(i) - Charged(BidFee(i))]

AskPays(i) ==
  [type |-> IF is_ask(taker) THEN "AVAILABLE" ELSE "FREEZE",
   user |-> AskOrder(i).user, asset |-> Base(taker), change |-> -TradedBase(i)]

AskGets(i) ==
  [type |-> "AVAILABLE", user |-> AskOrder(i).user, asset |-> Quote(taker),
   change |-> TradedQuote(i) - Charged(AskFee(i))]

BidPays(i) ==
  [type |-> IF is_ask(taker) THEN "FREEZE" ELSE "AVAILABLE",
   user |-> BidOrder(i).user, asset |-> Quote(taker), change |-> -TradedQuote(i)]

AfterBase(i) == Applied(Applied(balance, BidGets(i)), AskPays(i))
AfterTrade(i) == Applied(Applied(AfterBase(i), AskGets(i)), BidPays(i))

(***************************************************************************)
(* One of the four updates is refused.  All carry the new trade id, so     *)
(* only they can collide in the duplicate cache; updates of different      *)
(* assets do not.                                                          *)
(***************************************************************************)
Refused(i) ==
  \/ CacheKey(BidGets(i)) = CacheKey(AskPays(i))
  \/ CacheKey(AskGets(i)) = CacheKey(BidPays(i))
  \/ ~Covered(balance, BidGets(i))
  \/ ~Covered(Applied(balance, BidGets(i)), AskPays(i))
  \/ ~Covered(AfterBase(i), AskGets(i))
  \/ ~Covered(Applied(AfterBase(i), AskGets(i)), BidPays(i))

\* The two orders after the trade; the maker has less left to freeze.
FilledTaker(i) ==
  Fill(taker, TradedBase(i), TradedQuote(i),
       IF is_ask(taker) THEN AskFee(i) ELSE BidFee(i))

FilledMaker(i) ==
  [Fill(orders[i], TradedBase(i), TradedQuote(i),
        IF is_ask(taker) THEN BidFee(i) ELSE AskFee(i))
     EXCEPT !.frozen = @ - IF is_ask(taker) THEN TradedQuote(i) ELSE TradedBase(i)]

(***************************************************************************)
(* One iteration of the loop that trades.  Every balance update is         *)
(* unwrap()ped, so a refused one ends the engine.                          *)
(***************************************************************************)
Tradable(i) ==
  /\ Executing
  /\ AtMaker(i)
  /\ Crosses(i)
  /\ ~MustCancel(i)
  /\ ~Exhausted(i)

Trade(i) ==
  /\ Tradable(i)
  /\ ~Refused(i)
  /\ balance' = AfterTrade(i)
  /\ quote_sum' = quote_sum + TradedQuote(i)
  /\ taker' = FilledTaker(i)
  /\ orders' = [orders EXCEPT ![i] = FilledMaker(i)]
  /\ visited' = visited \cup {i}
  /\ event' = IF orders[i].remain = TradedBase(i) THEN event
              ELSE [event EXCEPT ![i] = "UPDATE"]
  /\ inflow' = [inflow EXCEPT ![Base(taker)] = @ - Charged(BidFee(i)),
                              ![Quote(taker)] = @ - Charged(AskFee(i))]
  /\ UNCHANGED <<asks, bids, users, order_id, quote_limit, cancelling, faults, panicked>>

Panic(i) ==
  /\ Tradable(i)
  /\ Refused(i)
  /\ panicked' = TRUE
  /\ UNCHANGED <<balance, bookVars, order_id, execVars, cancelling, event, inflow, faults>>

\* Mutant: a bid gives back its remaining amount, not amount times price.
Unfrozen_Amount(bal, o) ==
  IF o.remain = 0 THEN bal
  ELSE unfrozen(bal, o.user, FrozenAsset(o), o.remain)

(***************************************************************************)
(* Market::order_finish on a set of orders: out of the book, out of the    *)
(* indexes, a FINISH event.  unfrozen_balance gives back what an order     *)
(* that is not filled still has frozen.                                    *)
(***************************************************************************)
Without(S) == [i \in DOMAIN orders \ S |-> orders[i]]

Unfrozen(bal, o) ==
  IF o.remain = 0 THEN bal
  ELSE unfrozen(bal, o.user, FrozenAsset(o), o.frozen)

Finished == {i \in visited : orders[i].remain = 0}

\* Mutant: the taker is dropped without its FINISH message.
FinishTaker_Silent ==
  /\ orders' = Without(Finished)
  /\ asks' = asks \ Finished
  /\ bids' = bids \ Finished
  /\ users' = [u \in Users |-> users[u] \ Finished]
  /\ event' = [i \in 1..order_id |-> IF i \in Finished THEN "FINISH" ELSE event[i]]
  /\ taker' = NoTaker /\ quote_limit' = 0 /\ quote_sum' = 0 /\ visited' = {}
  /\ UNCHANGED <<balance, order_id, cancelling, inflow, faults, panicked>>

(***************************************************************************)
(* The end of execute_order, once the loop is left: the filled makers are  *)
(* finished (they have nothing left to unfreeze), and so is the taker      *)
(* unless it is a limit order with something left, which rests.            *)
(***************************************************************************)
ExecuteDone ==
  /\ taker' = NoTaker /\ quote_limit' = 0 /\ quote_sum' = 0 /\ visited' = {}
  /\ UNCHANGED <<order_id, cancelling, inflow, faults, panicked>>

FinishTaker ==
  /\ orders' = Without(Finished)
  /\ asks' = asks \ Finished
  /\ bids' = bids \ Finished
  /\ users' = [u \in Users |-> users[u] \ Finished]
  /\ event' = [i \in 1..order_id |->
                 IF i \in Finished \cup {taker.id} THEN "FINISH" ELSE event[i]]
  /\ UNCHANGED balance
  /\ ExecuteDone

RestTaker ==
  LET o == Resting(taker)
      left == Without(Finished)
  IN  /\ orders' = [i \in DOMAIN left \cup {o.id} |->
                      IF i = o.id THEN o ELSE left[i]]
      /\ asks' = (asks \ Finished) \cup (IF is_ask(o) THEN {o.id} ELSE {})
      /\ bids' = (bids \ Finished) \cup (IF is_ask(o) THEN {} ELSE {o.id})
      /\ users' = [u \in Users |->
                     (users[u] \ Finished) \cup (IF u = o.user THEN {o.id} ELSE {})]
      /\ event' = [i \in 1..order_id |->
                     IF i \in Finished THEN "FINISH" ELSE event[i]]
      /\ balance' = frozen(balance, o.user, FrozenAsset(o), o.frozen)
      /\ ExecuteDone

\* The loop is left with need_cancel: a post-only order that would trade, or
\* a counter order of the same user.
CancelTaker ==
  /\ Executing
  /\ \E i \in Unvisited : AtMaker(i) /\ Crosses(i) /\ MustCancel(i)
  /\ FinishTaker

\* The loop is left because nothing more can be traded.
NothingToTrade ==
  \/ taker.remain = 0
  \/ Unvisited = {}
  \/ \E i \in Unvisited :
       AtMaker(i) /\ (~Crosses(i) \/ (~MustCancel(i) /\ Exhausted(i)))

EndTaker ==
  /\ Executing
  /\ NothingToTrade
  /\ IF taker.type = "MARKET" \/ taker.remain = 0 THEN FinishTaker ELSE RestTaker

\* Mutant: the order is dropped from the maps but stays in its side of the book.
OrderFinish_KeepsKey(i) ==
  /\ orders' = Without({i})
  /\ users' = [users EXCEPT ![orders[i].user] = @ \ {i}]
  /\ balance' = Unfrozen(balance, orders[i])
  /\ event' = [event EXCEPT ![i] = "FINISH"]
  /\ UNCHANGED <<asks, bids, order_id, execVars, inflow, faults, panicked>>

\* Mutant: the order is reported finished and unfrozen, and stays open.
OrderFinish_StaysOpen(i) ==
  /\ balance' = Unfrozen(balance, orders[i])
  /\ event' = [event EXCEPT ![i] = "FINISH"]
  /\ UNCHANGED <<bookVars, order_id, execVars, inflow, faults, panicked>>

\* Mutant: the order is not taken out of its user's map.
OrderFinish_KeepsUser(i) ==
  /\ orders' = Without({i})
  /\ asks' = asks \ {i}
  /\ bids' = bids \ {i}
  /\ balance' = Unfrozen(balance, orders[i])
  /\ event' = [event EXCEPT ![i] = "FINISH"]
  /\ UNCHANGED <<users, order_id, execVars, inflow, faults, panicked>>

(***************************************************************************)
(* Controller::order_cancel and order_cancel_all.                          *)
(***************************************************************************)
OrderFinish(i) ==
  /\ orders' = Without({i})
  /\ asks' = asks \ {i}
  /\ bids' = bids \ {i}
  /\ users' = [users EXCEPT ![orders[i].user] = @ \ {i}]
  /\ balance' = Unfrozen(balance, orders[i])
  /\ event' = [event EXCEPT ![i] = "FINISH"]
  /\ UNCHANGED <<order_id, execVars, inflow, faults, panicked>>

OrderCancel(u, i) ==
  /\ Idle
  /\ i \in DOMAIN orders
  /\ orders[i].user = u
  /\ OrderFinish(i)
  /\ UNCHANGED cancelling

\* The ids are collected first, then finished one by one.
OrderCancelAll(u, m) ==
  /\ Idle
  /\ cancelling' = {i \in users[u] : orders[i].market = m}
  /\ UNCHANGED <<balance, bookVars, order_id, execVars, event, inflow, faults, panicked>>

CancelNext(i) ==
  /\ i \in cancelling
  /\ \A j \in cancelling : i <= j
  /\ OrderFinish(i)
  /\ cancelling' = cancelling \ {i}

(***************************************************************************)
(* Controller::update_balance: a deposit or a withdrawal.  A request that  *)
(* repeats a recent business id is refused and changes nothing.            *)
(***************************************************************************)
UpdateBalance(u, a, delta) ==
  LET c == [type |-> "AVAILABLE", user |-> u, asset |-> a, change |-> delta]
  IN  /\ Idle
      /\ Covered(balance, c)
      /\ delta > 0 => total(balance, u, a) + delta <= MaxBalance
      /\ balance' = Applied(balance, c)
      /\ inflow' = [inflow EXCEPT ![a] = @ + delta]
      /\ UNCHANGED <<bookVars, order_id, execVars, cancelling, event, faults, panicked>>

Next ==
  \/ \E u \in Users, in \in OrderInputs : OrderPut(u, in)
  \/ \E i \in DOMAIN orders : Trade(i)
  \/ \E i \in DOMAIN orders : Panic(i)
  \/ CancelTaker
  \/ EndTaker
  \/ \E u \in Users, i \in DOMAIN orders : OrderCancel(u, i)
  \/ \E u \in Users, m \in Markets : OrderCancelAll(u, m)
  \/ \E i \in cancelling : CancelNext(i)
  \/ \E u \in Users, a \in Assets, delta \in Deltas : UpdateBalance(u, a, delta)

Spec == Init /\ [][Next]_vars

(***************************************************************************)
(* Type correctness.                                                       *)
(***************************************************************************)
TypeOK ==
  /\ balance \in BalanceTable
  /\ order_id \in Nat
  /\ DOMAIN orders \subseteq 1..order_id
  /\ \A i \in DOMAIN orders : orders[i] \in Order
  /\ asks \subseteq DOMAIN orders
  /\ bids \subseteq DOMAIN orders
  /\ users \in [Users -> SUBSET DOMAIN orders]
  /\ taker \in Order \cup {NoTaker}
  /\ quote_limit \in Int
  /\ quote_sum \in Int
  /\ visited \subseteq DOMAIN orders
  /\ cancelling \subseteq DOMAIN orders
  /\ event \in [1..order_id -> EventType]
  /\ inflow \in [Assets -> Int]
  /\ faults \subseteq FaultKind
  /\ panicked \in BOOLEAN

(***************************************************************************)
(* The four maps of a market agree: an open order is in the side its side  *)
(* field names, in its own user's map, and nowhere else.  The makers of an *)
(* execution and the orders a cancel-all has collected are still open.     *)
(***************************************************************************)
BookIndexes ==
  /\ asks = {i \in DOMAIN orders : is_ask(orders[i])}
  /\ bids = {i \in DOMAIN orders : ~is_ask(orders[i])}
  /\ \A u \in Users : users[u] = {i \in DOMAIN orders : orders[i].user = u}
  /\ \A i \in DOMAIN orders : orders[i].id = i
  /\ taker # NoTaker => taker.id = order_id /\ taker.id \notin DOMAIN orders

(***************************************************************************)
(* What an order has left and what it has traded add up to its amount; a   *)
(* resting order is a limit order that ties up exactly what it has left,   *)
(* and it is not filled unless the running execution just filled it.  That *)
(* holds whatever clients ask for.  The amounts have the sign they should  *)
(* as long as no negative price was accepted, and what is traded as long   *)
(* as no negative quote limit was either.                                  *)
(***************************************************************************)
Signed(o) ==
  /\ "PRICE" \notin faults => o.remain >= 0
  /\ faults \cap {"PRICE", "LIMIT"} = {} => o.finished_base >= 0

AddsUp(o) == o.remain + o.finished_base = o.amount /\ Signed(o)

OrderArithmetic ==
  /\ taker # NoTaker => AddsUp(taker)
  /\ \A i \in DOMAIN orders :
       /\ AddsUp(orders[i])
       /\ orders[i].type = "LIMIT"
       /\ orders[i].price # 0
       /\ "PRICE" \notin faults => orders[i].price > 0
       /\ orders[i].frozen = IF is_ask(orders[i]) THEN orders[i].remain
                             ELSE orders[i].remain * orders[i].price
       /\ orders[i].remain = 0 => i \in visited

(***************************************************************************)
(* The order book of a market is never crossed: every ask is dearer than   *)
(* every bid, also while an order is being executed.                       *)
(***************************************************************************)
NotCrossed ==
  \A a \in asks, b \in bids :
    orders[a].market = orders[b].market => orders[a].price > orders[b].price

(***************************************************************************)
(* What a user has frozen in an asset is, to the last unit, what the       *)
(* user's open orders tie up in it, over all markets.                      *)
(***************************************************************************)
FrozenOf(i, u, a) ==
  IF i \in DOMAIN orders /\ orders[i].user = u /\ FrozenAsset(orders[i]) = a
  THEN orders[i].frozen ELSE 0

FrozenSum(u, a) ==
  LET s[n \in 0..order_id] == IF n = 0 THEN 0 ELSE s[n - 1] + FrozenOf(n, u, a)
  IN  s[order_id]

FrozenMatchesOrders ==
  \A u \in Users, a \in Assets : balance["FREEZE"][u][a] = FrozenSum(u, a)

(***************************************************************************)
(* No balance is negative, available or frozen, unless the engine has      *)
(* accepted a negative price.  Negative quote limits and fees of any size  *)
(* are caught: the update they would overdraw is refused.                  *)
(***************************************************************************)
NoDebt == \A t \in BalanceType, u \in Users, a \in Assets : balance[t][u][a] >= 0

NonNegative == "PRICE" \notin faults => NoDebt

(***************************************************************************)
(* While an order is executed, its owner can pay for everything it may     *)
(* still trade, and a market bid has not overspent its limit, unless a     *)
(* negative price was accepted or the limit itself is negative.            *)
(***************************************************************************)
TakerAvailable(a) == balance["AVAILABLE"][taker.user][a]

TakerFunds ==
  taker # NoTaker /\ "PRICE" \notin faults =>
    /\ is_ask(taker) => TakerAvailable(Base(taker)) >= taker.remain
    /\ ~is_ask(taker) /\ taker.type = "LIMIT" =>
         TakerAvailable(Quote(taker)) >= taker.remain * taker.price
    /\ ~is_ask(taker) /\ taker.type = "MARKET" /\ quote_limit >= 0 =>
         /\ quote_sum <= quote_limit
         /\ TakerAvailable(Quote(taker)) >= quote_limit - quote_sum

(***************************************************************************)
(* The engine dies of a refused balance update only when it accepted a     *)
(* negative price, when the market bid it executes has a negative limit,   *)
(* or when the trade at hand is between a user's own two orders or at a    *)
(* fee rate above one.  Nothing that other users or earlier sound requests *)
(* do makes an update of a sound order fail.                               *)
(***************************************************************************)
Deadly(i) ==
  \/ ~DisableSelfTrade /\ orders[i].user = taker.user
  \/ taker.taker_fee > Scale \/ orders[i].maker_fee > Scale

DeathHasACause ==
  panicked =>
    /\ taker # NoTaker
    /\ \/ "PRICE" \in faults
       \/ quote_limit < 0
       \/ \E i \in Unvisited : AtMaker(i) /\ Deadly(i)

(***************************************************************************)
(* No balance update of the matching loop is refused: every one of them is *)
(* unwrap()ped.  The code makes no exception for settings or requests.     *)
(***************************************************************************)
NoPanic == ~panicked

(***************************************************************************)
(* No order trades at a price worse than its limit, unless the engine has  *)
(* accepted a negative price.                                              *)
(***************************************************************************)
PriceKept(o) ==
  o.type = "LIMIT" => IF is_ask(o) THEN o.finished_quote >= o.finished_base * o.price
                                   ELSE o.finished_quote <= o.finished_base * o.price

LimitRespected ==
  "PRICE" \notin faults =>
    /\ \A i \in DOMAIN orders : PriceKept(orders[i])
    /\ taker # NoTaker => PriceKept(taker)

(***************************************************************************)
(* The messages tell the story of the book: in an idle engine an order is  *)
(* open exactly when FINISH is not the last event sent for it.             *)
(***************************************************************************)
OpenUnlessFinished ==
  Idle => \A i \in 1..order_id : i \in DOMAIN orders <=> event[i] # "FINISH"

(***************************************************************************)
(* A user never has more open orders than the configured limit, counted    *)
(* over all markets (the debug_assert at the head of put_order).           *)
(***************************************************************************)
OrderNumLimit == \A u \in Users : Cardinality(users[u]) <= UserOrderNumLimit

(***************************************************************************)
(* Price-time priority: a resting order is never filled while another one  *)
(* of the same side and market, with a better price or the same price and  *)
(* an earlier id, still has something left (unless a negative price was    *)
(* accepted).                                                              *)
(***************************************************************************)
Better(o, p) ==
  \/ o.price = p.price /\ o.id < p.id
  \/ IF is_ask(o) THEN o.price < p.price ELSE o.price > p.price

PriceTimePriority ==
  [][\A i, j \in DOMAIN orders :
       /\ "PRICE" \notin faults
       /\ orders[i].market = orders[j].market
       /\ orders[i].side = orders[j].side
       /\ Better(orders[i], orders[j])
       /\ j \in DOMAIN orders' /\ orders'[j].remain < orders[j].remain
       => orders[i].remain = 0]_vars

(***************************************************************************)
(* The events of an order come in order: PUT once, then UPDATEs, then      *)
(* FINISH and nothing more; and the order id is never used again.          *)
(***************************************************************************)
EventsInOrder ==
  [][\A i \in 1..order_id :
       event'[i] # event[i] =>
         <<event[i], event'[i]>> \in {<<"PUT", "UPDATE">>, <<"PUT", "FINISH">>,
                                      <<"UPDATE", "FINISH">>}]_vars

=============================================================================
