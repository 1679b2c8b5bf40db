----------------------------- MODULE BookProofs -----------------------------
(***************************************************************************)
(* Proofs about module Market, for any number of users, assets, markets    *)
(* and orders: types and indexes, then the order book is right: orders add *)
(* up, a book is never crossed, no order trades beyond its limit, and none *)
(* before a better one.                                                    *)
(***************************************************************************)
EXTENDS Market, TLAPS

(***************************************************************************)
(* Facts about the operators of Orders and Balances.                       *)
(***************************************************************************)
LEMMA TruncateType ==
  ASSUME NEW n \in Int, NEW d \in Int, d # 0
  PROVE  Truncate(n, d) \in Int
BY DEF Truncate, Abs

LEMMA FeeType ==
  ASSUME NEW n \in Int, NEW r \in Int
  PROVE  Fee(n, r) \in Int /\ Charged(Fee(n, r)) \in Int
<1>1. n * r \in Int /\ Scale \in Int /\ Scale # 0
  BY MarketAssumption
<1>2. Truncate(n * r, Scale) \in Int
  BY <1>1, TruncateType
<1> QED BY <1>2 DEF Fee, Charged

LEMMA FillType ==
  ASSUME NEW o \in Order, NEW b \in Int, NEW q \in Int, NEW f \in Int
  PROVE  /\ Fill(o, b, q, f) \in Order
         /\ Fill(o, b, q, f).id = o.id
         /\ Fill(o, b, q, f).market = o.market
         /\ Fill(o, b, q, f).side = o.side
         /\ Fill(o, b, q, f).type = o.type
         /\ Fill(o, b, q, f).user = o.user
         /\ Fill(o, b, q, f).price = o.price
         /\ Fill(o, b, q, f).amount = o.amount
         /\ Fill(o, b, q, f).remain = o.remain - b
         /\ Fill(o, b, q, f).frozen = o.frozen
         /\ Fill(o, b, q, f).finished_base = o.finished_base + b
         /\ Fill(o, b, q, f).finished_quote = o.finished_quote + q
<1> DEFINE r == Fill(o, b, q, f)
<1>1. /\ o.remain \in Int /\ o.finished_base \in Int
      /\ o.finished_quote \in Int /\ o.finished_fee \in Int
  BY DEF Order
<1>2. /\ o.remain - b \in Int /\ o.finished_base + b \in Int
      /\ o.finished_quote + q \in Int /\ o.finished_fee + f \in Int
  BY <1>1
<1>3. /\ r.remain = o.remain - b /\ r.finished_base = o.finished_base + b
      /\ r.finished_quote = o.finished_quote + q
      /\ r.finished_fee = o.finished_fee + f
  BY DEF Fill, Order
<1>4. /\ r.id = o.id /\ r.market = o.market /\ r.side = o.side /\ r.type = o.type
      /\ r.user = o.user /\ r.price = o.price /\ r.amount = o.amount
      /\ r.frozen = o.frozen
  BY DEF Fill, Order
<1>5. r \in Order
  BY <1>2 DEF Fill, Order
<1> QED BY <1>3, <1>4, <1>5

LEMMA RestingType ==
  ASSUME NEW o \in Order
  PROVE  /\ Resting(o) \in Order
         /\ Resting(o).id = o.id
         /\ Resting(o).market = o.market
         /\ Resting(o).side = o.side
         /\ Resting(o).type = o.type
         /\ Resting(o).user = o.user
         /\ Resting(o).price = o.price
         /\ Resting(o).amount = o.amount
         /\ Resting(o).remain = o.remain
         /\ Resting(o).finished_base = o.finished_base
         /\ Resting(o).finished_quote = o.finished_quote
         /\ Resting(o).frozen = IF is_ask(o) THEN o.remain ELSE o.remain * o.price
<1>1. o.remain \in Int /\ o.price \in Int
  BY DEF Order
<1>2. o.remain * o.price \in Int
  BY <1>1
<1> QED BY <1>1, <1>2 DEF Resting, Order

LEMMA NewOrderType ==
  ASSUME NEW n \in Nat, NEW u \in Users, NEW in \in OrderInput, in.amount \in Nat
  PROVE  NewOrder(n, u, in) \in Order
BY DEF NewOrder, Order, OrderInput

LEMMA AssetTypes ==
  ASSUME NEW o \in Order
  PROVE  /\ Base(o) \in Assets /\ Quote(o) \in Assets /\ Base(o) # Quote(o)
         /\ FrozenAsset(o) \in Assets
BY MarketAssumption DEF Order, Base, Quote, FrozenAsset, MarketConf

LEMMA AddType ==
  ASSUME NEW bal \in BalanceTable, NEW t \in BalanceType, NEW u \in Users,
         NEW a \in Assets, NEW n \in Int
  PROVE  add(bal, t, u, a, n) \in BalanceTable /\ sub(bal, t, u, a, n) \in BalanceTable
BY DEF add, sub, BalanceTable

LEMMA FreezeType ==
  ASSUME NEW bal \in BalanceTable, NEW u \in Users, NEW a \in Assets, NEW n \in Int
  PROVE  frozen(bal, u, a, n) \in BalanceTable /\ unfrozen(bal, u, a, n) \in BalanceTable
BY AddType DEF frozen, unfrozen, BalanceType

LEMMA AppliedType ==
  ASSUME NEW bal \in BalanceTable, NEW c \in Change
  PROVE  Applied(bal, c) \in BalanceTable
BY AddType DEF Applied, Change

(***************************************************************************)
(* The shape of the state.  TypeOK is not inductive alone: that an index   *)
(* holds only open orders after one is removed needs BookIndexes, that the *)
(* loops' own sets do needs Phases, and that a quote limit divided by a    *)
(* maker's price is a number needs Priced.                                 *)
(***************************************************************************)
Phases ==
  /\ taker # NoTaker => cancelling = {} /\ order_id > 0
  /\ taker = NoTaker => visited = {}

PriceSigned(o) == o.price # 0 /\ ("PRICE" \notin faults => o.price > 0)

Priced ==
  /\ \A i \in DOMAIN orders : orders[i].type = "LIMIT" /\ PriceSigned(orders[i])
  /\ taker # NoTaker /\ taker.type = "LIMIT" => PriceSigned(taker)

Shape == TypeOK /\ BookIndexes /\ Phases /\ Priced

LEMMA InitShape == Init => Shape
<1> SUFFICES ASSUME Init PROVE Shape
  OBVIOUS
<1> USE DEF Init
<1>1. TypeOK
  <2>1. balance \in BalanceTable
    BY EngineAssumption DEF BalanceTable, BalanceType
  <2>2. event \in [1..order_id -> EventType]
    <3>1. 1..order_id = {}
      OBVIOUS
    <3> QED BY <3>1
  <2>3. users \in [Users -> SUBSET DOMAIN orders] /\ inflow \in [Assets -> Int]
    OBVIOUS
  <2>4. /\ DOMAIN orders = {} /\ asks = {} /\ bids = {} /\ visited = {}
        /\ cancelling = {} /\ taker = NoTaker /\ panicked = FALSE
        /\ faults \subseteq FaultKind
        /\ order_id \in Nat /\ quote_limit \in Int /\ quote_sum \in Int
    OBVIOUS
  <2> HIDE DEF Init
  <2> QED BY <2>1, <2>2, <2>3, <2>4 DEF TypeOK
<1>2. BookIndexes /\ Phases /\ Priced
  BY DEF BookIndexes, Phases, Priced
<1> QED BY <1>1, <1>2 DEF Shape

\* A refused price is zero: what is accepted is recorded when it is negative.
LEMMA AcceptedPrice ==
  ASSUME NEW u \in Users, NEW in \in OrderInputs, OrderPut(u, in)
  PROVE  /\ in \in OrderInput /\ in.amount \in Nat
         /\ in.type = "LIMIT" => in.price # 0
         /\ faults \subseteq faults'
         /\ "PRICE" \notin faults' => in.price >= 0
         /\ "LIMIT" \notin faults' /\ in.side = "BID" /\ in.type = "MARKET"
              => in.quote_limit >= 0
<1>1. in \in OrderInput
  BY EngineAssumption
<1>2. in.amount \in Nat
  <2>1. in.amount >= Conf[in.market].min_amount
    BY DEF OrderPut, Acceptable
  <2>2. Conf[in.market].min_amount \in Nat /\ in.amount \in Int
    BY <1>1, MarketAssumption DEF OrderInput, MarketConf
  <2> QED BY <2>1, <2>2
<1>3. in.type = "LIMIT" => in.price # 0
  BY DEF OrderPut, Acceptable
<1>4. faults' = faults \cup Faults(in)
  BY DEF OrderPut
<1>5. /\ in.price < 0 => "PRICE" \in Faults(in)
      /\ in.side = "BID" /\ in.type = "MARKET" /\ in.quote_limit < 0 => "LIMIT" \in Faults(in)
  BY DEF Faults, FaultKind
<1>6. in.price \in Int /\ in.quote_limit \in Int
  BY <1>1 DEF OrderInput
<1> QED BY <1>1, <1>2, <1>3, <1>4, <1>5, <1>6

LEMMA OrderPutShape ==
  ASSUME Shape, NEW u \in Users, NEW in \in OrderInputs, OrderPut(u, in)
  PROVE  Shape'
<1> USE DEF Shape
<1>1. in \in OrderInput /\ in.amount \in Nat
  BY AcceptedPrice
<1>2. order_id \in Nat /\ order_id' = order_id + 1
  BY DEF TypeOK, OrderPut
<1>3. taker' \in Order /\ taker'.id = order_id + 1 /\ taker'.type = in.type
      /\ taker'.price = in.price
  BY <1>1, <1>2, NewOrderType DEF OrderPut, NewOrder
<1>4. quote_limit' \in Int
  <2>1. balance["AVAILABLE"][u][Conf[in.market].quote] \in Int
    BY <1>1, MarketAssumption DEF TypeOK, BalanceTable, BalanceType, OrderInput, MarketConf
  <2>2. Truncate(in.quote_limit, Scale) \in Int
    BY <1>1, MarketAssumption, TruncateType DEF OrderInput
  <2> QED BY <2>1, <2>2 DEF OrderPut, QuoteLimit
<1>5. event' \in [1..order_id' -> EventType]
  BY <1>2 DEF TypeOK, OrderPut, EventType
<1>6. TypeOK'
  <2>1. faults' \subseteq FaultKind
    BY DEF TypeOK, OrderPut, Faults
  <2> QED BY <1>2, <1>3, <1>4, <1>5, <2>1 DEF TypeOK, OrderPut, bookVars
<1>7. BookIndexes'
  BY <1>2, <1>3 DEF TypeOK, BookIndexes, OrderPut, bookVars
<1>8. Phases'
  BY <1>2, <1>3, EngineAssumption DEF Phases, OrderPut, Idle
<1>9. Priced'
  <2>1. /\ in.type = "LIMIT" => in.price # 0
        /\ "PRICE" \notin faults' => in.price >= 0 /\ "PRICE" \notin faults
        /\ in.price \in Int
    BY <1>1, AcceptedPrice DEF OrderInput
  <2>2. orders' = orders
    BY DEF OrderPut, bookVars
  <2> QED BY <1>3, <2>1, <2>2 DEF Priced, PriceSigned
<1> QED BY <1>6, <1>7, <1>8, <1>9

(***************************************************************************)
(* The numbers of a trade are integers.                                    *)
(***************************************************************************)
LEMMA TradeNumbers ==
  ASSUME Shape, NEW i \in DOMAIN orders, taker # NoTaker
  PROVE  /\ taker \in Order /\ orders[i] \in Order
         /\ TradedBase(i) \in Int /\ TradedQuote(i) \in Int
         /\ AskFee(i) \in Int /\ BidFee(i) \in Int
         /\ Charged(AskFee(i)) \in Int /\ Charged(BidFee(i)) \in Int
<1> USE DEF Shape
<1>1. taker \in Order /\ orders[i] \in Order
  BY DEF TypeOK
<1>2. /\ taker.remain \in Int /\ orders[i].remain \in Int
      /\ orders[i].price \in Int /\ orders[i].price # 0
      /\ quote_limit \in Int /\ quote_sum \in Int
      /\ taker.taker_fee \in Int /\ orders[i].maker_fee \in Int
  BY <1>1 DEF TypeOK, Order, Priced, PriceSigned
<1>3. Truncate(quote_limit - quote_sum, orders[i].price) \in Int
  BY <1>2, TruncateType
<1>4. TradedBase(i) \in Int
  BY <1>2, <1>3 DEF TradedBase, Offered
<1>5. TradedQuote(i) \in Int
  BY <1>2, <1>4 DEF TradedQuote
<1>6. /\ AskFee(i) \in Int /\ BidFee(i) \in Int
      /\ Charged(AskFee(i)) \in Int /\ Charged(BidFee(i)) \in Int
  <2>1. \A r \in Int : /\ Fee(TradedBase(i), r) \in Int /\ Charged(Fee(TradedBase(i), r)) \in Int
                      /\ Fee(TradedQuote(i), r) \in Int /\ Charged(Fee(TradedQuote(i), r)) \in Int
    BY <1>4, <1>5, FeeType
  <2> QED BY <1>2, <2>1 DEF AskFee, BidFee
<1> QED BY <1>1, <1>4, <1>5, <1>6

(***************************************************************************)
(* A trade keeps everything about the two orders but their progress.       *)
(***************************************************************************)
LEMMA FilledOrders ==
  ASSUME Shape, NEW i \in DOMAIN orders, taker # NoTaker
  PROVE  /\ FilledTaker(i) \in Order
         /\ FilledTaker(i).id = taker.id
         /\ FilledTaker(i).market = taker.market
         /\ FilledTaker(i).side = taker.side
         /\ FilledTaker(i).type = taker.type
         /\ FilledTaker(i).user = taker.user
         /\ FilledTaker(i).price = taker.price
         /\ FilledTaker(i).amount = taker.amount
         /\ FilledTaker(i).remain = taker.remain - TradedBase(i)
         /\ FilledTaker(i).finished_base = taker.finished_base + TradedBase(i)
         /\ FilledTaker(i).finished_quote = taker.finished_quote + TradedQuote(i)
         /\ FilledMaker(i) \in Order
         /\ FilledMaker(i).id = orders[i].id
         /\ FilledMaker(i).market = orders[i].market
         /\ FilledMaker(i).side = orders[i].side
         /\ FilledMaker(i).type = orders[i].type
         /\ FilledMaker(i).user = orders[i].user
         /\ FilledMaker(i).price = orders[i].price
         /\ FilledMaker(i).amount = orders[i].amount
         /\ FilledMaker(i).remain = orders[i].remain - TradedBase(i)
         /\ FilledMaker(i).finished_base = orders[i].finished_base + TradedBase(i)
         /\ FilledMaker(i).finished_quote = orders[i].finished_quote + TradedQuote(i)
         /\ FilledMaker(i).frozen =
              orders[i].frozen - IF is_ask(taker) THEN TradedQuote(i) ELSE TradedBase(i)
<1> DEFINE f == IF is_ask(taker) THEN BidFee(i) ELSE AskFee(i)
           m == Fill(orders[i], TradedBase(i), TradedQuote(i), f)
           d == IF is_ask(taker) THEN TradedQuote(i) ELSE TradedBase(i)
<1>1. /\ taker \in Order /\ orders[i] \in Order
      /\ TradedBase(i) \in Int /\ TradedQuote(i) \in Int
      /\ AskFee(i) \in Int /\ BidFee(i) \in Int
  BY TradeNumbers
<1>2. /\ m \in Order /\ m.id = orders[i].id /\ m.market = orders[i].market
      /\ m.side = orders[i].side /\ m.type = orders[i].type /\ m.user = orders[i].user
      /\ m.price = orders[i].price /\ m.amount = orders[i].amount
      /\ m.remain = orders[i].remain - TradedBase(i) /\ m.frozen = orders[i].frozen
      /\ m.finished_base = orders[i].finished_base + TradedBase(i)
      /\ m.finished_quote = orders[i].finished_quote + TradedQuote(i)
  <2>1. f \in Int
    BY <1>1, Zenon
  <2> HIDE DEF f
  <2> QED BY <1>1, <2>1, FillType
<1>3. FilledMaker(i) = [m EXCEPT !.frozen = @ - d]
  BY DEF FilledMaker
<1>4. m.frozen \in Int /\ m.frozen - d \in Int
  BY <1>1, <1>2 DEF Order
<1> HIDE DEF m, d
<1>5. /\ [m EXCEPT !.frozen = @ - d] \in Order
      /\ [m EXCEPT !.frozen = @ - d].frozen = m.frozen - d
  BY <1>2, <1>4 DEF Order
<1>6. LET r == [m EXCEPT !.frozen = @ - d]
      IN  /\ r.id = m.id /\ r.market = m.market /\ r.side = m.side /\ r.type = m.type
          /\ r.user = m.user /\ r.price = m.price /\ r.amount = m.amount
          /\ r.remain = m.remain /\ r.finished_base = m.finished_base
          /\ r.finished_quote = m.finished_quote
  BY <1>2 DEF Order
<1>7. /\ FilledTaker(i) \in Order
      /\ FilledTaker(i).id = taker.id
      /\ FilledTaker(i).market = taker.market
      /\ FilledTaker(i).side = taker.side
      /\ FilledTaker(i).type = taker.type
      /\ FilledTaker(i).user = taker.user
      /\ FilledTaker(i).price = taker.price
      /\ FilledTaker(i).amount = taker.amount
      /\ FilledTaker(i).remain = taker.remain - TradedBase(i)
      /\ FilledTaker(i).finished_base = taker.finished_base + TradedBase(i)
      /\ FilledTaker(i).finished_quote = taker.finished_quote + TradedQuote(i)
  BY <1>1, FillType DEF FilledTaker
<1> QED BY <1>2, <1>3, <1>5, <1>6, <1>7 DEF d

LEMMA TradeBalances ==
  ASSUME Shape, NEW i \in DOMAIN orders, taker # NoTaker
  PROVE  /\ BidGets(i) \in Change /\ AskPays(i) \in Change
         /\ AskGets(i) \in Change /\ BidPays(i) \in Change
         /\ AfterBase(i) \in BalanceTable /\ AfterTrade(i) \in BalanceTable
<1>1. /\ taker \in Order /\ orders[i] \in Order
      /\ TradedBase(i) \in Int /\ TradedQuote(i) \in Int
      /\ Charged(AskFee(i)) \in Int /\ Charged(BidFee(i)) \in Int
  BY TradeNumbers
<1>2. taker.user \in Users /\ orders[i].user \in Users
  BY <1>1 DEF Order
<1>3. AskOrder(i).user \in Users /\ BidOrder(i).user \in Users
  BY <1>2 DEF AskOrder, BidOrder
<1>4. Base(taker) \in Assets /\ Quote(taker) \in Assets
  BY <1>1, AssetTypes
<1>5. BidGets(i) \in Change /\ AskPays(i) \in Change
  BY <1>1, <1>3, <1>4 DEF BidGets, AskPays, Change, BalanceType
<1>6. AskGets(i) \in Change /\ BidPays(i) \in Change
  BY <1>1, <1>3, <1>4 DEF AskGets, BidPays, Change, BalanceType
<1>7. AfterBase(i) \in BalanceTable
  BY <1>5, AppliedType DEF Shape, TypeOK, AfterBase
<1>8. AfterTrade(i) \in BalanceTable
  BY <1>6, <1>7, AppliedType DEF AfterTrade
<1> QED BY <1>5, <1>6, <1>7, <1>8

LEMMA TradeShape ==
  ASSUME Shape, NEW i \in DOMAIN orders, Trade(i)
  PROVE  Shape'
<1> USE DEF Shape
<1>1. taker # NoTaker
  BY DEF Trade, Tradable, Executing
<1>2. /\ taker \in Order /\ orders[i] \in Order
      /\ TradedBase(i) \in Int /\ TradedQuote(i) \in Int
      /\ Charged(AskFee(i)) \in Int /\ Charged(BidFee(i)) \in Int
  BY <1>1, TradeNumbers
<1>3. /\ taker' \in Order /\ taker'.id = taker.id /\ taker'.type = taker.type
      /\ taker'.price = taker.price
  BY <1>1, FilledOrders DEF Trade
<1>4. /\ FilledMaker(i) \in Order /\ FilledMaker(i).id = orders[i].id
      /\ FilledMaker(i).side = orders[i].side /\ FilledMaker(i).type = orders[i].type
      /\ FilledMaker(i).user = orders[i].user /\ FilledMaker(i).price = orders[i].price
  BY <1>1, FilledOrders
<1>5. orders' = [orders EXCEPT ![i] = FilledMaker(i)]
  BY DEF Trade
<1>6. DOMAIN orders' = DOMAIN orders
  BY <1>5
<1>7. \A j \in DOMAIN orders :
        /\ orders'[j] \in Order /\ orders'[j].id = orders[j].id
        /\ orders'[j].side = orders[j].side /\ orders'[j].type = orders[j].type
        /\ orders'[j].user = orders[j].user /\ orders'[j].price = orders[j].price
  BY <1>4, <1>5 DEF TypeOK
<1>8. taker' # NoTaker
  BY <1>3, EngineAssumption
<1>9. TypeOK'
  <2>1. balance' \in BalanceTable
    BY <1>1, TradeBalances DEF Trade
  <2>2. quote_sum' \in Int
    BY <1>2 DEF Trade, TypeOK
  <2>3. event' \in [1..order_id -> EventType]
    BY DEF Trade, TypeOK, EventType
  <2>4. inflow' \in [Assets -> Int]
    <3>1. PICK b, q, x, y :
            b = Base(taker) /\ q = Quote(taker) /\ x = Charged(BidFee(i)) /\ y = Charged(AskFee(i))
      OBVIOUS
    <3>2. inflow' = [inflow EXCEPT ![b] = @ - x, ![q] = @ - y]
      BY <3>1 DEF Trade
    <3>3. b \in Assets /\ q \in Assets /\ x \in Int /\ y \in Int
      BY <1>2, <3>1, AssetTypes
    <3>4. inflow \in [Assets -> Int]
      BY DEF TypeOK
    <3> QED BY <3>2, <3>3, <3>4
  <2>5. visited' \subseteq DOMAIN orders
    BY DEF Trade, TypeOK
  <2>6. UNCHANGED <<asks, bids, users, order_id, quote_limit, cancelling, faults, panicked>>
    BY DEF Trade
  <2>7. /\ order_id' \in Nat /\ asks' \subseteq DOMAIN orders /\ bids' \subseteq DOMAIN orders
        /\ users' \in [Users -> SUBSET DOMAIN orders] /\ quote_limit' \in Int
        /\ cancelling' \subseteq DOMAIN orders /\ panicked' \in BOOLEAN
        /\ faults' \subseteq FaultKind /\ faults' = faults
        /\ DOMAIN orders \subseteq 1..order_id'
    BY <2>6 DEF TypeOK
  <2>8. event' \in [1..order_id' -> EventType]
    BY <2>3, <2>6
  <2> QED BY <1>3, <1>6, <1>7, <2>1, <2>2, <2>4, <2>5, <2>7, <2>8 DEF TypeOK
<1>10. BookIndexes'
  <2>1. UNCHANGED <<asks, bids, users, order_id>>
    BY DEF Trade
  <2>2. \A j \in DOMAIN orders : is_ask(orders[j])' <=> is_ask(orders[j])
    BY <1>7 DEF is_ask
  <2> QED BY <1>1, <1>3, <1>6, <1>7, <2>1, <2>2 DEF BookIndexes
<1>11. Phases'
  BY <1>1, <1>8 DEF Phases, Trade
<1>12. Priced'
  BY <1>1, <1>3, <1>6, <1>7 DEF Priced, PriceSigned, Trade
<1> QED BY <1>9, <1>10, <1>11, <1>12

LEMMA PanicShape ==
  ASSUME Shape, NEW i \in DOMAIN orders, Panic(i)
  PROVE  Shape'
BY DEF Shape, Panic, TypeOK, BookIndexes, Phases, Priced, PriceSigned, bookVars, execVars, Unvisited

LEMMA FinishTakerShape ==
  ASSUME Shape, Executing, FinishTaker
  PROVE  Shape'
<1> USE DEF Shape
<1>1. /\ taker \in Order /\ taker # NoTaker /\ cancelling = {} /\ order_id \in Nat
      /\ taker' = NoTaker /\ visited' = {} /\ cancelling' = {} /\ order_id' = order_id
      /\ faults' = faults
  BY DEF TypeOK, Phases, Executing, FinishTaker, ExecuteDone
<1>2. DOMAIN orders' = DOMAIN orders \ Finished
  BY DEF FinishTaker, Without
<1>3. \A j \in DOMAIN orders' : j \in DOMAIN orders /\ orders'[j] = orders[j]
  BY DEF FinishTaker, Without
<1>4. TypeOK'
  <2>1. event' \in [1..order_id -> EventType]
    BY DEF TypeOK, FinishTaker, EventType
  <2>2. users' \in [Users -> SUBSET DOMAIN orders']
    BY <1>2 DEF TypeOK, FinishTaker
  <2>3. asks' \subseteq DOMAIN orders' /\ bids' \subseteq DOMAIN orders'
    BY <1>2 DEF TypeOK, FinishTaker
  <2> QED
    BY <1>1, <1>2, <1>3, <2>1, <2>2, <2>3 DEF TypeOK, FinishTaker, ExecuteDone
<1>5. BookIndexes'
  <2>1. asks' = {j \in DOMAIN orders' : is_ask(orders'[j])}
    BY <1>2, <1>3 DEF BookIndexes, FinishTaker
  <2>2. bids' = {j \in DOMAIN orders' : ~is_ask(orders'[j])}
    BY <1>2, <1>3 DEF BookIndexes, FinishTaker
  <2>3. \A u \in Users : users'[u] = {j \in DOMAIN orders' : orders'[j].user = u}
    BY <1>2, <1>3 DEF BookIndexes, FinishTaker, TypeOK
  <2> QED BY <1>1, <1>3, <2>1, <2>2, <2>3 DEF BookIndexes, is_ask
<1>6. Phases' /\ Priced'
  BY <1>1, <1>3 DEF Phases, Priced, PriceSigned, PriceSigned
<1> QED BY <1>4, <1>5, <1>6

LEMMA RestTakerShape ==
  ASSUME Shape, Executing, taker.type = "LIMIT", RestTaker
  PROVE  Shape'
<1> USE DEF Shape
<1> DEFINE o == Resting(taker)
<1>1. /\ taker \in Order /\ taker # NoTaker /\ cancelling = {} /\ order_id \in Nat
      /\ taker' = NoTaker /\ visited' = {} /\ cancelling' = {} /\ order_id' = order_id
      /\ faults' = faults
  BY DEF TypeOK, Phases, Executing, RestTaker, ExecuteDone
<1>2. quote_limit' = 0 /\ quote_sum' = 0 /\ UNCHANGED <<inflow, faults, panicked>>
  BY DEF RestTaker, ExecuteDone
<1>3. /\ o \in Order /\ o.id = order_id /\ o.id \notin DOMAIN orders
      /\ o.user = taker.user /\ o.user \in Users /\ o.side = taker.side
      /\ o.type = "LIMIT" /\ PriceSigned(o) /\ o.frozen \in Int
      /\ order_id \in 1..order_id
  <2>1. o \in Order /\ o.id = order_id /\ o.user = taker.user /\ o.side = taker.side
        /\ o.type = "LIMIT" /\ o.price = taker.price
    BY <1>1, RestingType DEF BookIndexes
  <2>2. o.user \in Users /\ o.frozen \in Int
    BY <2>1 DEF Order
  <2>3. PriceSigned(o)
    BY <1>1, <2>1 DEF Priced, PriceSigned
  <2>4. o.id \notin DOMAIN orders
    BY <1>1, <2>1 DEF BookIndexes
  <2>5. order_id \in 1..order_id
    BY <1>1 DEF Phases
  <2> QED BY <2>1, <2>2, <2>3, <2>4, <2>5
<1>4. /\ orders' = [j \in (DOMAIN orders \ Finished) \cup {o.id} |->
                      IF j = o.id THEN o ELSE Without(Finished)[j]]
      /\ asks' = (asks \ Finished) \cup (IF is_ask(o) THEN {o.id} ELSE {})
      /\ bids' = (bids \ Finished) \cup (IF is_ask(o) THEN {} ELSE {o.id})
      /\ users' = [u \in Users |->
                     (users[u] \ Finished) \cup (IF u = o.user THEN {o.id} ELSE {})]
      /\ balance' = frozen(balance, o.user, FrozenAsset(o), o.frozen)
  BY DEF RestTaker, Without
<1> HIDE DEF o
<1>5. DOMAIN orders' = (DOMAIN orders \ Finished) \cup {o.id}
  BY <1>4
<1>6. /\ orders'[o.id] = o
      /\ \A j \in DOMAIN orders' \ {o.id} : j \in DOMAIN orders /\ orders'[j] = orders[j]
  BY <1>4 DEF Without
<1>7. o.id \notin Finished
  BY <1>3 DEF Finished, TypeOK
<1>8. TypeOK'
  <2>1. balance' \in BalanceTable
    BY <1>3, <1>4, AssetTypes, FreezeType DEF TypeOK
  <2>2. event' \in [1..order_id -> EventType]
    BY DEF TypeOK, RestTaker, EventType
  <2>3. users' \in [Users -> SUBSET DOMAIN orders']
    BY <1>4, <1>5 DEF TypeOK
  <2>4. asks' \subseteq DOMAIN orders' /\ bids' \subseteq DOMAIN orders'
    BY <1>4, <1>5 DEF TypeOK
  <2>5. \A j \in DOMAIN orders' : orders'[j] \in Order
    BY <1>3, <1>6 DEF TypeOK
  <2>6. DOMAIN orders' \subseteq 1..order_id
    BY <1>3, <1>5 DEF TypeOK
  <2> QED
    BY <1>1, <1>2, <2>1, <2>2, <2>3, <2>4, <2>5, <2>6 DEF TypeOK
<1>9. BookIndexes'
  <2>0. o.id \notin DOMAIN orders
    BY <1>3
  <2>1. asks' = {j \in DOMAIN orders' : is_ask(orders'[j])}
    <3>1. asks = {j \in DOMAIN orders : is_ask(orders[j])}
      BY DEF BookIndexes
    <3>2. asks' = (asks \ Finished) \cup (IF is_ask(o) THEN {o.id} ELSE {})
      BY <1>4
    <3>3. CASE is_ask(o)
      <4>1. asks' = (asks \ Finished) \cup {o.id}
        BY <3>2, <3>3
      <4> QED BY <1>5, <1>6, <1>7, <2>0, <3>1, <3>3, <4>1
    <3>4. CASE ~is_ask(o)
      <4>1. asks' = (asks \ Finished) \cup {}
        BY <3>2, <3>4
      <4> QED BY <1>5, <1>6, <1>7, <2>0, <3>1, <3>4, <4>1
    <3> QED BY <3>3, <3>4
  <2>2. bids' = {j \in DOMAIN orders' : ~is_ask(orders'[j])}
    <3>1. bids = {j \in DOMAIN orders : ~is_ask(orders[j])}
      BY DEF BookIndexes
    <3>2. bids' = (bids \ Finished) \cup (IF is_ask(o) THEN {} ELSE {o.id})
      BY <1>4
    <3>3. CASE is_ask(o)
      <4>1. bids' = (bids \ Finished) \cup {}
        BY <3>2, <3>3
      <4> QED BY <1>5, <1>6, <1>7, <2>0, <3>1, <3>3, <4>1
    <3>4. CASE ~is_ask(o)
      <4>1. bids' = (bids \ Finished) \cup {o.id}
        BY <3>2, <3>4
      <4> QED BY <1>5, <1>6, <1>7, <2>0, <3>1, <3>4, <4>1
    <3> QED BY <3>3, <3>4
  <2>3. \A u \in Users : users'[u] = {j \in DOMAIN orders' : orders'[j].user = u}
    <3> SUFFICES ASSUME NEW u \in Users
                 PROVE  users'[u] = {j \in DOMAIN orders' : orders'[j].user = u}
      OBVIOUS
    <3>1. users[u] = {j \in DOMAIN orders : orders[j].user = u}
      BY DEF BookIndexes
    <3>2. users'[u] = (users[u] \ Finished) \cup (IF u = o.user THEN {o.id} ELSE {})
      BY <1>4
    <3>3. CASE u = o.user
      BY <1>3, <1>5, <1>6, <1>7, <3>1, <3>2, <3>3
    <3>4. CASE u # o.user
      BY <1>3, <1>5, <1>6, <1>7, <3>1, <3>2, <3>4
    <3> QED BY <3>3, <3>4
  <2>4. \A j \in DOMAIN orders' : orders'[j].id = j
    BY <1>3, <1>6 DEF BookIndexes
  <2> QED BY <1>1, <2>1, <2>2, <2>3, <2>4 DEF BookIndexes, is_ask
<1>10. Phases'
  BY <1>1 DEF Phases
<1>11. Priced'
  BY <1>1, <1>3, <1>6 DEF Priced, PriceSigned
<1> QED BY <1>8, <1>9, <1>10, <1>11

LEMMA OrderFinishShape ==
  ASSUME Shape, NEW i \in DOMAIN orders, taker = NoTaker, OrderFinish(i),
         cancelling' \subseteq cancelling \ {i}
  PROVE  Shape'
<1> USE DEF Shape
<1>1. orders[i] \in Order /\ orders[i].user \in Users
  BY DEF TypeOK, Order
<1>2. UNCHANGED <<order_id, taker, quote_limit, quote_sum, visited, inflow, faults, panicked>>
      /\ visited = {}
  BY DEF OrderFinish, execVars, Phases
<1>3. DOMAIN orders' = DOMAIN orders \ {i}
  BY DEF OrderFinish, Without
<1>4. \A j \in DOMAIN orders' : j \in DOMAIN orders /\ orders'[j] = orders[j]
  BY DEF OrderFinish, Without
<1>5. \A u \in Users : users'[u] = users[u] \ {i}
  BY <1>1 DEF OrderFinish, BookIndexes, TypeOK
<1>6. TypeOK'
  <2>1. balance' \in BalanceTable
    <3>1. FrozenAsset(orders[i]) \in Assets /\ orders[i].frozen \in Int
      BY <1>1, AssetTypes DEF Order
    <3> QED BY <1>1, <3>1, FreezeType DEF OrderFinish, Unfrozen, TypeOK
  <2>2. event' \in [1..order_id -> EventType]
    BY DEF TypeOK, OrderFinish, EventType
  <2>3. users' \in [Users -> SUBSET DOMAIN orders']
    <3>1. users' = [u \in Users |-> users'[u]]
      BY DEF TypeOK, OrderFinish
    <3> QED BY <1>3, <1>5, <3>1 DEF TypeOK
  <2>4. asks' \subseteq DOMAIN orders' /\ bids' \subseteq DOMAIN orders'
    BY <1>3 DEF TypeOK, OrderFinish
  <2> QED BY <1>2, <1>3, <1>4, <2>1, <2>2, <2>3, <2>4 DEF TypeOK
<1>7. BookIndexes'
  <2>1. asks' = {j \in DOMAIN orders' : is_ask(orders'[j])}
    BY <1>3, <1>4 DEF BookIndexes, OrderFinish
  <2>2. bids' = {j \in DOMAIN orders' : ~is_ask(orders'[j])}
    BY <1>3, <1>4 DEF BookIndexes, OrderFinish
  <2>3. \A u \in Users : users'[u] = {j \in DOMAIN orders' : orders'[j].user = u}
    BY <1>3, <1>4, <1>5 DEF BookIndexes
  <2> QED BY <1>2, <1>4, <2>1, <2>2, <2>3 DEF BookIndexes, is_ask
<1>8. Phases' /\ Priced'
  BY <1>2, <1>4 DEF Phases, Priced, PriceSigned, PriceSigned
<1> QED BY <1>6, <1>7, <1>8

LEMMA OtherShape ==
  ASSUME Shape
  PROVE  /\ \A u \in Users, m \in Markets : OrderCancelAll(u, m) => Shape'
         /\ \A u \in Users, a \in Assets, d \in Deltas : UpdateBalance(u, a, d) => Shape'
         /\ UNCHANGED vars => Shape'
<1> USE DEF Shape
<1>1. ASSUME NEW u \in Users, NEW m \in Markets, OrderCancelAll(u, m)
      PROVE  Shape'
  <2>1. cancelling' \subseteq DOMAIN orders
    BY <1>1 DEF OrderCancelAll, TypeOK
  <2>2. UNCHANGED <<balance, bookVars, order_id, execVars, event, inflow, faults, panicked>>
        /\ taker = NoTaker
    BY <1>1 DEF OrderCancelAll, Idle
  <2> QED BY <2>1, <2>2 DEF TypeOK, BookIndexes, Phases, Priced, PriceSigned, bookVars, execVars
<1>2. ASSUME NEW u \in Users, NEW a \in Assets, NEW d \in Deltas, UpdateBalance(u, a, d)
      PROVE  Shape'
  <2>1. d \in Int
    BY EngineAssumption
  <2>2. balance' \in BalanceTable
    BY <1>2, <2>1, AppliedType DEF UpdateBalance, TypeOK, Change, BalanceType
  <2>3. inflow' \in [Assets -> Int]
    BY <1>2, <2>1 DEF UpdateBalance, TypeOK
  <2>4. UNCHANGED <<bookVars, order_id, execVars, cancelling, event, faults, panicked>>
    BY <1>2 DEF UpdateBalance
  <2> QED
    BY <2>2, <2>3, <2>4 DEF TypeOK, BookIndexes, Phases, Priced, PriceSigned, bookVars, execVars
<1>3. ASSUME UNCHANGED vars PROVE Shape'
  BY <1>3 DEF TypeOK, BookIndexes, Phases, Priced, PriceSigned, vars
<1> QED BY <1>1, <1>2, <1>3

LEMMA NextShape == Shape /\ [Next]_vars => Shape'
<1> SUFFICES ASSUME Shape, [Next]_vars PROVE Shape'
  OBVIOUS
<1>1. CASE \E u \in Users, in \in OrderInputs : OrderPut(u, in)
  BY <1>1, OrderPutShape
<1>2. CASE \E i \in DOMAIN orders : Trade(i)
  BY <1>2, TradeShape
<1>3. CASE \E i \in DOMAIN orders : Panic(i)
  BY <1>3, PanicShape
<1>4. CASE CancelTaker
  BY <1>4, FinishTakerShape DEF CancelTaker
<1>5. CASE EndTaker
  <2>1. taker.type \in OrderType
    BY <1>5 DEF EndTaker, Executing, Shape, TypeOK, Order
  <2> QED BY <1>5, <2>1, FinishTakerShape, RestTakerShape DEF EndTaker, OrderType
<1>6. CASE \E u \in Users, i \in DOMAIN orders : OrderCancel(u, i)
  BY <1>6, OrderFinishShape DEF OrderCancel, Idle
<1>7. CASE \E u \in Users, m \in Markets : OrderCancelAll(u, m)
  BY <1>7, OtherShape
<1>8. CASE \E i \in cancelling : CancelNext(i)
  BY <1>8, OrderFinishShape DEF CancelNext, Shape, TypeOK, Phases
<1>9. CASE \E u \in Users, a \in Assets, d \in Deltas : UpdateBalance(u, a, d)
  BY <1>9, OtherShape
<1>10. CASE UNCHANGED vars
  BY <1>10, OtherShape
<1> QED
  BY <1>1, <1>2, <1>3, <1>4, <1>5, <1>6, <1>7, <1>8, <1>9, <1>10 DEF Next

(***************************************************************************)
(* Every operation of the controller keeps the shape of the state.         *)
(***************************************************************************)
THEOREM ShapeInvariant == Spec => []Shape
BY InitShape, NextShape, PTL DEF Spec

(***************************************************************************)
(* Type correctness of the engine, for every configuration.                *)
(***************************************************************************)
THEOREM TypesHold == Spec => []TypeOK
<1>1. Shape => TypeOK
  BY DEF Shape
<1> QED BY <1>1, ShapeInvariant, PTL

(***************************************************************************)
(* The four maps of a market (orders, users, asks, bids) agree after every *)
(* insert_order_into_orderbook and every order_finish.                     *)
(***************************************************************************)
THEOREM IndexesAgree == Spec => []BookIndexes
<1>1. Shape => BookIndexes
  BY DEF Shape
<1> QED BY <1>1, ShapeInvariant, PTL

(***************************************************************************)
(* The strengthening.  While a limit order still has something left, the   *)
(* loop has emptied every order it went past.  Without negative prices no  *)
(* available balance is negative and the taker can pay for what it may     *)
(* still trade (TakerFunds): what is left of a quote limit then divides to *)
(* an amount that is not negative, and what a resting order freezes is     *)
(* there to be frozen.                                                     *)
(***************************************************************************)
PassedFilled ==
  taker # NoTaker /\ taker.type = "LIMIT" /\ taker.remain # 0
    => \A i \in visited : orders[i].remain = 0

AvailableKept ==
  "PRICE" \notin faults
    => \A u \in Users, a \in Assets : balance["AVAILABLE"][u][a] >= 0

LimitSound ==
  taker # NoTaker /\ faults \cap {"PRICE", "LIMIT"} = {} => quote_limit >= 0

Book ==
  Shape /\ OrderArithmetic /\ PassedFilled /\ AvailableKept /\ TakerFunds /\ LimitSound

(***************************************************************************)
(* Arithmetic.                                                             *)
(***************************************************************************)
LEMMA DivFloor ==
  ASSUME NEW a \in Nat, NEW p \in Nat, p > 0
  PROVE  /\ a \div p \in Nat
         /\ p * (a \div p) <= a
         /\ a - p * (a \div p) < p
OBVIOUS

LEMMA DivLess ==
  ASSUME NEW a \in Nat, NEW p \in Nat, p > 0, NEW m \in Nat, a < p * m
  PROVE  a \div p < m
OBVIOUS

LEMMA TruncateNat ==
  ASSUME NEW a \in Nat, NEW p \in Nat, p > 0
  PROVE  /\ Truncate(a, p) \in Nat
         /\ p * Truncate(a, p) <= a
         /\ a - p * Truncate(a, p) < p
<1>1. Truncate(a, p) = a \div p
  BY DEF Truncate, Abs
<1> QED BY <1>1, DivFloor

LEMMA TruncateNegative ==
  ASSUME NEW a \in Int, a < 0, NEW p \in Nat, p > 0
  PROVE  /\ -Truncate(a, p) \in Nat
         /\ -a + p * Truncate(a, p) < p
         /\ a <= p * Truncate(a, p)
         /\ Truncate(a, p) \in Int
<1>1. Truncate(a, p) = -((-a) \div p)
  BY DEF Truncate, Abs
<1> DEFINE c == (-a) \div p
<1>2. -a \in Nat
  OBVIOUS
<1>3. c \in Nat /\ -a - p * c < p /\ p * c <= -a /\ p * c \in Int
  BY <1>2, DivFloor
<1> HIDE DEF c
<1>4. p * (-c) = -(p * c)
  BY <1>3
<1> QED BY <1>1, <1>3, <1>4 DEF c

LEMMA TruncateLess ==
  ASSUME NEW a \in Int, NEW p \in Nat, p > 0, NEW m \in Nat, m > 0, a < p * m
  PROVE  Truncate(a, p) < m
<1>1. CASE a < 0
  BY <1>1, TruncateNegative
<1>2. CASE a >= 0
  <2>1. Truncate(a, p) = a \div p /\ a \in Nat
    BY <1>2 DEF Truncate, Abs
  <2> QED BY <2>1, DivLess
<1> QED BY <1>1, <1>2

LEMMA ProductNat ==
  ASSUME NEW m \in Nat, NEW n \in Nat
  PROVE  m * n \in Nat
OBVIOUS

LEMMA Distribute ==
  ASSUME NEW x \in Int, NEW y \in Int, NEW p \in Int
  PROVE  /\ (x - y) * p = x * p - p * y
         /\ (x + y) * p = x * p + p * y
OBVIOUS

LEMMA Monotone ==
  ASSUME NEW x \in Nat, NEW p \in Int, NEW q \in Int, p <= q
  PROVE  x * p <= x * q
OBVIOUS

(***************************************************************************)
(* What a step of the loop trades is not nothing, whatever the prices and  *)
(* limits are, and its quote amount is exact.                              *)
(***************************************************************************)
LEMMA TradedBounds ==
  ASSUME Book, NEW i \in DOMAIN orders, Tradable(i)
  PROVE  /\ taker # NoTaker /\ taker \in Order /\ orders[i] \in Order
         /\ i \notin visited
         /\ is_ask(orders[i]) <=> ~is_ask(taker)
         /\ orders[i].market = taker.market
         /\ TradedBase(i) \in Int /\ TradedBase(i) # 0
         /\ TradedQuote(i) \in Int
         /\ TradedQuote(i) = orders[i].price * TradedBase(i)
         /\ taker.type = "LIMIT" =>
              TradedBase(i) = taker.remain \/ TradedBase(i) = orders[i].remain
<1> USE DEF Book
<1>1. /\ taker # NoTaker /\ taker \in Order /\ orders[i] \in Order
      /\ TradedBase(i) \in Int /\ TradedQuote(i) \in Int
      /\ i \in Unvisited /\ taker.remain # 0 /\ ~Exhausted(i)
  BY TradeNumbers DEF Tradable, Executing, AtMaker
<1>2. i \notin visited /\ orders[i].market = taker.market
      /\ i \in (IF taker.side = "ASK" THEN bids ELSE asks)
  BY <1>1 DEF Unvisited, CounterOrders
<1>3. is_ask(orders[i]) <=> ~is_ask(taker)
  BY <1>1, <1>2 DEF Shape, BookIndexes, is_ask
<1>4. orders[i].remain # 0
  BY <1>2 DEF OrderArithmetic
<1>5. Offered(i) # 0 /\ (Offered(i) = taker.remain \/ Offered(i) = orders[i].remain)
  BY <1>1, <1>4 DEF Offered
<1>6. TradedBase(i) # 0
  BY <1>1, <1>5 DEF Exhausted, TradedBase
<1>7. taker.type = "LIMIT" => TradedBase(i) = Offered(i)
  BY DEF TradedBase, Limited
<1> QED BY <1>1, <1>2, <1>3, <1>5, <1>6, <1>7 DEF TradedQuote

(***************************************************************************)
(* Without negative prices it is no more than either order has left, and   *)
(* it is more than nothing but for a market bid with a negative limit.     *)
(***************************************************************************)
SoundTaker == is_ask(taker) \/ taker.type = "LIMIT" \/ quote_limit >= 0

LEMMA SoundTrade ==
  ASSUME Book, NEW i \in DOMAIN orders, Tradable(i), "PRICE" \notin faults
  PROVE  /\ TradedBase(i) <= taker.remain
         /\ TradedBase(i) <= orders[i].remain
         /\ taker.remain \in Nat /\ orders[i].remain \in Nat
         /\ orders[i].price \in Nat /\ orders[i].price > 0
         /\ SoundTaker => /\ TradedBase(i) \in Nat /\ TradedBase(i) > 0
                          /\ TradedQuote(i) \in Nat
         /\ taker.type = "MARKET" /\ ~is_ask(taker) /\ quote_limit >= 0 =>
              quote_sum + TradedQuote(i) <= quote_limit
<1> USE DEF Book
<1>1. /\ taker # NoTaker /\ taker \in Order /\ orders[i] \in Order
      /\ TradedBase(i) # 0 /\ TradedBase(i) \in Int /\ i \notin visited
      /\ TradedQuote(i) = orders[i].price * TradedBase(i)
  BY TradedBounds
<1>2. /\ taker.remain \in Int /\ orders[i].remain \in Int /\ orders[i].price \in Int
      /\ quote_limit \in Int /\ quote_sum \in Int
      /\ taker.side \in OrderSide /\ taker.type \in OrderType
  BY <1>1 DEF Order, Shape, TypeOK
<1>3. /\ taker.remain \in Nat /\ orders[i].remain \in Nat /\ orders[i].remain # 0
      /\ orders[i].price \in Nat /\ orders[i].price > 0
  <2>1. AddsUp(taker) /\ AddsUp(orders[i]) /\ orders[i].price > 0
        /\ (orders[i].remain = 0 => i \in visited)
    BY <1>1 DEF OrderArithmetic
  <2> QED BY <1>1, <1>2, <2>1 DEF AddsUp, Signed
<1>4. taker.remain # 0
  BY DEF Tradable, AtMaker
<1> DEFINE n == Offered(i)
           p == orders[i].price
<1>5. n \in Nat /\ n > 0 /\ n <= taker.remain /\ n <= orders[i].remain
  BY <1>3, <1>4 DEF Offered
<1>6. p * n \in Nat
  BY <1>3, <1>5, ProductNat
<1> HIDE DEF n
<1>7. CASE Limited(i)
  <2>1. quote_limit - quote_sum < p * n /\ quote_limit - quote_sum \in Int
    BY <1>2, <1>6, <1>7 DEF Limited, n
  <2>2. TradedBase(i) = Truncate(quote_limit - quote_sum, p)
    BY <1>7 DEF TradedBase
  <2>3. TradedBase(i) < n
    BY <1>3, <1>5, <2>1, <2>2, TruncateLess
  <2>4. ~is_ask(taker) /\ taker.type = "MARKET"
    BY <1>7 DEF Limited, is_ask
  <2>5. SUFFICES ASSUME quote_limit >= 0
                 PROVE  /\ TradedBase(i) \in Nat /\ p * TradedBase(i) \in Nat
                        /\ quote_sum + p * TradedBase(i) <= quote_limit
    BY <1>1, <1>3, <1>5, <2>3, <2>4 DEF SoundTaker
  <2>6. quote_limit - quote_sum \in Nat
    BY <1>1, <1>2, <2>4, <2>5 DEF TakerFunds
  <2>7. TradedBase(i) \in Nat /\ p * TradedBase(i) <= quote_limit - quote_sum
    BY <1>3, <2>2, <2>6, TruncateNat
  <2>8. p * TradedBase(i) \in Nat
    BY <1>3, <2>7, ProductNat
  <2> QED BY <1>2, <2>7, <2>8
<1>8. CASE ~Limited(i)
  <2>1. TradedBase(i) = n
    BY <1>8 DEF TradedBase, n
  <2>2. taker.type = "MARKET" /\ ~is_ask(taker) => quote_sum + p * n <= quote_limit
    BY <1>2, <1>6, <1>8 DEF Limited, n, is_ask, OrderSide
  <2> QED BY <1>1, <1>3, <1>5, <1>6, <2>1, <2>2
<1> QED BY <1>7, <1>8

(***************************************************************************)
(* Balance updates, pointwise.                                             *)
(***************************************************************************)
Hit(c, t, u, a) == IF t = c.type /\ u = c.user /\ a = c.asset THEN c.change ELSE 0

LEMMA AppliedAt ==
  ASSUME NEW bal \in BalanceTable, NEW c \in Change,
         NEW t \in BalanceType, NEW u \in Users, NEW a \in Assets
  PROVE  Applied(bal, c)[t][u][a] = bal[t][u][a] + Hit(c, t, u, a)
BY DEF Applied, add, Hit, BalanceTable, Change

LEMMA FreezeAt ==
  ASSUME NEW bal \in BalanceTable, NEW v \in Users, NEW b \in Assets, NEW n \in Int,
         NEW u \in Users, NEW a \in Assets
  PROVE  /\ frozen(bal, v, b, n)["AVAILABLE"][u][a] =
              bal["AVAILABLE"][u][a] - (IF u = v /\ a = b THEN n ELSE 0)
         /\ frozen(bal, v, b, n)["FREEZE"][u][a] =
              bal["FREEZE"][u][a] + (IF u = v /\ a = b THEN n ELSE 0)
         /\ unfrozen(bal, v, b, n)["AVAILABLE"][u][a] =
              bal["AVAILABLE"][u][a] + (IF u = v /\ a = b THEN n ELSE 0)
         /\ unfrozen(bal, v, b, n)["FREEZE"][u][a] =
              bal["FREEZE"][u][a] - (IF u = v /\ a = b THEN n ELSE 0)
BY DEF frozen, unfrozen, add, sub, BalanceTable, BalanceType

(***************************************************************************)
(* The four updates of a trade that is not refused concern two different   *)
(* users, so each key of the balance table is hit by at most one of them.  *)
(***************************************************************************)
LEMMA TradeAt ==
  ASSUME Shape, NEW i \in DOMAIN orders, taker # NoTaker,
         NEW t \in BalanceType, NEW u \in Users, NEW a \in Assets
  PROVE  AfterTrade(i)[t][u][a] =
           balance[t][u][a] + Hit(BidGets(i), t, u, a) + Hit(AskPays(i), t, u, a)
                            + Hit(AskGets(i), t, u, a) + Hit(BidPays(i), t, u, a)
<1>1. /\ BidGets(i) \in Change /\ AskPays(i) \in Change
      /\ AskGets(i) \in Change /\ BidPays(i) \in Change
      /\ AfterBase(i) \in BalanceTable /\ balance \in BalanceTable
  BY TradeBalances DEF Shape, TypeOK
<1>2. Applied(balance, BidGets(i)) \in BalanceTable
      /\ Applied(AfterBase(i), AskGets(i)) \in BalanceTable
  BY <1>1, AppliedType
<1>3. AfterBase(i)[t][u][a] =
        balance[t][u][a] + Hit(BidGets(i), t, u, a) + Hit(AskPays(i), t, u, a)
  BY <1>1, <1>2, AppliedAt DEF AfterBase
<1>4. AfterTrade(i)[t][u][a] =
        AfterBase(i)[t][u][a] + Hit(AskGets(i), t, u, a) + Hit(BidPays(i), t, u, a)
  BY <1>1, <1>2, AppliedAt DEF AfterTrade
<1> QED BY <1>3, <1>4

LEMMA TradersDiffer ==
  ASSUME NEW i \in DOMAIN orders, ~Refused(i)
  PROVE  taker.user # orders[i].user /\ AskOrder(i).user # BidOrder(i).user
<1>1. AskOrder(i).user # BidOrder(i).user
  <2>1. CASE is_ask(taker)
    BY <2>1 DEF Refused, CacheKey, BidGets, AskPays
  <2>2. CASE ~is_ask(taker)
    BY <2>2 DEF Refused, CacheKey, AskGets, BidPays
  <2> QED BY <2>1, <2>2
<1> QED BY <1>1 DEF AskOrder, BidOrder

\* An update that is covered leaves the balance it hits not negative.
LEMMA CoveredKeeps ==
  ASSUME NEW bal \in BalanceTable, NEW c \in Change, Covered(bal, c),
         NEW t \in BalanceType, NEW u \in Users, NEW a \in Assets,
         bal[t][u][a] >= 0
  PROVE  Applied(bal, c)[t][u][a] >= 0
<1>1. Applied(bal, c)[t][u][a] = bal[t][u][a] + Hit(c, t, u, a)
  BY AppliedAt
<1>2. bal[t][u][a] \in Int /\ c.change \in Int
  BY DEF BalanceTable, Change
<1> QED BY <1>1, <1>2 DEF Covered, Hit

LEMMA TradeKeeps ==
  ASSUME Shape, NEW i \in DOMAIN orders, taker # NoTaker, ~Refused(i),
         NEW t \in BalanceType, NEW u \in Users, NEW a \in Assets,
         balance[t][u][a] >= 0
  PROVE  AfterTrade(i)[t][u][a] >= 0
<1>1. /\ BidGets(i) \in Change /\ AskPays(i) \in Change
      /\ AskGets(i) \in Change /\ BidPays(i) \in Change
      /\ AfterBase(i) \in BalanceTable /\ balance \in BalanceTable
  BY TradeBalances DEF Shape, TypeOK
<1>2. Applied(balance, BidGets(i)) \in BalanceTable
      /\ Applied(AfterBase(i), AskGets(i)) \in BalanceTable
  BY <1>1, AppliedType
<1>3. Applied(balance, BidGets(i))[t][u][a] >= 0
  BY <1>1, CoveredKeeps DEF Refused
<1>4. AfterBase(i)[t][u][a] >= 0
  BY <1>1, <1>2, <1>3, CoveredKeeps DEF Refused, AfterBase
<1>5. Applied(AfterBase(i), AskGets(i))[t][u][a] >= 0
  BY <1>1, <1>4, CoveredKeeps DEF Refused
<1> QED
  BY <1>1, <1>2, <1>5, CoveredKeeps DEF Refused, AfterTrade

LEMMA InitBook == Init => Book
<1> SUFFICES ASSUME Init PROVE Book
  OBVIOUS
<1>1. Shape
  BY InitShape
<1>2. OrderArithmetic /\ PassedFilled /\ TakerFunds /\ LimitSound
  BY DEF Init, OrderArithmetic, PassedFilled, TakerFunds, LimitSound
<1>3. AvailableKept
  BY EngineAssumption DEF Init, AvailableKept, BalanceType
<1> QED BY <1>1, <1>2, <1>3 DEF Book

LEMMA OrderPutBook ==
  ASSUME Book, NEW u \in Users, NEW in \in OrderInputs, OrderPut(u, in)
  PROVE  Book'
<1> USE DEF Book
<1>1. Shape'
  BY OrderPutShape
<1>2. /\ in \in OrderInput /\ in.amount \in Nat /\ order_id \in Nat
      /\ faults \subseteq faults'
      /\ "LIMIT" \notin faults' /\ in.side = "BID" /\ in.type = "MARKET"
           => in.quote_limit >= 0
  BY AcceptedPrice DEF Shape, TypeOK
<1>3. /\ taker' = NewOrder(order_id + 1, u, in) /\ orders' = orders
      /\ visited = {} /\ visited' = {} /\ quote_sum' = 0 /\ balance' = balance
      /\ quote_limit' = QuoteLimit(u, in) /\ Acceptable(u, in)
  BY DEF OrderPut, bookVars, Idle, Shape, Phases
<1>4. /\ taker'.side = in.side /\ taker'.type = in.type /\ taker'.user = u
      /\ taker'.remain = in.amount /\ taker'.price = in.price
      /\ taker'.market = in.market /\ taker'.finished_base = 0
      /\ taker'.amount = in.amount
  BY <1>3 DEF NewOrder
<1>5. OrderArithmetic'
  <2>1. AddsUp(taker)'
    BY <1>2, <1>4 DEF AddsUp, Signed
  <2>2. visited' = visited
    BY <1>3
  <2> HIDE DEF Book
  <2> QED BY <1>2, <1>3, <2>1, <2>2 DEF OrderArithmetic, AddsUp, Signed, is_ask, Book
<1>6. PassedFilled' /\ AvailableKept'
  BY <1>2, <1>3 DEF PassedFilled, AvailableKept
<1> DEFINE q == Conf[in.market].quote
           b == Conf[in.market].base
           limit == Truncate(in.quote_limit, Scale)
<1>7. q \in Assets /\ b \in Assets /\ in.market \in Markets
  BY <1>2, MarketAssumption DEF OrderInput, MarketConf
<1>8. "PRICE" \notin faults' =>
        balance["AVAILABLE"][u][q] \in Int /\ balance["AVAILABLE"][u][q] >= 0
  BY <1>2, <1>7 DEF AvailableKept, Shape, TypeOK, BalanceTable, BalanceType
<1>9. limit \in Int /\ (in.quote_limit >= 0 => limit >= 0)
  BY <1>2, MarketAssumption, TruncateType, TruncateNat DEF OrderInput
<1>10. balance["AVAILABLE"][u][q] \in Int
  BY <1>7 DEF Shape, TypeOK, BalanceTable, BalanceType
<1>11. quote_limit' = IF in.type = "MARKET" /\ in.side = "BID"
                      THEN IF in.quote_limit = 0 \/ balance["AVAILABLE"][u][q] <= limit
                           THEN balance["AVAILABLE"][u][q] ELSE limit
                      ELSE 0
  BY <1>3 DEF QuoteLimit
<1> HIDE DEF limit
<1>12. LimitSound'
  BY <1>2, <1>8, <1>9, <1>11 DEF LimitSound
<1>13. TakerFunds'
  <2>3. Base(taker)' = b /\ Quote(taker)' = q
    BY <1>4 DEF Base, Quote
  <2>4. TakerAvailable(b)' = balance["AVAILABLE"][u][b]
        /\ TakerAvailable(q)' = balance["AVAILABLE"][u][q]
    BY <1>3, <1>4 DEF TakerAvailable
  <2>5. is_ask(taker)' <=> in.side = "ASK"
    BY <1>4 DEF is_ask
  <2>6. in.side = "ASK" => balance["AVAILABLE"][u][b] >= in.amount
    BY <1>3 DEF Acceptable, Affordable
  <2>7. in.side # "ASK" /\ in.type = "LIMIT" =>
          balance["AVAILABLE"][u][q] >= in.amount * in.price
    BY <1>3 DEF Acceptable, Affordable
  <2>8. in.side # "ASK" /\ in.type = "MARKET" =>
          quote_limit' \in Int /\ balance["AVAILABLE"][u][q] >= quote_limit'
    <3>1. in.side \in OrderSide
      BY <1>2 DEF OrderInput
    <3> QED BY <1>9, <1>10, <1>11, <3>1 DEF OrderSide
  <2> HIDE DEF q, b
  <2> QED BY <1>3, <1>4, <1>10, <2>3, <2>4, <2>5, <2>6, <2>7, <2>8 DEF TakerFunds
<1> QED BY <1>1, <1>5, <1>6, <1>12, <1>13

\* What the taker pays comes from what it has available, once.
LEMMA TakerPays ==
  ASSUME Shape, NEW i \in DOMAIN orders, taker # NoTaker, ~Refused(i)
  PROVE  AfterTrade(i)["AVAILABLE"][taker.user][FrozenAsset(taker)] =
           balance["AVAILABLE"][taker.user][FrozenAsset(taker)]
             - (IF is_ask(taker) THEN TradedBase(i) ELSE TradedQuote(i))
<1> DEFINE u == taker.user
           a == FrozenAsset(taker)
           h(c) == Hit(c, "AVAILABLE", u, a)
<1>1. /\ taker \in Order /\ TradedBase(i) \in Int /\ TradedQuote(i) \in Int
  BY TradeNumbers
<1>2. u \in Users /\ a \in Assets /\ Base(taker) # Quote(taker)
  BY <1>1, AssetTypes DEF Order
<1>3. u # orders[i].user
  BY TradersDiffer
<1>4. balance["AVAILABLE"][u][a] \in Int
  BY <1>2 DEF Shape, TypeOK, BalanceTable, BalanceType
<1>5. AfterTrade(i)["AVAILABLE"][u][a] =
        balance["AVAILABLE"][u][a] + h(BidGets(i)) + h(AskPays(i))
                                   + h(AskGets(i)) + h(BidPays(i))
  BY <1>2, TradeAt DEF BalanceType
<1>6. CASE is_ask(taker)
  <2>1. a = Base(taker)
    BY <1>6 DEF FrozenAsset
  <2>2. h(BidGets(i)) = 0
    BY <1>3, <1>6 DEF Hit, BidGets, BidOrder
  <2>3. h(AskPays(i)) = -TradedBase(i)
    BY <1>6, <2>1 DEF Hit, AskPays, AskOrder
  <2>4. h(AskGets(i)) = 0
    BY <1>2, <2>1 DEF Hit, AskGets
  <2>5. h(BidPays(i)) = 0
    BY <1>6 DEF Hit, BidPays
  <2> HIDE DEF h
  <2> QED BY <1>1, <1>4, <1>5, <1>6, <2>2, <2>3, <2>4, <2>5
<1>7. CASE ~is_ask(taker)
  <2>1. a = Quote(taker)
    BY <1>7 DEF FrozenAsset
  <2>2. h(BidGets(i)) = 0
    BY <1>2, <2>1 DEF Hit, BidGets
  <2>3. h(AskPays(i)) = 0
    BY <1>7 DEF Hit, AskPays
  <2>4. h(AskGets(i)) = 0
    BY <1>3, <1>7 DEF Hit, AskGets, AskOrder
  <2>5. h(BidPays(i)) = -TradedQuote(i)
    BY <1>7, <2>1 DEF Hit, BidPays, BidOrder
  <2> HIDE DEF h
  <2> QED BY <1>1, <1>4, <1>5, <1>7, <2>2, <2>3, <2>4, <2>5
<1> QED BY <1>6, <1>7

LEMMA TradeBook ==
  ASSUME Book, NEW i \in DOMAIN orders, Trade(i)
  PROVE  Book'
<1> USE DEF Book
<1> DEFINE n == TradedBase(i)
           q == TradedQuote(i)
<1>1. Shape'
  BY TradeShape
<1>2. Tradable(i) /\ ~Refused(i) /\ taker # NoTaker /\ taker \in Order /\ orders[i] \in Order
  BY TradedBounds DEF Trade
<1>3. /\ i \notin visited /\ (is_ask(orders[i]) <=> ~is_ask(taker))
      /\ n \in Int /\ q \in Int /\ q = orders[i].price * n
      /\ (taker.type = "LIMIT" => n = taker.remain \/ n = orders[i].remain)
  BY <1>2, TradedBounds
<1>4. /\ taker' = FilledTaker(i) /\ orders' = [orders EXCEPT ![i] = FilledMaker(i)]
      /\ visited' = visited \cup {i} /\ balance' = AfterTrade(i)
      /\ quote_sum' = quote_sum + q /\ quote_limit' = quote_limit
      /\ faults' = faults
  BY DEF Trade
<1>5. /\ taker'.market = taker.market /\ taker'.side = taker.side
      /\ taker'.type = taker.type /\ taker'.user = taker.user
      /\ taker'.price = taker.price /\ taker'.amount = taker.amount
      /\ taker'.remain = taker.remain - n
      /\ taker'.finished_base = taker.finished_base + n
  BY <1>2, <1>4, FilledOrders
<1>6. /\ orders'[i].side = orders[i].side /\ orders'[i].type = orders[i].type
      /\ orders'[i].price = orders[i].price /\ orders'[i].amount = orders[i].amount
      /\ orders'[i].remain = orders[i].remain - n
      /\ orders'[i].finished_base = orders[i].finished_base + n
      /\ orders'[i].frozen = orders[i].frozen - IF is_ask(taker) THEN q ELSE n
  BY <1>2, <1>4, FilledOrders
<1>7. DOMAIN orders' = DOMAIN orders /\ \A j \in DOMAIN orders \ {i} : orders'[j] = orders[j]
  BY <1>4
<1>8. /\ taker.remain \in Int /\ orders[i].remain \in Int /\ orders[i].price \in Int
      /\ taker.finished_base \in Int /\ orders[i].finished_base \in Int
      /\ taker.amount \in Int /\ orders[i].amount \in Int /\ taker.price \in Int
      /\ taker.type \in OrderType /\ taker.side \in OrderSide
      /\ quote_sum \in Int /\ quote_limit \in Int
  BY <1>2 DEF Order, Shape, TypeOK
<1>9. is_ask(taker)' <=> is_ask(taker)
  BY <1>5 DEF is_ask
<1>10. is_ask(orders[i])' <=> is_ask(orders[i])
  BY <1>6 DEF is_ask
<1> HIDE DEF n, q
<1>11. "PRICE" \notin faults =>
         /\ n <= taker.remain /\ n <= orders[i].remain
         /\ SoundTaker => n > 0 /\ n \in Nat /\ q \in Nat
         /\ taker.type = "MARKET" /\ ~is_ask(taker) /\ quote_limit >= 0
              => quote_sum + q <= quote_limit
  BY <1>2, SoundTrade DEF n, q
<1>12. faults \cap {"PRICE", "LIMIT"} = {} => "PRICE" \notin faults /\ SoundTaker
  BY <1>2 DEF LimitSound, SoundTaker
<1>13. OrderArithmetic'
  <2>1. AddsUp(taker)'
    BY <1>2, <1>3, <1>4, <1>5, <1>8, <1>11, <1>12 DEF OrderArithmetic, AddsUp, Signed
  <2>2. AddsUp(orders[i])'
    BY <1>3, <1>4, <1>6, <1>8, <1>11, <1>12 DEF OrderArithmetic, AddsUp, Signed
  <2>3. /\ orders'[i].type = "LIMIT" /\ orders'[i].price # 0
        /\ "PRICE" \notin faults' => orders'[i].price > 0
    BY <1>4, <1>6 DEF OrderArithmetic
  <2>4. orders'[i].frozen = IF is_ask(orders[i])' THEN orders'[i].remain
                            ELSE orders'[i].remain * orders'[i].price
    <3>1. orders[i].frozen = IF is_ask(orders[i]) THEN orders[i].remain
                             ELSE orders[i].remain * orders[i].price
      BY DEF OrderArithmetic
    <3>2. (orders[i].remain - n) * orders[i].price
            = orders[i].remain * orders[i].price - orders[i].price * n
      BY <1>3, <1>8, Distribute
    <3> QED BY <1>3, <1>6, <1>10, <3>1, <3>2
  <2>5. \A j \in DOMAIN orders \ {i} :
          /\ AddsUp(orders[j])'
          /\ orders'[j].type = "LIMIT"
          /\ orders'[j].price # 0
          /\ "PRICE" \notin faults' => orders'[j].price > 0
          /\ orders'[j].frozen = IF is_ask(orders[j])' THEN orders'[j].remain
                                 ELSE orders'[j].remain * orders'[j].price
          /\ orders'[j].remain = 0 => j \in visited'
    BY <1>4, <1>7 DEF OrderArithmetic, AddsUp, Signed, is_ask
  <2>6. i \in visited'
    BY <1>4
  <2>7. \A j \in DOMAIN orders' : j = i \/ j \in DOMAIN orders \ {i}
    BY <1>7
  <2> HIDE DEF Book
  <2> QED BY <2>1, <2>2, <2>3, <2>4, <2>5, <2>6, <2>7 DEF OrderArithmetic
<1>14. PassedFilled'
  <2> SUFFICES ASSUME taker'.type = "LIMIT", taker'.remain # 0, NEW j \in visited'
               PROVE  orders'[j].remain = 0
    BY DEF PassedFilled
  <2>1. taker.type = "LIMIT" /\ taker.remain # 0 /\ n # taker.remain
    BY <1>2, <1>3, <1>5, <1>8 DEF Tradable, AtMaker
  <2>2. CASE j = i
    BY <1>3, <1>6, <1>8, <2>1, <2>2
  <2>3. CASE j # i
    <3>1. j \in visited /\ j \in DOMAIN orders
      BY <1>4, <2>3 DEF Shape, TypeOK
    <3> QED BY <1>2, <1>7, <2>1, <2>3, <3>1 DEF PassedFilled
  <2> QED BY <2>2, <2>3
<1>15. AvailableKept' /\ LimitSound'
  BY <1>2, <1>4, TradeKeeps DEF AvailableKept, LimitSound, BalanceType
<1>16. ASSUME "PRICE" \notin faults
       PROVE  TakerFunds'
  <2> DEFINE a == FrozenAsset(taker)
             v == balance["AVAILABLE"][taker.user][a]
             w == balance'["AVAILABLE"][taker.user][a]
  <2>1. w = v - (IF is_ask(taker) THEN n ELSE q)
    BY <1>2, <1>4, TakerPays DEF n, q
  <2>2. v \in Int
    BY <1>2, AssetTypes DEF Order, Shape, TypeOK, BalanceTable, BalanceType
  <2>3. TakerAvailable(a) = v /\ TakerAvailable(a)' = w
    BY <1>5 DEF TakerAvailable, FrozenAsset, is_ask, Base, Quote
  <2>4. /\ Base(taker)' = Base(taker) /\ Quote(taker)' = Quote(taker)
        /\ a = IF is_ask(taker) THEN Base(taker) ELSE Quote(taker)
    BY <1>5 DEF Base, Quote, FrozenAsset
  <2>5. CASE is_ask(taker)
    <3>1. TakerAvailable(Base(taker)) = v /\ TakerAvailable(Base(taker))' = w
      BY <1>5, <2>4, <2>5 DEF TakerAvailable
    <3>2. v >= taker.remain
      BY <1>2, <1>16, <2>5, <3>1 DEF TakerFunds
    <3> HIDE DEF v, w
    <3> QED BY <1>3, <1>5, <1>8, <1>9, <2>1, <2>2, <2>5, <3>1, <3>2 DEF TakerFunds
  <2>6. CASE ~is_ask(taker)
    <3>1. TakerAvailable(Quote(taker)) = v /\ TakerAvailable(Quote(taker))' = w
      BY <1>5, <2>4, <2>6 DEF TakerAvailable
    <3>2. taker.type = "LIMIT" => w >= (taker.remain - n) * taker.price
      <4> SUFFICES ASSUME taker.type = "LIMIT"
                   PROVE  w >= (taker.remain - n) * taker.price
        OBVIOUS
      <4>1. n \in Nat
        BY <1>16, <1>11 DEF SoundTaker
      <4>2. v >= taker.remain * taker.price
        BY <1>2, <1>16, <2>6, <3>1 DEF TakerFunds
      <4>3. orders[i].price <= taker.price
        BY <1>2, <2>6 DEF Tradable, Crosses
      <4>4. n * orders[i].price <= n * taker.price
        BY <1>8, <4>1, <4>3, Monotone
      <4>5. (taker.remain - n) * taker.price = taker.remain * taker.price - taker.price * n
        BY <1>3, <1>8, Distribute
      <4>6. q <= taker.price * n
        BY <1>3, <1>8, <4>4
      <4>7. taker.remain * taker.price \in Int /\ taker.price * n \in Int
        BY <1>3, <1>8
      <4> HIDE DEF v, w
      <4> QED BY <1>3, <2>1, <2>2, <2>6, <4>2, <4>5, <4>6, <4>7
    <3>3. taker.type = "MARKET" /\ quote_limit >= 0 =>
            w >= quote_limit - quote_sum' /\ quote_sum' <= quote_limit
      <4> SUFFICES ASSUME taker.type = "MARKET", quote_limit >= 0
                   PROVE  w >= quote_limit - quote_sum' /\ quote_sum' <= quote_limit
        OBVIOUS
      <4>1. v >= quote_limit - quote_sum
        BY <1>2, <1>16, <2>6, <3>1 DEF TakerFunds
      <4>2. quote_sum + q <= quote_limit
        BY <1>16, <1>11, <2>6
      <4> HIDE DEF v, w
      <4> QED BY <1>3, <1>4, <1>8, <2>1, <2>2, <2>6, <4>1, <4>2
    <3> HIDE DEF v, w
    <3> QED BY <1>3, <1>4, <1>5, <1>9, <2>6, <3>1, <3>2, <3>3 DEF TakerFunds
  <2> QED BY <2>5, <2>6
<1>17. TakerFunds'
  <2>1. CASE "PRICE" \in faults
    BY <1>4, <2>1 DEF TakerFunds
  <2> QED BY <1>16, <2>1
<1> QED BY <1>1, <1>13, <1>14, <1>15, <1>17

\* Steps that touch neither orders, executions nor balances.
LEMMA FrameBook ==
  ASSUME Book, Shape', UNCHANGED <<balance, orders, execVars, faults>>
  PROVE  Book'
<1> USE DEF Book, execVars
<1>1. OrderArithmetic' /\ PassedFilled' /\ AvailableKept'
  BY DEF OrderArithmetic, AddsUp, Signed, is_ask, PassedFilled, AvailableKept
<1>2. TakerFunds' /\ LimitSound'
  BY DEF TakerFunds, TakerAvailable, LimitSound, is_ask, Base, Quote
<1> QED BY <1>1, <1>2

LEMMA FinishTakerBook ==
  ASSUME Book, Executing, FinishTaker
  PROVE  Book'
<1> USE DEF Book
<1>1. Shape'
  BY FinishTakerShape
<1>2. taker' = NoTaker /\ visited' = {} /\ balance' = balance /\ faults' = faults
  BY DEF FinishTaker, ExecuteDone
<1>3. \A j \in DOMAIN orders' : /\ j \in DOMAIN orders \ Finished
                                /\ orders'[j] = orders[j]
  BY DEF FinishTaker, Without
<1>4. OrderArithmetic'
  BY <1>2, <1>3 DEF OrderArithmetic, AddsUp, Signed, is_ask, Finished
<1>5. PassedFilled' /\ AvailableKept' /\ TakerFunds' /\ LimitSound'
  BY <1>2 DEF PassedFilled, AvailableKept, TakerFunds, LimitSound
<1> QED BY <1>1, <1>4, <1>5

\* The resting order and the ones that are left, after RestTaker.
LEMMA RestTakerOrders ==
  ASSUME Shape, Executing, RestTaker
  PROVE  /\ taker \in Order /\ taker # NoTaker
         /\ taker.id \notin DOMAIN orders
         /\ DOMAIN orders' = (DOMAIN orders \ Finished) \cup {taker.id}
         /\ orders'[taker.id] = Resting(taker)
         /\ \A j \in DOMAIN orders' \ {taker.id} :
              j \in DOMAIN orders \ Finished /\ orders'[j] = orders[j]
<1>1. taker \in Order /\ taker # NoTaker /\ taker.id \notin DOMAIN orders
  BY DEF Shape, TypeOK, BookIndexes, Executing
<1>2. Resting(taker).id = taker.id
  BY <1>1, RestingType
<1> QED BY <1>1, <1>2 DEF RestTaker, Without

LEMMA RestTakerBook ==
  ASSUME Book, Executing, taker.type = "LIMIT", taker.remain # 0, RestTaker
  PROVE  Book'
<1> USE DEF Book
<1> DEFINE o == Resting(taker)
<1>1. Shape'
  BY RestTakerShape
<1>2. taker' = NoTaker /\ visited' = {} /\ faults' = faults
      /\ balance' = frozen(balance, o.user, FrozenAsset(o), o.frozen)
  BY DEF RestTaker, ExecuteDone
<1>3. /\ taker \in Order /\ taker # NoTaker
      /\ taker.id \notin DOMAIN orders
      /\ orders'[taker.id] = o
      /\ \A j \in DOMAIN orders' \ {taker.id} :
           j \in DOMAIN orders \ Finished /\ orders'[j] = orders[j]
  BY RestTakerOrders
<1>4. /\ o \in Order /\ o.market = taker.market /\ o.side = taker.side /\ o.type = taker.type
      /\ o.user = taker.user /\ o.price = taker.price /\ o.amount = taker.amount
      /\ o.remain = taker.remain /\ o.finished_base = taker.finished_base
      /\ o.frozen = IF is_ask(taker) THEN taker.remain ELSE taker.remain * taker.price
  BY <1>3, RestingType
<1>5. FrozenAsset(o) = FrozenAsset(taker) /\ (is_ask(o) <=> is_ask(taker))
  BY <1>4 DEF FrozenAsset, is_ask, Base, Quote
<1> HIDE DEF o
<1>6. OrderArithmetic'
  <2>1. AddsUp(o)
    BY <1>3, <1>4 DEF OrderArithmetic, AddsUp, Signed
  <2>2. /\ PriceSigned(o) /\ o.type = "LIMIT" /\ o.remain # 0
        /\ o.frozen = IF is_ask(o) THEN o.remain ELSE o.remain * o.price
    BY <1>3, <1>4, <1>5 DEF Shape, Priced, PriceSigned
  <2>3. \A j \in DOMAIN orders' \ {taker.id} :
          /\ AddsUp(orders'[j]) /\ orders'[j].type = "LIMIT" /\ PriceSigned(orders'[j])
          /\ orders'[j].frozen = IF is_ask(orders'[j]) THEN orders'[j].remain
                                 ELSE orders'[j].remain * orders'[j].price
          /\ orders'[j].remain # 0
    BY <1>3 DEF OrderArithmetic, PriceSigned, Finished
  <2> QED
    BY <1>2, <1>3, <2>1, <2>2, <2>3 DEF OrderArithmetic, AddsUp, Signed, PriceSigned, is_ask
<1>7. AvailableKept'
  <2> SUFFICES ASSUME "PRICE" \notin faults, NEW u \in Users, NEW a \in Assets
               PROVE  balance'["AVAILABLE"][u][a] >= 0
    BY <1>2 DEF AvailableKept
  <2>1. o.user \in Users /\ FrozenAsset(o) \in Assets /\ o.frozen \in Int
    BY <1>4, AssetTypes DEF Order
  <2>2. balance \in BalanceTable /\ balance["AVAILABLE"][u][a] \in Int
        /\ balance["AVAILABLE"][u][a] >= 0
    BY DEF Shape, TypeOK, BalanceTable, BalanceType, AvailableKept
  <2>3. balance'["AVAILABLE"][u][a] = balance["AVAILABLE"][u][a]
          - (IF u = o.user /\ a = FrozenAsset(o) THEN o.frozen ELSE 0)
    BY <1>2, <2>1, <2>2, FreezeAt
  <2>4. balance["AVAILABLE"][o.user][FrozenAsset(o)] >= o.frozen
    BY <1>3, <1>4, <1>5 DEF TakerFunds, TakerAvailable, FrozenAsset
  <2> QED BY <2>1, <2>2, <2>3, <2>4
<1>8. PassedFilled' /\ TakerFunds' /\ LimitSound'
  BY <1>2 DEF PassedFilled, TakerFunds, LimitSound
<1> QED BY <1>1, <1>6, <1>7, <1>8

LEMMA OrderFinishBook ==
  ASSUME Book, NEW i \in DOMAIN orders, taker = NoTaker, OrderFinish(i),
         cancelling' \subseteq cancelling \ {i}
  PROVE  Book'
<1> USE DEF Book
<1>1. Shape'
  BY OrderFinishShape
<1>2. /\ taker' = NoTaker /\ visited' = visited /\ faults' = faults
      /\ balance' = Unfrozen(balance, orders[i])
  BY DEF OrderFinish, execVars
<1>3. \A j \in DOMAIN orders' : j \in DOMAIN orders /\ orders'[j] = orders[j]
  BY DEF OrderFinish, Without
<1>4. OrderArithmetic'
  BY <1>2, <1>3 DEF OrderArithmetic, AddsUp, Signed, is_ask
<1>5. AvailableKept'
  <2> SUFFICES ASSUME "PRICE" \notin faults, NEW u \in Users, NEW a \in Assets
               PROVE  balance'["AVAILABLE"][u][a] >= 0
    BY <1>2 DEF AvailableKept
  <2>1. /\ orders[i] \in Order /\ orders[i].user \in Users /\ orders[i].frozen \in Int
        /\ orders[i].remain \in Nat /\ orders[i].price \in Nat
    BY DEF Shape, TypeOK, Order, OrderArithmetic, AddsUp, Signed
  <2>2. FrozenAsset(orders[i]) \in Assets
    BY <2>1, AssetTypes
  <2>3. orders[i].frozen >= 0
    <3>1. orders[i].remain * orders[i].price \in Nat
      BY <2>1, ProductNat
    <3> QED BY <2>1, <3>1 DEF OrderArithmetic
  <2>4. balance \in BalanceTable /\ balance["AVAILABLE"][u][a] \in Int
        /\ balance["AVAILABLE"][u][a] >= 0
    BY DEF Shape, TypeOK, BalanceTable, BalanceType, AvailableKept
  <2>5. CASE orders[i].remain = 0
    BY <1>2, <2>4, <2>5 DEF Unfrozen
  <2>6. CASE orders[i].remain # 0
    <3>1. balance'["AVAILABLE"][u][a] = balance["AVAILABLE"][u][a]
            + (IF u = orders[i].user /\ a = FrozenAsset(orders[i])
               THEN orders[i].frozen ELSE 0)
      BY <1>2, <2>1, <2>2, <2>4, <2>6, FreezeAt DEF Unfrozen
    <3> QED BY <2>1, <2>3, <2>4, <3>1
  <2> QED BY <2>5, <2>6
<1>6. PassedFilled' /\ TakerFunds' /\ LimitSound'
  BY <1>2 DEF PassedFilled, TakerFunds, LimitSound
<1> QED BY <1>1, <1>4, <1>5, <1>6

LEMMA UpdateBalanceBook ==
  ASSUME Book, NEW u \in Users, NEW a \in Assets, NEW d \in Deltas, UpdateBalance(u, a, d)
  PROVE  Book'
<1> USE DEF Book
<1> DEFINE c == [type |-> "AVAILABLE", user |-> u, asset |-> a, change |-> d]
<1>1. Shape'
  BY OtherShape
<1>2. /\ taker = NoTaker /\ taker' = NoTaker /\ UNCHANGED <<orders, visited, faults>>
      /\ Covered(balance, c) /\ balance' = Applied(balance, c)
  BY DEF UpdateBalance, Idle, bookVars, execVars
<1>3. c \in Change /\ balance \in BalanceTable
  BY EngineAssumption DEF Change, BalanceType, Shape, TypeOK
<1>4. AvailableKept'
  BY <1>2, <1>3, CoveredKeeps DEF AvailableKept, BalanceType
<1>5. OrderArithmetic' /\ PassedFilled' /\ TakerFunds' /\ LimitSound'
  BY <1>2 DEF OrderArithmetic, AddsUp, Signed, is_ask, PassedFilled, TakerFunds, LimitSound
<1> QED BY <1>1, <1>4, <1>5

LEMMA NextBook == Book /\ [Next]_vars => Book'
<1> SUFFICES ASSUME Book, [Next]_vars PROVE Book'
  OBVIOUS
<1>1. Shape /\ Shape'
  BY NextShape DEF Book
<1>2. CASE \E u \in Users, in \in OrderInputs : OrderPut(u, in)
  BY <1>2, OrderPutBook
<1>3. CASE \E i \in DOMAIN orders : Trade(i)
  BY <1>3, TradeBook
<1>4. CASE \E i \in DOMAIN orders : Panic(i)
  BY <1>1, <1>4, FrameBook DEF Panic, bookVars
<1>5. CASE CancelTaker
  BY <1>5, FinishTakerBook DEF CancelTaker
<1>6. CASE EndTaker
  <2>1. taker.type \in OrderType
    BY <1>1, <1>6 DEF EndTaker, Executing, Shape, TypeOK, Order
  <2> QED BY <1>6, <2>1, FinishTakerBook, RestTakerBook DEF EndTaker, OrderType
<1>7. CASE \E u \in Users, i \in DOMAIN orders : OrderCancel(u, i)
  BY <1>7, OrderFinishBook DEF OrderCancel, Idle
<1>8. CASE \E u \in Users, m \in Markets : OrderCancelAll(u, m)
  BY <1>1, <1>8, FrameBook DEF OrderCancelAll, bookVars
<1>9. CASE \E i \in cancelling : CancelNext(i)
  BY <1>1, <1>9, OrderFinishBook DEF CancelNext, Shape, TypeOK, Phases
<1>10. CASE \E u \in Users, a \in Assets, d \in Deltas : UpdateBalance(u, a, d)
  BY <1>10, UpdateBalanceBook
<1>11. CASE UNCHANGED vars
  BY <1>1, <1>11, FrameBook DEF vars, execVars
<1> QED
  BY <1>2, <1>3, <1>4, <1>5, <1>6, <1>7, <1>8, <1>9, <1>10, <1>11 DEF Next

(***************************************************************************)
(* Book is an invariant: everything below may assume it.                   *)
(***************************************************************************)
THEOREM BookInvariant == Spec => []Book
BY InitBook, NextBook, PTL DEF Spec

(***************************************************************************)
(* execute_order and order_finish keep the books: what an order has left   *)
(* and what it has traded add up, a resting order has frozen exactly what  *)
(* it has left, and no filled order stays behind after its execution.  The *)
(* sums hold for every request the engine accepts; amounts are negative    *)
(* only after a negative price, or a negative quote limit, was accepted.   *)
(***************************************************************************)
THEOREM ArithmeticHolds == Spec => []OrderArithmetic
<1>1. Book => OrderArithmetic
  BY DEF Book
<1> QED BY <1>1, BookInvariant, PTL

(***************************************************************************)
(* The balance checks of put_order are enough for the whole matching loop: *)
(* the taker can pay for everything it may still trade, and a market bid   *)
(* keeps within its quote limit.  The exceptions are the two inputs that   *)
(* no check refuses: a negative price, accepted now or earlier, and this   *)
(* bid's own negative limit.                                               *)
(***************************************************************************)
THEOREM FundsSuffice == Spec => []TakerFunds
<1>1. Book => TakerFunds
  BY DEF Book
<1> QED BY <1>1, BookInvariant, PTL

(***************************************************************************)
(* The book is never crossed.  The step that could cross it is RestTaker:  *)
(* every counter order that is left is behind the one at which the loop    *)
(* stopped, and the loop of a limit order stops only at a price it does    *)
(* not accept.                                                             *)
(***************************************************************************)
LEMMA LoopStopsAtPrice ==
  ASSUME Book, Executing, taker.type = "LIMIT", taker.remain # 0, NothingToTrade,
         NEW j \in CounterOrders(taker.side, taker.market) \ Finished
  PROVE  IF is_ask(taker) THEN taker.price > orders[j].price
                          ELSE orders[j].price > taker.price
<1> USE DEF Book
<1>1. /\ taker # NoTaker /\ taker \in Order
      /\ asks \subseteq DOMAIN orders /\ bids \subseteq DOMAIN orders
  BY DEF Executing, Shape, TypeOK
<1>2. j \in DOMAIN orders /\ j \in Unvisited
  BY <1>1 DEF CounterOrders, Unvisited, PassedFilled, Finished
<1>3. PICK i \in Unvisited : AtMaker(i) /\ (~Crosses(i) \/ Exhausted(i))
  BY <1>2 DEF NothingToTrade
<1>4. /\ i \in DOMAIN orders /\ i \notin visited
      /\ orders[i] \in Order /\ orders[j] \in Order
      /\ i \in (IF taker.side = "ASK" THEN bids ELSE asks)
  BY <1>1, <1>2, <1>3 DEF Unvisited, CounterOrders, Shape, TypeOK
<1>5. /\ orders[i].price \in Int /\ orders[j].price \in Int /\ taker.price \in Int
  BY <1>1, <1>4 DEF Order
<1>6. ~Exhausted(i)
  BY DEF Exhausted, Limited
<1>7. IF is_ask(taker) THEN taker.price > orders[i].price
                       ELSE orders[i].price > taker.price
  BY <1>3, <1>5, <1>6 DEF Crosses
<1>8. is_ask(orders[i]) <=> ~is_ask(taker)
  BY <1>4 DEF Shape, BookIndexes, is_ask
<1>9. i = j \/ KeyBefore(orders[i], orders[j])
  BY <1>2, <1>3 DEF AtMaker
<1>10. IF is_ask(taker) THEN orders[i].price >= orders[j].price
                        ELSE orders[i].price <= orders[j].price
  BY <1>5, <1>8, <1>9 DEF KeyBefore, AskBefore, BidBefore
<1> QED BY <1>5, <1>7, <1>10

LEMMA RestTakerNotCrossed ==
  ASSUME Book, NotCrossed, Executing, NothingToTrade,
         taker.type = "LIMIT", taker.remain # 0, RestTaker
  PROVE  NotCrossed'
<1> USE DEF Book
<1> SUFFICES ASSUME NEW a \in asks', NEW b \in bids',
                    orders'[a].market = orders'[b].market
             PROVE  orders'[a].price > orders'[b].price
  BY DEF NotCrossed
<1> DEFINE o == Resting(taker)
<1>1. /\ taker \in Order /\ taker # NoTaker
      /\ taker.id \notin DOMAIN orders
      /\ orders'[taker.id] = o
      /\ \A j \in DOMAIN orders' \ {taker.id} :
           j \in DOMAIN orders \ Finished /\ orders'[j] = orders[j]
  BY RestTakerOrders
<1>2. o.market = taker.market /\ o.side = taker.side /\ o.price = taker.price
  BY <1>1, RestingType
<1>3. Shape'
  BY RestTakerShape
<1>4. /\ a \in DOMAIN orders' /\ is_ask(orders'[a])
      /\ b \in DOMAIN orders' /\ ~is_ask(orders'[b])
  BY <1>3 DEF Shape, BookIndexes
<1> HIDE DEF o
<1>5. CASE a # taker.id /\ b # taker.id
  <2>1. a \in asks /\ b \in bids /\ orders'[a] = orders[a] /\ orders'[b] = orders[b]
    BY <1>1, <1>4, <1>5 DEF Shape, BookIndexes
  <2> QED BY <2>1 DEF NotCrossed
<1>6. CASE a = taker.id
  <2>1. is_ask(taker) /\ b # taker.id
    BY <1>1, <1>2, <1>4, <1>6 DEF is_ask
  <2>2. b \in bids /\ b \notin Finished /\ orders'[b] = orders[b]
    BY <1>1, <1>4, <2>1 DEF Shape, BookIndexes
  <2>3. b \in CounterOrders(taker.side, taker.market) \ Finished
    BY <1>1, <1>2, <1>6, <2>1, <2>2 DEF CounterOrders, is_ask
  <2>4. taker.price > orders[b].price
    BY <2>1, <2>3, LoopStopsAtPrice
  <2> QED BY <1>1, <1>2, <1>6, <2>2, <2>4
<1>7. CASE b = taker.id
  <2>1. ~is_ask(taker) /\ a # taker.id
    BY <1>1, <1>2, <1>4, <1>7 DEF is_ask
  <2>2. a \in asks /\ a \notin Finished /\ orders'[a] = orders[a]
    BY <1>1, <1>4, <2>1 DEF Shape, BookIndexes
  <2>3. a \in CounterOrders(taker.side, taker.market) \ Finished
    BY <1>1, <1>2, <1>7, <2>1, <2>2 DEF CounterOrders, is_ask
  <2>4. orders[a].price > taker.price
    BY <2>1, <2>3, LoopStopsAtPrice
  <2> QED BY <1>1, <1>2, <1>7, <2>2, <2>4
<1> QED BY <1>5, <1>6, <1>7

LEMMA NextNotCrossed == Book /\ NotCrossed /\ [Next]_vars => NotCrossed'
<1> SUFFICES ASSUME Book, NotCrossed, [Next]_vars PROVE NotCrossed'
  OBVIOUS
<1>1. /\ Shape
      /\ asks \subseteq DOMAIN orders /\ bids \subseteq DOMAIN orders
  BY DEF Book, Shape, TypeOK
<1>2. ASSUME UNCHANGED bookVars PROVE NotCrossed'
  BY <1>2 DEF NotCrossed, bookVars
<1>3. ASSUME asks' \subseteq asks, bids' \subseteq bids,
             \A j \in asks' \cup bids' : orders'[j].market = orders[j].market
                                         /\ orders'[j].price = orders[j].price
      PROVE  NotCrossed'
  BY <1>3 DEF NotCrossed
<1>4. CASE \E u \in Users, in \in OrderInputs : OrderPut(u, in)
  BY <1>2, <1>4 DEF OrderPut
<1>5. ASSUME NEW i \in DOMAIN orders, Trade(i) PROVE NotCrossed'
  <2>1. taker # NoTaker /\ orders' = [orders EXCEPT ![i] = FilledMaker(i)]
        /\ asks' = asks /\ bids' = bids
    BY <1>5 DEF Trade, Tradable, Executing
  <2>2. /\ FilledMaker(i).market = orders[i].market
        /\ FilledMaker(i).price = orders[i].price
    BY <1>1, <2>1, FilledOrders
  <2> QED BY <1>1, <1>3, <2>1, <2>2
<1>6. CASE \E i \in DOMAIN orders : Panic(i)
  BY <1>2, <1>6 DEF Panic
<1>7. ASSUME FinishTaker PROVE NotCrossed'
  <2>1. asks' = asks \ Finished /\ bids' = bids \ Finished /\ orders' = Without(Finished)
    BY <1>7 DEF FinishTaker
  <2>2. \A j \in DOMAIN orders \ Finished : orders'[j] = orders[j]
    BY <2>1 DEF Without
  <2> QED BY <1>1, <1>3, <2>1, <2>2
<1>8. CASE CancelTaker
  BY <1>7, <1>8 DEF CancelTaker
<1>9. CASE EndTaker
  <2>1. taker.type \in OrderType
    BY <1>1, <1>9 DEF EndTaker, Executing, Shape, TypeOK, Order
  <2> QED BY <1>7, <1>9, <2>1, RestTakerNotCrossed DEF EndTaker, OrderType
<1>10. ASSUME NEW i \in DOMAIN orders, OrderFinish(i) PROVE NotCrossed'
  <2>1. asks' = asks \ {i} /\ bids' = bids \ {i} /\ orders' = Without({i})
    BY <1>10 DEF OrderFinish
  <2>2. \A j \in DOMAIN orders \ {i} : orders'[j] = orders[j]
    BY <2>1 DEF Without
  <2> QED BY <1>1, <1>3, <2>1, <2>2
<1>11. CASE \E u \in Users, i \in DOMAIN orders : OrderCancel(u, i)
  BY <1>10, <1>11 DEF OrderCancel
<1>12. CASE \E u \in Users, m \in Markets : OrderCancelAll(u, m)
  BY <1>2, <1>12 DEF OrderCancelAll
<1>13. CASE \E i \in cancelling : CancelNext(i)
  BY <1>1, <1>10, <1>13 DEF CancelNext, Shape, TypeOK
<1>14. CASE \E u \in Users, a \in Assets, d \in Deltas : UpdateBalance(u, a, d)
  BY <1>2, <1>14 DEF UpdateBalance
<1>15. CASE UNCHANGED vars
  BY <1>2, <1>15 DEF vars, bookVars
<1> QED
  BY <1>4, <1>5, <1>6, <1>8, <1>9, <1>11, <1>12, <1>13, <1>14, <1>15 DEF Next

(***************************************************************************)
(* In every market every ask is dearer than every bid, whatever breaks the *)
(* matching loop of execute_order: the price, the balance, a self trade, a *)
(* post-only order or a quote limit.                                       *)
(***************************************************************************)
THEOREM BookNotCrossed == Spec => []NotCrossed
<1>1. Init => NotCrossed
  BY DEF Init, NotCrossed
<1> QED BY <1>1, BookInvariant, NextNotCrossed, PTL DEF Spec

(***************************************************************************)
(* Limit prices.  A fill at the price of a counter order that the taker's  *)
(* limit accepts keeps the taker's average within its limit; the maker     *)
(* trades at its own price.                                                *)
(***************************************************************************)
LEMMA FaultsStay == [Next]_vars => faults \subseteq faults'
BY DEF Next, vars, OrderPut, Trade, Panic, CancelTaker, EndTaker, FinishTaker, RestTaker,
       ExecuteDone, OrderCancel, OrderFinish, OrderCancelAll, CancelNext, UpdateBalance

LEMMA FillKeepsPrice ==
  ASSUME NEW base \in Int, NEW quote \in Int, NEW n \in Int, NEW p \in Int, NEW limit \in Int,
         n \in Nat \/ p = limit
  PROVE  /\ quote >= base * limit /\ limit <= p =>
              quote + p * n >= (base + n) * limit
         /\ quote <= base * limit /\ p <= limit =>
              quote + p * n <= (base + n) * limit
<1>1. (base + n) * limit = base * limit + limit * n
  BY Distribute
<1>2. limit * n = n * limit /\ p * n = n * p
  OBVIOUS
<1>3. limit <= p => n * limit <= n * p
  BY Monotone
<1>4. p <= limit => n * p <= n * limit
  BY Monotone
<1>5. base * limit \in Int /\ n * limit \in Int /\ n * p \in Int
  OBVIOUS
<1> DEFINE x == base * limit
           y == n * limit
           z == n * p
<1> HIDE DEF x, y, z
<1>6. x \in Int /\ y \in Int /\ z \in Int
  BY <1>5 DEF x, y, z
<1>7. (base + n) * limit = x + y /\ p * n = z
  BY <1>1, <1>2 DEF x, y, z
<1>8. (limit <= p => y <= z) /\ (p <= limit => z <= y)
  BY <1>3, <1>4 DEF y, z
<1> QED BY <1>6, <1>7, <1>8 DEF x

LEMMA TradeKeepsPrice ==
  ASSUME Book, LimitRespected, NEW i \in DOMAIN orders, Trade(i)
  PROVE  LimitRespected'
<1> SUFFICES ASSUME "PRICE" \notin faults
             PROVE  LimitRespected'
  BY DEF LimitRespected, Trade
<1>1. /\ Tradable(i) /\ Shape /\ taker' = FilledTaker(i)
      /\ orders' = [orders EXCEPT ![i] = FilledMaker(i)]
  BY DEF Trade, Book
<1>2. /\ taker # NoTaker /\ taker \in Order /\ orders[i] \in Order
      /\ is_ask(orders[i]) <=> ~is_ask(taker)
      /\ TradedBase(i) \in Int /\ TradedQuote(i) = orders[i].price * TradedBase(i)
      /\ taker.type = "LIMIT" => TradedBase(i) \in Nat
  BY <1>1, TradedBounds, SoundTrade DEF SoundTaker
<1> DEFINE n == TradedBase(i)
           p == orders[i].price
<1>3. /\ n \in Int /\ p \in Int /\ taker.price \in Int
      /\ taker.finished_base \in Int /\ taker.finished_quote \in Int
      /\ orders[i].finished_base \in Int /\ orders[i].finished_quote \in Int
  BY <1>2 DEF Order
<1>4. PriceKept(FilledTaker(i))
  <2>1. /\ FilledTaker(i).type = taker.type /\ FilledTaker(i).side = taker.side
        /\ FilledTaker(i).price = taker.price
        /\ FilledTaker(i).finished_base = taker.finished_base + n
        /\ FilledTaker(i).finished_quote = taker.finished_quote + p * n
    BY <1>1, <1>2, FilledOrders
  <2>2. PriceKept(taker)
    BY <1>2 DEF LimitRespected
  <2>3. taker.type = "LIMIT" =>
          n \in Nat /\ IF is_ask(taker) THEN taker.price <= p ELSE p <= taker.price
    BY <1>1, <1>2 DEF Tradable, Crosses
  <2> HIDE DEF n, p
  <2>4. SUFFICES ASSUME taker.type = "LIMIT"
                 PROVE  PriceKept(FilledTaker(i))
    BY <2>1 DEF PriceKept
  <2>5. /\ taker.finished_quote >= taker.finished_base * taker.price /\ taker.price <= p =>
             taker.finished_quote + p * n >= (taker.finished_base + n) * taker.price
        /\ taker.finished_quote <= taker.finished_base * taker.price /\ p <= taker.price =>
             taker.finished_quote + p * n <= (taker.finished_base + n) * taker.price
    BY <1>3, <2>3, <2>4, FillKeepsPrice
  <2> QED BY <2>1, <2>2, <2>3, <2>4, <2>5 DEF PriceKept, is_ask
<1>5. PriceKept(FilledMaker(i))
  <2>1. /\ FilledMaker(i).type = orders[i].type /\ FilledMaker(i).side = orders[i].side
        /\ FilledMaker(i).price = p
        /\ FilledMaker(i).finished_base = orders[i].finished_base + n
        /\ FilledMaker(i).finished_quote = orders[i].finished_quote + p * n
    BY <1>1, <1>2, FilledOrders
  <2>2. PriceKept(orders[i])
    BY DEF LimitRespected
  <2> QED BY <1>3, <2>1, <2>2, FillKeepsPrice DEF PriceKept, is_ask
<1>6. \A j \in DOMAIN orders' : PriceKept(orders'[j])
  BY <1>1, <1>5 DEF LimitRespected
<1> QED BY <1>1, <1>4, <1>6 DEF LimitRespected, PriceKept, is_ask

LEMMA NextKeepsPrice == Book /\ LimitRespected /\ [Next]_vars => LimitRespected'
<1> SUFFICES ASSUME Book, LimitRespected, [Next]_vars PROVE LimitRespected'
  OBVIOUS
<1>1. Shape /\ cancelling \subseteq DOMAIN orders /\ faults \subseteq faults'
  BY FaultsStay DEF Book, Shape, TypeOK
<1>2. ASSUME \A j \in DOMAIN orders' : j \in DOMAIN orders /\ orders'[j] = orders[j],
             taker' = taker \/ taker' = NoTaker
      PROVE  LimitRespected'
  BY <1>1, <1>2 DEF LimitRespected, PriceKept, is_ask
<1>3. CASE \E u \in Users, in \in OrderInputs : OrderPut(u, in)
  <2>1. PICK u \in Users, in \in OrderInputs : OrderPut(u, in)
    BY <1>3
  <2>2. in.price \in Int
    BY EngineAssumption DEF OrderInput
  <2>3. taker' = NewOrder(order_id + 1, u, in) /\ orders' = orders
    BY <2>1 DEF OrderPut, bookVars
  <2>4. taker'.finished_base = 0 /\ taker'.finished_quote = 0 /\ taker'.price = in.price
    BY <2>3 DEF NewOrder
  <2>5. PriceKept(taker)'
    BY <2>2, <2>4 DEF PriceKept
  <2> QED BY <1>1, <2>3, <2>5 DEF LimitRespected, PriceKept, is_ask
<1>4. CASE \E i \in DOMAIN orders : Trade(i)
  BY <1>4, TradeKeepsPrice
<1>5. CASE \E i \in DOMAIN orders : Panic(i)
  BY <1>2, <1>5 DEF Panic, bookVars, execVars
<1>6. ASSUME FinishTaker PROVE LimitRespected'
  BY <1>2, <1>6 DEF FinishTaker, ExecuteDone, Without
<1>7. ASSUME Executing, RestTaker, taker.type = "LIMIT", "PRICE" \notin faults
      PROVE  LimitRespected'
  <2>1. /\ taker \in Order /\ taker # NoTaker /\ orders'[taker.id] = Resting(taker)
        /\ \A j \in DOMAIN orders' \ {taker.id} :
             j \in DOMAIN orders \ Finished /\ orders'[j] = orders[j]
    BY <1>1, <1>7, RestTakerOrders
  <2>2. PriceKept(Resting(taker))
    <3>1. /\ Resting(taker).type = taker.type /\ Resting(taker).side = taker.side
          /\ Resting(taker).price = taker.price
          /\ Resting(taker).finished_base = taker.finished_base
          /\ Resting(taker).finished_quote = taker.finished_quote
      BY <2>1, RestingType
    <3>2. PriceKept(taker)
      BY <1>7, <2>1 DEF LimitRespected
    <3> QED BY <3>1, <3>2 DEF PriceKept, is_ask
  <2>3. taker' = NoTaker
    BY <1>7 DEF RestTaker, ExecuteDone
  <2> QED BY <1>7, <2>1, <2>2, <2>3 DEF LimitRespected, PriceKept, is_ask
<1>8. CASE CancelTaker
  BY <1>6, <1>8 DEF CancelTaker
<1>9. CASE EndTaker
  <2>1. taker.type \in OrderType
    BY <1>1, <1>9 DEF EndTaker, Executing, Shape, TypeOK, Order
  <2>2. CASE "PRICE" \in faults
    BY <1>1, <2>2 DEF LimitRespected
  <2> QED BY <1>6, <1>7, <1>9, <2>1, <2>2 DEF EndTaker, OrderType
<1>10. ASSUME NEW i \in DOMAIN orders, OrderFinish(i) PROVE LimitRespected'
  BY <1>2, <1>10 DEF OrderFinish, Without, execVars
<1>11. CASE \E u \in Users, i \in DOMAIN orders : OrderCancel(u, i)
  BY <1>10, <1>11 DEF OrderCancel
<1>12. CASE \E u \in Users, m \in Markets : OrderCancelAll(u, m)
  BY <1>2, <1>12 DEF OrderCancelAll, bookVars, execVars
<1>13. CASE \E i \in cancelling : CancelNext(i)
  BY <1>1, <1>10, <1>13 DEF CancelNext
<1>14. CASE \E u \in Users, a \in Assets, d \in Deltas : UpdateBalance(u, a, d)
  BY <1>2, <1>14 DEF UpdateBalance, bookVars, execVars
<1>15. CASE UNCHANGED vars
  BY <1>2, <1>15 DEF vars
<1> QED
  BY <1>3, <1>4, <1>5, <1>8, <1>9, <1>11, <1>12, <1>13, <1>14, <1>15 DEF Next

(***************************************************************************)
(* execute_order never trades an order beyond its limit price, however     *)
(* many fills at however many prices make up what it has traded, as long   *)
(* as put_order has accepted no negative price.                            *)
(***************************************************************************)
THEOREM LimitsHold == Spec => []LimitRespected
<1>1. Init => LimitRespected
  BY DEF Init, LimitRespected
<1> QED BY <1>1, BookInvariant, NextKeepsPrice, PTL DEF Spec

(***************************************************************************)
(* Price-time priority.  The strengthening: the loop has walked a prefix   *)
(* of the other side of the book.  While the taker has something left,     *)
(* every order in it is filled; or what is left of a market bid's quote    *)
(* limit, negative or not, is less than one unit at that order's price, so *)
(* it buys nothing at any price behind it either.                          *)
(***************************************************************************)
Walked ==
  taker # NoTaker =>
    /\ visited \subseteq CounterOrders(taker.side, taker.market)
    /\ \A j \in visited, k \in Unvisited : KeyBefore(orders[j], orders[k])

Within(n, p) == n < p /\ -n < p

Spent ==
  taker # NoTaker /\ taker.remain # 0 /\ "PRICE" \notin faults =>
    \A j \in visited :
      \/ orders[j].remain = 0
      \/ /\ ~is_ask(taker) /\ taker.type = "MARKET"
         /\ Within(quote_limit - quote_sum, orders[j].price)

Walk == Book /\ Walked /\ Spent

LEMMA TruncateSmall ==
  ASSUME NEW a \in Int, NEW p \in Nat, Within(a, p)
  PROVE  Truncate(a, p) = 0
<1>1. p > 0
  BY DEF Within
<1>2. CASE a >= 0
  <2>1. Truncate(a, p) \in Nat /\ Truncate(a, p) < 1
    BY <1>1, <1>2, TruncateNat, TruncateLess DEF Within
  <2> QED BY <2>1
<1>3. CASE a < 0
  <2>1. Truncate(a, p) = -((-a) \div p)
    BY <1>1, <1>3 DEF Truncate, Abs
  <2>2. (-a) \div p \in Nat /\ (-a) \div p < 1
    BY <1>1, <1>3, DivFloor, DivLess DEF Within
  <2> QED BY <2>1, <2>2
<1> QED BY <1>2, <1>3

\* Whatever the sign of a limit, less than a unit is left of it.
LEMMA TruncateRest ==
  ASSUME NEW a \in Int, NEW p \in Nat, p > 0
  PROVE  Within(a - p * Truncate(a, p), p)
<1> DEFINE z == p * Truncate(a, p)
<1>1. CASE a >= 0
  <2>1. z \in Int /\ z <= a /\ a - z < p
    BY <1>1, TruncateNat
  <2> HIDE DEF z
  <2>2. Within(a - z, p)
    BY <1>1, <2>1 DEF Within
  <2> QED BY <2>2 DEF z
<1>2. CASE a < 0
  <2>1. z \in Int /\ -a + z < p /\ a <= z
    BY <1>2, TruncateNegative
  <2> HIDE DEF z
  <2>2. Within(a - z, p)
    BY <1>2, <2>1 DEF Within
  <2> QED BY <2>2 DEF z
<1> QED BY <1>1, <1>2

LEMMA ProductAtLeast ==
  ASSUME NEW p \in Nat, NEW n \in Nat, n > 0
  PROVE  p <= p * n
OBVIOUS

\* The orders the loop can meet, and the order in which it does.
LEMMA CounterSide ==
  ASSUME Shape, taker # NoTaker, NEW j \in CounterOrders(taker.side, taker.market)
  PROVE  /\ j \in DOMAIN orders /\ orders[j] \in Order
         /\ orders[j].market = taker.market
         /\ is_ask(orders[j]) <=> ~is_ask(taker)
BY DEF CounterOrders, Shape, TypeOK, BookIndexes, is_ask

(***************************************************************************)
(* A loop that still trades has filled everything it went past.            *)
(***************************************************************************)
LEMMA PassedAreFilled ==
  ASSUME Walk, NEW i \in DOMAIN orders, Tradable(i), NEW j \in visited,
         "PRICE" \notin faults
  PROVE  orders[j].remain = 0
<1> SUFFICES ASSUME orders[j].remain # 0 PROVE FALSE
  OBVIOUS
<1> DEFINE a == quote_limit - quote_sum
           p == orders[i].price
           n == Offered(i)
<1>1. /\ taker # NoTaker /\ taker.remain # 0 /\ i \in Unvisited /\ Shape
      /\ ~Exhausted(i)
  BY DEF Tradable, Executing, AtMaker, Walk, Book
<1>2. /\ ~is_ask(taker) /\ taker.type = "MARKET"
      /\ Within(a, orders[j].price)
  BY <1>1 DEF Walk, Spent
<1>3. /\ j \in CounterOrders(taker.side, taker.market)
      /\ KeyBefore(orders[j], orders[i])
  BY <1>1 DEF Walk, Walked
<1>4. orders[j] \in Order /\ is_ask(orders[j])
  BY <1>1, <1>2, <1>3, CounterSide
<1>5. /\ orders[i] \in Order /\ taker \in Order /\ i \notin visited
      /\ taker.remain \in Nat /\ orders[i].remain \in Nat /\ p \in Nat
  BY TradedBounds, SoundTrade DEF Walk
<1>6. orders[j].price \in Int /\ quote_sum \in Int /\ quote_limit \in Int
      /\ taker.side \in OrderSide
  BY <1>1, <1>4, <1>5 DEF Order, Shape, TypeOK
<1>7. orders[j].price <= p
  BY <1>3, <1>4, <1>5, <1>6 DEF KeyBefore, AskBefore
<1>8. a \in Int /\ Within(a, p)
  BY <1>2, <1>5, <1>6, <1>7 DEF Within
<1>9. n \in Nat /\ n > 0
  <2>1. orders[i].remain # 0
    BY <1>5 DEF Walk, Book, OrderArithmetic
  <2> QED BY <1>1, <1>5, <2>1 DEF Offered
<1>10. p <= p * n /\ p * n \in Int
  BY <1>5, <1>9, ProductAtLeast
<1> HIDE DEF n
<1>11. Limited(i)
  <2>1. taker.side = "BID"
    BY <1>2, <1>6 DEF is_ask, OrderSide
  <2>2. quote_sum + p * n > quote_limit
    BY <1>5, <1>6, <1>8, <1>10 DEF Within
  <2> QED BY <1>2, <2>1, <2>2 DEF Limited, n
<1>12. TradedBase(i) = 0
  BY <1>5, <1>8, <1>11, TruncateSmall DEF TradedBase
<1> QED BY <1>1, <1>11, <1>12 DEF Exhausted

(***************************************************************************)
(* The trade fills the maker or the taker, or it spends the quote limit.   *)
(***************************************************************************)
LEMMA TradeSpends ==
  ASSUME Walk, NEW i \in DOMAIN orders, Tradable(i), "PRICE" \notin faults
  PROVE  \/ TradedBase(i) = taker.remain
         \/ TradedBase(i) = orders[i].remain
         \/ /\ ~is_ask(taker) /\ taker.type = "MARKET"
            /\ Within(quote_limit - (quote_sum + TradedQuote(i)), orders[i].price)
<1>1. CASE Limited(i)
  <2>1. ~is_ask(taker) /\ taker.type = "MARKET"
    BY <1>1 DEF Limited, is_ask
  <2>2. /\ TradedQuote(i) = orders[i].price * TradedBase(i) /\ TradedQuote(i) \in Int
        /\ orders[i].price \in Nat /\ orders[i].price > 0
    BY TradedBounds, SoundTrade DEF Walk
  <2>3. quote_limit \in Int /\ quote_sum \in Int
    BY DEF Walk, Book, Shape, TypeOK
  <2>4. TradedBase(i) = Truncate(quote_limit - quote_sum, orders[i].price)
    BY <1>1 DEF TradedBase
  <2>5. Within(quote_limit - quote_sum - TradedQuote(i), orders[i].price)
    BY <2>2, <2>3, <2>4, TruncateRest
  <2>6. quote_limit - quote_sum - TradedQuote(i) = quote_limit - (quote_sum + TradedQuote(i))
    BY <2>2, <2>3
  <2> QED BY <2>1, <2>5, <2>6
<1>2. CASE ~Limited(i)
  BY <1>2 DEF TradedBase, Offered
<1> QED BY <1>1, <1>2

LEMMA TradeWalk ==
  ASSUME Walk, NEW i \in DOMAIN orders, Trade(i)
  PROVE  Walked' /\ Spent'
<1>1. /\ Tradable(i) /\ Shape /\ Book /\ taker' = FilledTaker(i) /\ visited' = visited \cup {i}
      /\ orders' = [orders EXCEPT ![i] = FilledMaker(i)]
      /\ asks' = asks /\ bids' = bids /\ quote_limit' = quote_limit
      /\ quote_sum' = quote_sum + TradedQuote(i) /\ faults' = faults
  BY DEF Trade, Walk, Book
<1>2. /\ taker # NoTaker /\ i \in Unvisited
      /\ \A j \in Unvisited \ {i} : KeyBefore(orders[i], orders[j])
  BY <1>1 DEF Tradable, Executing, AtMaker
<1>3. /\ taker \in Order /\ orders[i] \in Order
      /\ TradedBase(i) \in Int /\ TradedQuote(i) \in Int
  BY <1>1, TradedBounds
<1>4. /\ FilledTaker(i) \in Order
      /\ FilledTaker(i).side = taker.side /\ FilledTaker(i).market = taker.market
      /\ FilledTaker(i).type = taker.type
      /\ FilledTaker(i).remain = taker.remain - TradedBase(i)
      /\ FilledMaker(i).id = orders[i].id /\ FilledMaker(i).side = orders[i].side
      /\ FilledMaker(i).market = orders[i].market /\ FilledMaker(i).price = orders[i].price
      /\ FilledMaker(i).remain = orders[i].remain - TradedBase(i)
  BY <1>1, <1>2, FilledOrders
<1>5. \A j \in DOMAIN orders :
        /\ orders'[j].id = orders[j].id /\ orders'[j].side = orders[j].side
        /\ orders'[j].market = orders[j].market /\ orders'[j].price = orders[j].price
  BY <1>1, <1>4
<1>6. taker' # NoTaker /\ taker'.side = taker.side /\ taker'.market = taker.market
      /\ taker'.type = taker.type
  BY <1>1, <1>4, EngineAssumption
<1>7. asks \subseteq DOMAIN orders /\ bids \subseteq DOMAIN orders
  BY <1>1 DEF Shape, TypeOK
<1>8. CounterOrders(taker.side, taker.market)' = CounterOrders(taker.side, taker.market)
  BY <1>1, <1>5, <1>6, <1>7 DEF CounterOrders
<1>9. Unvisited' = Unvisited \ {i}
  BY <1>1, <1>8 DEF Unvisited
<1>10. Walked'
  <2>1. visited \subseteq CounterOrders(taker.side, taker.market)
        /\ i \in CounterOrders(taker.side, taker.market)
    BY <1>2 DEF Walk, Walked, Unvisited
  <2>2. visited' \subseteq CounterOrders(taker.side, taker.market)'
    BY <1>1, <1>8, <2>1
  <2>3. ASSUME NEW j \in visited', NEW k \in Unvisited'
        PROVE  KeyBefore(orders'[j], orders'[k])
    <3>1. k \in Unvisited \ {i} /\ k \in DOMAIN orders /\ j \in DOMAIN orders
      BY <1>1, <1>7, <1>9, <2>1 DEF Unvisited, CounterOrders
    <3>2. KeyBefore(orders[j], orders[k])
      BY <1>1, <1>2, <3>1 DEF Walk, Walked
    <3> QED BY <1>5, <3>1, <3>2 DEF KeyBefore, AskBefore, BidBefore, is_ask
  <2> QED BY <2>2, <2>3 DEF Walked, KeyBefore, AskBefore, BidBefore, is_ask
<1>11. Spent'
  <2> SUFFICES ASSUME taker'.remain # 0, NEW j \in visited', orders'[j].remain # 0,
                      "PRICE" \notin faults
               PROVE  /\ ~is_ask(taker') /\ taker'.type = "MARKET"
                      /\ Within(quote_limit' - quote_sum', orders'[j].price)
    BY <1>1 DEF Spent, Within, is_ask
  <2>1. j = i
    <3>1. SUFFICES ASSUME j # i PROVE FALSE
      OBVIOUS
    <3>2. j \in visited /\ orders'[j] = orders[j]
      BY <1>1, <3>1
    <3> QED BY <1>1, <3>2, PassedAreFilled
  <2>2. orders'[i].remain = orders[i].remain - TradedBase(i)
        /\ taker'.remain = taker.remain - TradedBase(i)
    BY <1>1, <1>4
  <2>3. taker.remain \in Int /\ orders[i].remain \in Int
    BY <1>3 DEF Order
  <2>4. TradedBase(i) # taker.remain /\ TradedBase(i) # orders[i].remain
    BY <1>3, <2>1, <2>2, <2>3
  <2>5. /\ ~is_ask(taker) /\ taker.type = "MARKET"
        /\ Within(quote_limit - (quote_sum + TradedQuote(i)), orders[i].price)
    BY <1>1, <2>4, TradeSpends
  <2> QED BY <1>1, <1>5, <1>6, <2>1, <2>5 DEF is_ask
<1> QED BY <1>10, <1>11

LEMMA NextWalk == Walk /\ [Next]_vars => Walk'
<1> SUFFICES ASSUME Walk, [Next]_vars PROVE Walk'
  OBVIOUS
<1>1. Book' /\ Shape /\ faults \subseteq faults'
  BY NextBook, FaultsStay DEF Walk, Book
<1>2. ASSUME taker' = NoTaker \/ visited' = {} PROVE Walk'
  BY <1>1, <1>2 DEF Walk, Walked, Spent
<1>3. ASSUME UNCHANGED <<bookVars, execVars>> PROVE Walk'
  BY <1>1, <1>3 DEF Walk, Walked, Spent, Unvisited, CounterOrders, bookVars, execVars,
                    KeyBefore, AskBefore, BidBefore, Within, is_ask
<1>4. CASE \E u \in Users, in \in OrderInputs : OrderPut(u, in)
  BY <1>2, <1>4 DEF OrderPut
<1>5. CASE \E i \in DOMAIN orders : Trade(i)
  BY <1>1, <1>5, TradeWalk DEF Walk
<1>6. CASE \E i \in DOMAIN orders : Panic(i)
  BY <1>3, <1>6 DEF Panic
<1>7. CASE CancelTaker
  BY <1>2, <1>7 DEF CancelTaker, FinishTaker, ExecuteDone
<1>8. CASE EndTaker
  BY <1>2, <1>8 DEF EndTaker, FinishTaker, RestTaker, ExecuteDone
<1>9. ASSUME NEW i, OrderFinish(i), taker = NoTaker PROVE Walk'
  BY <1>2, <1>9 DEF OrderFinish, execVars
<1>10. CASE \E u \in Users, i \in DOMAIN orders : OrderCancel(u, i)
  BY <1>9, <1>10 DEF OrderCancel, Idle
<1>11. CASE \E u \in Users, m \in Markets : OrderCancelAll(u, m)
  BY <1>3, <1>11 DEF OrderCancelAll
<1>12. CASE \E i \in cancelling : CancelNext(i)
  BY <1>1, <1>9, <1>12 DEF CancelNext, Shape, Phases
<1>13. CASE \E u \in Users, a \in Assets, d \in Deltas : UpdateBalance(u, a, d)
  BY <1>3, <1>13 DEF UpdateBalance
<1>14. CASE UNCHANGED vars
  BY <1>3, <1>14 DEF vars, bookVars, execVars
<1> QED
  BY <1>4, <1>5, <1>6, <1>7, <1>8, <1>10, <1>11, <1>12, <1>13, <1>14 DEF Next

(***************************************************************************)
(* One step keeps the priority: Fair is the action of PriceTimePriority.   *)
(***************************************************************************)
Fair ==
  \A i, j \in DOMAIN orders :
    /\ "PRICE" \notin faults
    /\ orders[i].market = orders[j].market
    /\ orders[i].side = orders[j].side
    /\ Better(orders[i], orders[j])
    /\ j \in DOMAIN orders' /\ orders'[j].remain < orders[j].remain
    => orders[i].remain = 0

LEMMA TradeFair ==
  ASSUME Walk, NEW m \in DOMAIN orders, Trade(m)
  PROVE  Fair
<1> SUFFICES ASSUME NEW i \in DOMAIN orders, NEW j \in DOMAIN orders,
                    "PRICE" \notin faults,
                    orders[i].market = orders[j].market,
                    orders[i].side = orders[j].side,
                    Better(orders[i], orders[j]),
                    orders'[j].remain < orders[j].remain
             PROVE  orders[i].remain = 0
  BY DEF Fair
<1>1. /\ Tradable(m) /\ Shape /\ taker # NoTaker /\ m \in Unvisited
      /\ \A k \in Unvisited \ {m} : KeyBefore(orders[m], orders[k])
      /\ orders' = [orders EXCEPT ![m] = FilledMaker(m)]
  BY DEF Trade, Tradable, Executing, AtMaker, Walk, Book
<1>2. /\ orders[i] \in Order /\ orders[j] \in Order
      /\ orders[i].id = i /\ orders[j].id = j
  BY <1>1 DEF Shape, TypeOK, BookIndexes
<1>3. /\ orders[i].remain \in Int /\ orders[j].remain \in Int
      /\ orders[i].price \in Int /\ orders[j].price \in Int
      /\ i \in Nat /\ j \in Nat
  BY <1>2 DEF Order
<1>4. j = m
  BY <1>1, <1>3
<1>5. i # m
  BY <1>2, <1>3, <1>4 DEF Better
<1>6. m \in CounterOrders(taker.side, taker.market)
  BY <1>1 DEF Unvisited
<1>7. i \in CounterOrders(taker.side, taker.market)
  BY <1>1, <1>4, <1>6 DEF CounterOrders, Shape, BookIndexes, is_ask
<1>8. ~KeyBefore(orders[m], orders[i])
  <2>1. is_ask(orders[i]) <=> is_ask(orders[m])
    BY <1>4 DEF is_ask
  <2> QED BY <1>2, <1>3, <1>4, <2>1 DEF Better, KeyBefore, AskBefore, BidBefore
<1>9. i \in visited
  BY <1>1, <1>5, <1>7, <1>8 DEF Unvisited
<1> QED BY <1>1, <1>9, PassedAreFilled

LEMMA NextFair == Walk /\ [Next]_vars => [Fair]_vars
<1> SUFFICES ASSUME Walk, Next PROVE Fair
  OBVIOUS
<1>1. Shape /\ \A j \in DOMAIN orders : orders[j].remain \in Int
  BY DEF Walk, Book, Shape, TypeOK, Order
<1>2. ASSUME \A j \in DOMAIN orders \cap DOMAIN orders' : orders'[j] = orders[j]
      PROVE  Fair
  BY <1>1, <1>2 DEF Fair
<1>3. CASE \E u \in Users, in \in OrderInputs : OrderPut(u, in)
  BY <1>2, <1>3 DEF OrderPut, bookVars
<1>4. CASE \E i \in DOMAIN orders : Trade(i)
  BY <1>4, TradeFair
<1>5. CASE \E i \in DOMAIN orders : Panic(i)
  BY <1>2, <1>5 DEF Panic, bookVars
<1>6. ASSUME FinishTaker PROVE Fair
  BY <1>2, <1>6 DEF FinishTaker, Without
<1>7. ASSUME Executing, RestTaker PROVE Fair
  <2>1. /\ taker.id \notin DOMAIN orders
        /\ \A j \in DOMAIN orders' \ {taker.id} : orders'[j] = orders[j]
    BY <1>1, <1>7, RestTakerOrders
  <2> QED BY <1>2, <2>1
<1>8. CASE CancelTaker
  BY <1>6, <1>8 DEF CancelTaker
<1>9. CASE EndTaker
  BY <1>6, <1>7, <1>9 DEF EndTaker
<1>10. ASSUME NEW i, OrderFinish(i) PROVE Fair
  BY <1>2, <1>10 DEF OrderFinish, Without
<1>11. CASE \E u \in Users, i \in DOMAIN orders : OrderCancel(u, i)
  BY <1>10, <1>11 DEF OrderCancel
<1>12. CASE \E u \in Users, m \in Markets : OrderCancelAll(u, m)
  BY <1>2, <1>12 DEF OrderCancelAll, bookVars
<1>13. CASE \E i \in cancelling : CancelNext(i)
  BY <1>10, <1>13 DEF CancelNext
<1>14. CASE \E u \in Users, a \in Assets, d \in Deltas : UpdateBalance(u, a, d)
  BY <1>2, <1>14 DEF UpdateBalance, bookVars
<1> QED
  BY <1>3, <1>4, <1>5, <1>8, <1>9, <1>11, <1>12, <1>13, <1>14 DEF Next

(***************************************************************************)
(* Walk is an invariant of the engine.                                     *)
(***************************************************************************)
THEOREM WalkInvariant == Spec => []Walk
<1>1. Init => Walk
  BY InitBook DEF Init, Walk, Walked, Spent
<1> QED BY <1>1, NextWalk, PTL DEF Spec

(***************************************************************************)
(* execute_order fills resting orders in price-time order: none is filled  *)
(* while one with a better price, or as good a price and an earlier id,    *)
(* has something left, also when a quote limit, which may be negative,     *)
(* ends a market bid.  Only a negative price, once accepted, voids it.     *)
(***************************************************************************)
THEOREM PriorityHolds == Spec => PriceTimePriority
<1>1. Walk /\ [Next]_vars => [Fair]_vars
  BY NextFair
<1>2. Spec => [][Fair]_vars
  BY <1>1, WalkInvariant, PTL DEF Spec
<1> QED BY <1>2 DEF PriceTimePriority, Fair

=============================================================================
