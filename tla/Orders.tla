------------------------------- MODULE Orders -------------------------------
(***************************************************************************)
(* The order record (market/order.rs), the keys that sort the two sides of *)
(* an order book, and the arithmetic of one trade.                         *)
(*                                                                         *)
(* Units.  A market is modelled at the tightest precisions Market::new     *)
(* accepts: amount_prec = base_prec and amount_prec + price_prec =         *)
(* quote_prec.  An amount is then an integer of base units, a price an     *)
(* integer of quote units per base unit, and amount * price is exact, as   *)
(* it is in the code.  What the code rounds, it rounds towards zero: the   *)
(* fee, the quote limit and the amount a quote limit still buys.  Fee      *)
(* rates and quote limits come with more digits than a unit has, so both   *)
(* are given in parts of 1 / Scale.                                        *)
(***************************************************************************)
EXTENDS Balances

CONSTANTS Markets,
          Conf,          \* the configuration of each market
          Scale          \* a rate or limit r stands for the number r / Scale

MarketConf == [base : Assets, quote : Assets, min_amount : Nat, fee_prec : Nat]

\* A market trades two different assets.
ASSUME MarketAssumption ==
  /\ Conf \in [Markets -> MarketConf]
  /\ \A m \in Markets : Conf[m].base # Conf[m].quote
  /\ Scale \in Nat \ {0}

OrderSide == {"ASK", "BID"}
OrderType == {"LIMIT", "MARKET"}

(***************************************************************************)
(* What a client asks for.  The numbers are parsed from the request as     *)
(* they come, so each may have either sign and any size.                   *)
(***************************************************************************)
OrderInput ==
  [market : Markets, side : OrderSide, type : OrderType, amount : Int,
   price : Int, quote_limit : Int, taker_fee : Int, maker_fee : Int,
   post_only : BOOLEAN]

Order ==
  [id : Nat, market : Markets, side : OrderSide, type : OrderType,
   user : Users, price : Int, amount : Nat, taker_fee : Int,
   maker_fee : Int, post_only : BOOLEAN, remain : Int, frozen : Int,
   finished_base : Int, finished_quote : Int, finished_fee : Int]

(***************************************************************************)
(* The requests no check of the engine refuses although its arithmetic is  *)
(* not made for them: a negative price, a negative quote limit, a fee of   *)
(* more than all that is traded.                                           *)
(***************************************************************************)
FaultKind == {"PRICE", "LIMIT", "FEE"}

Faults(in) ==
  {k \in FaultKind :
     \/ k = "PRICE" /\ in.price < 0
     \/ k = "LIMIT" /\ in.side = "BID" /\ in.type = "MARKET" /\ in.quote_limit < 0
     \/ k = "FEE" /\ (in.taker_fee > Scale \/ in.maker_fee > Scale)}

NewOrder(n, u, in) ==
  [id |-> n, market |-> in.market, side |-> in.side, type |-> in.type,
   user |-> u, price |-> in.price, amount |-> in.amount,
   taker_fee |-> in.taker_fee, maker_fee |-> in.maker_fee,
   post_only |-> in.post_only, remain |-> in.amount, frozen |-> 0,
   finished_base |-> 0, finished_quote |-> 0, finished_fee |-> 0]

is_ask(o) == o.side = "ASK"

Base(o) == Conf[o.market].base
Quote(o) == Conf[o.market].quote

\* The asset an order ties up while it rests in the book.
FrozenAsset(o) == IF is_ask(o) THEN Base(o) ELSE Quote(o)

\* Mutant: the price comparison of bids is not reversed.
BidBefore_NotReversed(o, p) ==
  o.price < p.price \/ (o.price = p.price /\ o.id < p.id)

(***************************************************************************)
(* Book order: MarketKeyAsk sorts by price then id, MarketKeyBid by        *)
(* descending price then id.                                               *)
(***************************************************************************)
AskBefore(o, p) == o.price < p.price \/ (o.price = p.price /\ o.id < p.id)

BidBefore(o, p) == o.price > p.price \/ (o.price = p.price /\ o.id < p.id)

KeyBefore(o, p) == IF is_ask(o) THEN AskBefore(o, p) ELSE BidBefore(o, p)

\* RoundingStrategy::ToZero, for a divisor of either sign.
Abs(n) == IF n < 0 THEN -n ELSE n

Truncate(n, d) ==
  IF (n < 0) = (d < 0) THEN Abs(n) \div Abs(d) ELSE -(Abs(n) \div Abs(d))

(***************************************************************************)
(* The effect of one fill on an order, the fee the fill costs, and what of *)
(* the traded amount is received: a negative fee is recorded, not paid.    *)
(***************************************************************************)
Fee(amount, rate) == Truncate(amount * rate, Scale)

Charged(fee) == IF fee < 0 THEN 0 ELSE fee

Fill(o, base, quote, fee) ==
  [o EXCEPT !.remain = @ - base, !.finished_base = @ + base,
            !.finished_quote = @ + quote, !.finished_fee = @ + fee]

\* Mutant: what was traded on the way in is frozen too.
Resting_Amount(o) ==
  [o EXCEPT !.frozen = IF is_ask(o) THEN o.amount ELSE o.amount * o.price]

\* insert_order_into_orderbook sets what the resting order will tie up.
Resting(o) ==
  [o EXCEPT !.frozen = IF is_ask(o) THEN o.remain ELSE o.remain * o.price]

=============================================================================
