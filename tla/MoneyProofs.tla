----------------------------- MODULE MoneyProofs -----------------------------
(***************************************************************************)
(* The money is right: what is frozen is what the open orders tie up, no   *)
(* balance is negative, a refused balance update that ends the engine has  *)
(* one of few causes, and every step is a step of the ledger.  On the way: *)
(* nobody has more open orders than allowed, and the messages tell the     *)
(* story of the book.                                                      *)
(***************************************************************************)
EXTENDS BookProofs, MarketLedger, SequenceFacts

(***************************************************************************)
(* Running sums.  s is the function that FrozenSum defines by recursion,   *)
(* over the summands f.                                                    *)
(***************************************************************************)
RunningSum(s, f, N) ==
  /\ s \in [0..N -> Int]
  /\ s[0] = 0
  /\ \A n \in 1..N : s[n] = s[n - 1] + f[n]

LEMMA RunningSumExists ==
  ASSUME NEW f \in [Nat -> Int], NEW N \in Nat
  PROVE  \E s : RunningSum(s, f, N)
<1> DEFINE S == {n \in Nat : \E s : RunningSum(s, f, n)}
<1>1. 0 \in S
  <2>1. RunningSum([n \in 0..0 |-> 0], f, 0)
    BY DEF RunningSum
  <2> QED BY <2>1
<1>2. ASSUME NEW n \in Nat, n \in S PROVE n + 1 \in S
  <2>1. PICK s : RunningSum(s, f, n)
    BY <1>2
  <2> DEFINE t == [m \in 0..n + 1 |-> IF m = n + 1 THEN s[n] + f[n + 1] ELSE s[m]]
  <2>2. \A m \in 0..n : s[m] \in Int
    BY <2>1 DEF RunningSum
  <2>3. n + 1 \in Nat /\ f[n + 1] \in Int /\ s[n] \in Int
    BY <2>2
  <2>4. s[n] + f[n + 1] \in Int
    BY <2>3
  <2>5. ASSUME NEW m \in 0..n + 1 PROVE t[m] \in Int
    <3>1. m \in 0..n \/ m = n + 1
      OBVIOUS
    <3> QED BY <2>2, <2>4, <3>1
  <2>6. t \in [0..n + 1 -> Int]
    BY <2>5
  <2>7. t[0] = 0
    <3>1. 0 \in 0..n + 1 /\ 0 # n + 1
      OBVIOUS
    <3> QED BY <2>1, <3>1 DEF RunningSum
  <2>8. ASSUME NEW m \in 1..n + 1 PROVE t[m] = t[m - 1] + f[m]
    <3>1. CASE m = n + 1
      <4>1. m - 1 = n /\ n \in 0..n + 1 /\ n # n + 1
        BY <3>1
      <4> QED BY <3>1, <4>1
    <3>2. CASE m # n + 1
      <4>1. m \in 1..n /\ m - 1 \in 0..n + 1 /\ m - 1 # n + 1 /\ m \in 0..n + 1
        BY <3>2
      <4> QED BY <2>1, <3>2, <4>1 DEF RunningSum
    <3> QED BY <3>1, <3>2
  <2>9. RunningSum(t, f, n + 1)
    <3> HIDE DEF t
    <3> QED BY <2>6, <2>7, <2>8 DEF RunningSum
  <2> QED BY <2>3, <2>9
<1>3. Nat \subseteq S
  <2> HIDE DEF S
  <2> QED BY <1>1, <1>2, SetInduction
<1> QED BY <1>3

(***************************************************************************)
(* A running sum moves with the one summand that changes, and is at least  *)
(* any of its summands when none is negative.                              *)
(***************************************************************************)
OneMoves(f, g, N, k, d) == \A n \in 1..N : g[n] = f[n] + (IF n = k THEN d ELSE 0)

LEMMA SumMoves ==
  ASSUME NEW f \in [Nat -> Int], NEW g \in [Nat -> Int], NEW N \in Nat, NEW M \in Nat, N <= M,
         NEW s, RunningSum(s, f, N), NEW t, RunningSum(t, g, M),
         NEW k \in Nat, NEW d \in Int, OneMoves(f, g, N, k, d)
  PROVE  \A n \in 0..N : t[n] = s[n] + (IF k \in 1..n THEN d ELSE 0)
<1> DEFINE P(n) == n \in 0..N => t[n] = s[n] + (IF k \in 1..n THEN d ELSE 0)
           S == {n \in Nat : P(n)}
<1>1. 0 \in S
  BY DEF RunningSum
<1>2. ASSUME NEW n \in Nat, n \in S PROVE n + 1 \in S
  <2> SUFFICES ASSUME n + 1 \in 0..N
               PROVE  t[n + 1] = s[n + 1] + (IF k \in 1..n + 1 THEN d ELSE 0)
    OBVIOUS
  <2>1. n \in 0..N /\ n + 1 \in 1..N /\ n + 1 \in 1..M /\ (n + 1) - 1 = n /\ n \in 0..M
    OBVIOUS
  <2>2. t[n] = s[n] + (IF k \in 1..n THEN d ELSE 0)
    BY <1>2, <2>1
  <2>3. t[n + 1] = t[n] + g[n + 1] /\ s[n + 1] = s[n] + f[n + 1]
    BY <2>1 DEF RunningSum
  <2>4. g[n + 1] = f[n + 1] + (IF n + 1 = k THEN d ELSE 0)
    BY <2>1 DEF OneMoves
  <2>5. s[n] \in Int /\ t[n] \in Int /\ f[n + 1] \in Int /\ g[n + 1] \in Int
    <3>1. s \in [0..N -> Int] /\ t \in [0..M -> Int]
      BY DEF RunningSum
    <3>2. n + 1 \in Nat
      OBVIOUS
    <3> QED BY <2>1, <3>1, <3>2
  <2>6. k \in 1..n + 1 <=> (k \in 1..n \/ k = n + 1)
    OBVIOUS
  <2>7. ~(k \in 1..n /\ k = n + 1)
    OBVIOUS
  <2> HIDE DEF P, S
  <2>8. CASE k = n + 1
    BY <2>2, <2>3, <2>4, <2>5, <2>6, <2>7, <2>8
  <2>9. CASE k # n + 1
    BY <2>2, <2>3, <2>4, <2>5, <2>6, <2>9
  <2> QED BY <2>8, <2>9
<1>3. Nat \subseteq S
  <2> HIDE DEF S
  <2> QED BY <1>1, <1>2, SetInduction
<1> QED BY <1>3

LEMMA SumMovesBy ==
  ASSUME NEW f \in [Nat -> Int], NEW g \in [Nat -> Int], NEW N \in Nat,
         NEW s, RunningSum(s, f, N), NEW t, RunningSum(t, g, N),
         NEW k \in 1..N, NEW d \in Int, OneMoves(f, g, N, k, d)
  PROVE  t[N] = s[N] + d
<1>1. N <= N /\ N \in 0..N /\ k \in Nat
  OBVIOUS
<1>2. \A n \in 0..N : t[n] = s[n] + (IF k \in 1..n THEN d ELSE 0)
  BY <1>1, SumMoves
<1> QED BY <1>1, <1>2

LEMMA SumBounds ==
  ASSUME NEW f \in [Nat -> Int], NEW N \in Nat, NEW s, RunningSum(s, f, N),
         \A n \in 1..N : f[n] >= 0
  PROVE  \A n \in 0..N : s[n] >= 0 /\ \A k \in 1..n : s[n] >= f[k]
<1> DEFINE P(n) == n \in 0..N => s[n] >= 0 /\ \A k \in 1..n : s[n] >= f[k]
           S == {n \in Nat : P(n)}
<1>1. 0 \in S
  BY DEF RunningSum
<1>2. ASSUME NEW n \in Nat, n \in S PROVE n + 1 \in S
  <2> SUFFICES ASSUME n + 1 \in 0..N
               PROVE  s[n + 1] >= 0 /\ \A k \in 1..n + 1 : s[n + 1] >= f[k]
    OBVIOUS
  <2>1. n \in 0..N /\ n + 1 \in 1..N /\ (n + 1) - 1 = n
    OBVIOUS
  <2>2. s[n] >= 0 /\ \A k \in 1..n : s[n] >= f[k]
    BY <1>2, <2>1
  <2>3. s[n + 1] = s[n] + f[n + 1] /\ f[n + 1] >= 0
    BY <2>1 DEF RunningSum
  <2>4. s[n] \in Int /\ \A k \in 1..n + 1 : f[k] \in Int
    BY <2>1 DEF RunningSum
  <2>5. n + 1 \in 1..n + 1
    OBVIOUS
  <2> HIDE DEF P, S
  <2>6. s[n + 1] >= s[n] /\ s[n + 1] >= f[n + 1] /\ s[n + 1] >= 0
    BY <2>2, <2>3, <2>4, <2>5
  <2>7. s[n + 1] \in Int
    BY <2>3, <2>4, <2>5
  <2>8. ASSUME NEW k \in 1..n + 1 PROVE s[n + 1] >= f[k]
    <3>1. k \in 1..n \/ k = n + 1
      OBVIOUS
    <3>2. f[k] \in Int
      BY <2>4
    <3> QED BY <2>2, <2>4, <2>6, <2>7, <3>1, <3>2
  <2> QED BY <2>6, <2>8
<1>3. Nat \subseteq S
  <2> HIDE DEF S
  <2> QED BY <1>1, <1>2, SetInduction
<1> QED BY <1>3

(***************************************************************************)
(* FrozenSum is the last of the running sums of what the orders tie up.    *)
(***************************************************************************)
Summands(u, a) == [n \in Nat |-> FrozenOf(n, u, a)]

LEMMA SummandType ==
  ASSUME TypeOK, NEW u \in Users, NEW a \in Assets
  PROVE  Summands(u, a) \in [Nat -> Int]
BY DEF TypeOK, Order, FrozenOf, Summands

LEMMA FrozenSumIsSum ==
  ASSUME TypeOK, NEW u \in Users, NEW a \in Assets
  PROVE  \E s : RunningSum(s, Summands(u, a), order_id) /\ FrozenSum(u, a) = s[order_id]
<1> DEFINE f == Summands(u, a)
           N == order_id
           Solves(s) == s = [n \in 0..N |-> IF n = 0 THEN 0 ELSE s[n - 1] + FrozenOf(n, u, a)]
<1>1. f \in [Nat -> Int] /\ N \in Nat
  BY SummandType DEF TypeOK
<1>2. PICK r : RunningSum(r, f, N)
  BY <1>1, RunningSumExists
<1>3. \A n \in 1..N : f[n] = FrozenOf(n, u, a)
  BY DEF Summands
<1>4. Solves(r)
  <2>1. r = [n \in 0..N |-> r[n]]
    BY <1>2 DEF RunningSum
  <2>2. ASSUME NEW n \in 0..N
        PROVE  r[n] = IF n = 0 THEN 0 ELSE r[n - 1] + FrozenOf(n, u, a)
    <3>1. n = 0 \/ n \in 1..N
      OBVIOUS
    <3> QED BY <1>2, <1>3, <3>1 DEF RunningSum
  <2> HIDE DEF f, N
  <2> QED BY <2>1, <2>2
<1> DEFINE s == CHOOSE x : Solves(x)
<1>5. Solves(s)
  <2> HIDE DEF Solves
  <2> QED BY <1>4
<1>6. FrozenSum(u, a) = s[N]
  BY DEF FrozenSum
<1> DEFINE S == {n \in Nat : n \in 0..N => s[n] = r[n]}
<1>7. \A n \in 0..N : s[n] = IF n = 0 THEN 0 ELSE s[n - 1] + FrozenOf(n, u, a)
  <2> HIDE DEF s, N
  <2> QED BY <1>5
<1> HIDE DEF s, f
<1>8. 0 \in S
  BY <1>1, <1>2, <1>7 DEF RunningSum
<1>9. ASSUME NEW n \in Nat, n \in S PROVE n + 1 \in S
  <2> SUFFICES ASSUME n + 1 \in 0..N PROVE s[n + 1] = r[n + 1]
    OBVIOUS
  <2>1. n \in 0..N /\ n + 1 \in 1..N /\ (n + 1) - 1 = n /\ n + 1 # 0
    BY <1>1
  <2>2. s[n + 1] = s[n] + FrozenOf(n + 1, u, a)
    BY <1>7, <2>1
  <2>3. r[n + 1] = r[n] + FrozenOf(n + 1, u, a)
    BY <1>2, <1>3, <2>1 DEF RunningSum
  <2> QED BY <1>9, <2>1, <2>2, <2>3
<1>10. Nat \subseteq S
  <2> HIDE DEF S
  <2> QED BY <1>8, <1>9, SetInduction
<1>11. \A n \in 0..N : s[n] = r[n]
  BY <1>1, <1>10
<1>12. FrozenSum(u, a) = r[N]
  BY <1>1, <1>6, <1>11
<1> QED BY <1>2, <1>12 DEF f

HasRunningSums ==
  \A u \in Users, a \in Assets :
    \E s : RunningSum(s, Summands(u, a), order_id) /\ FrozenSum(u, a) = s[order_id]

LEMMA FrozenSums == TypeOK => HasRunningSums
BY FrozenSumIsSum DEF HasRunningSums

LEMMA NextFrozenSums == TypeOK' => HasRunningSums'
BY FrozenSums, PTL

\* Order k ties up d more than before.
LEMMA FrozenSumMoves ==
  ASSUME TypeOK, TypeOK', order_id' = order_id, NEW u \in Users, NEW a \in Assets,
         NEW k \in 1..order_id, NEW d \in Int,
         \A n \in 1..order_id :
           FrozenOf(n, u, a)' = FrozenOf(n, u, a) + (IF n = k THEN d ELSE 0)
  PROVE  FrozenSum(u, a)' = FrozenSum(u, a) + d
<1> DEFINE f == Summands(u, a)
           g == Summands(u, a)'
           N == order_id
<1>1. N \in Nat /\ N <= N /\ k \in Nat /\ N \in 0..N /\ k \in 1..N
  BY DEF TypeOK
<1>2. PICK s : RunningSum(s, f, N) /\ FrozenSum(u, a) = s[N]
  BY FrozenSumIsSum
<1>3. PICK t : RunningSum(t, g, N) /\ FrozenSum(u, a)' = t[N]
  BY NextFrozenSums DEF HasRunningSums
<1>4. f \in [Nat -> Int]
  BY SummandType
<1>5. g \in [Nat -> Int]
  BY DEF TypeOK, Order, FrozenOf, Summands
<1>6. OneMoves(f, g, N, k, d)
  BY DEF Summands, OneMoves
<1> HIDE DEF f, g, N
<1>7. t[N] = s[N] + d
  BY <1>1, <1>2, <1>3, <1>4, <1>5, <1>6, SumMovesBy
<1> QED BY <1>2, <1>3, <1>7

\* A new order ties up nothing yet.
LEMMA FrozenSumExtends ==
  ASSUME TypeOK, TypeOK', order_id' = order_id + 1, NEW u \in Users, NEW a \in Assets,
         orders' = orders
  PROVE  FrozenSum(u, a)' = FrozenSum(u, a)
<1> DEFINE f == Summands(u, a)
           N == order_id
<1>1. N \in Nat /\ N + 1 \in Nat /\ N <= N + 1 /\ N \in 0..N /\ 0 \notin 1..N
  BY DEF TypeOK
<1>2. PICK s : RunningSum(s, f, N) /\ FrozenSum(u, a) = s[N]
  BY FrozenSumIsSum
<1>3. Summands(u, a)' = f
  BY DEF Summands, FrozenOf
<1>4. PICK t : RunningSum(t, f, N + 1) /\ FrozenSum(u, a)' = t[N + 1]
  BY <1>3, NextFrozenSums DEF HasRunningSums
<1>5. f \in [Nat -> Int]
  BY SummandType
<1>6. f[N + 1] = 0
  BY <1>1 DEF Summands, FrozenOf, TypeOK
<1> HIDE DEF f, N
<1>7. OneMoves(f, f, N, 0, 0)
  BY <1>1, <1>5 DEF OneMoves
<1>8. t[N] = s[N] + (IF 0 \in 1..N THEN 0 ELSE 0)
  <2>1. 0 \in Nat /\ 0 \in Int
    OBVIOUS
  <2>2. \A n \in 0..N : t[n] = s[n] + (IF 0 \in 1..n THEN 0 ELSE 0)
    BY <1>1, <1>2, <1>4, <1>5, <1>7, <2>1, SumMoves
  <2> QED BY <1>1, <2>2
<1>9. t[N + 1] = t[N] + f[N + 1] /\ s[N] \in Int
  <2>1. N + 1 \in 1..N + 1 /\ (N + 1) - 1 = N
    BY <1>1
  <2> QED BY <1>1, <1>2, <1>4, <2>1 DEF RunningSum
<1> QED BY <1>1, <1>2, <1>4, <1>6, <1>8, <1>9

\* What one order ties up is part of what is frozen.
LEMMA FrozenSumBounds ==
  ASSUME TypeOK, NEW u \in Users, NEW a \in Assets,
         \A n \in 1..order_id : FrozenOf(n, u, a) >= 0
  PROVE  /\ FrozenSum(u, a) >= 0 /\ FrozenSum(u, a) \in Int
         /\ \A n \in DOMAIN orders : FrozenSum(u, a) >= FrozenOf(n, u, a)
<1> DEFINE f == Summands(u, a)
           N == order_id
<1>1. N \in Nat /\ N \in 0..N /\ DOMAIN orders \subseteq 1..N
  BY DEF TypeOK
<1>2. PICK s : RunningSum(s, f, N) /\ FrozenSum(u, a) = s[N]
  BY FrozenSumIsSum
<1>3. f \in [Nat -> Int]
  BY SummandType
<1>4. \A n \in 1..N : f[n] = FrozenOf(n, u, a) /\ f[n] >= 0
  BY DEF Summands
<1> HIDE DEF f, N
<1>5. s[N] >= 0 /\ \A k \in 1..N : s[N] >= f[k]
  BY <1>1, <1>2, <1>3, <1>4, SumBounds
<1>6. s[N] \in Int
  BY <1>1, <1>2 DEF RunningSum
<1> QED BY <1>1, <1>2, <1>4, <1>5, <1>6

(***************************************************************************)
(* What is frozen moves with what one order ties up.                       *)
(***************************************************************************)
FrozenMoves(k, v, b, d) ==
  \A u \in Users, a \in Assets :
    /\ balance'["FREEZE"][u][a] =
         balance["FREEZE"][u][a] + (IF u = v /\ a = b THEN d ELSE 0)
    /\ \A n \in 1..order_id :
         FrozenOf(n, u, a)' =
           FrozenOf(n, u, a) + (IF n = k /\ u = v /\ a = b THEN d ELSE 0)

LEMMA MovesKeep ==
  ASSUME TypeOK, TypeOK', FrozenMatchesOrders, order_id' = order_id,
         NEW k \in 1..order_id, NEW v, NEW b, NEW d \in Int, FrozenMoves(k, v, b, d)
  PROVE  FrozenMatchesOrders'
<1> SUFFICES ASSUME NEW u \in Users, NEW a \in Assets
             PROVE  balance'["FREEZE"][u][a] = FrozenSum(u, a)'
  BY DEF FrozenMatchesOrders
<1> DEFINE e == IF u = v /\ a = b THEN d ELSE 0
<1>1. e \in Int
  OBVIOUS
<1>2. balance'["FREEZE"][u][a] = balance["FREEZE"][u][a] + e
  BY DEF FrozenMoves
<1>3. ASSUME NEW n \in 1..order_id
      PROVE  FrozenOf(n, u, a)' = FrozenOf(n, u, a) + (IF n = k THEN e ELSE 0)
  BY DEF FrozenMoves
<1> HIDE DEF e
<1>4. FrozenSum(u, a)' = FrozenSum(u, a) + e
  BY <1>1, <1>3, FrozenSumMoves
<1> QED BY <1>2, <1>4 DEF FrozenMatchesOrders

LEMMA FrameFrozen ==
  ASSUME FrozenMatchesOrders, UNCHANGED <<orders, order_id>>,
         \A u \in Users, a \in Assets : balance'["FREEZE"][u][a] = balance["FREEZE"][u][a]
  PROVE  FrozenMatchesOrders'
<1>1. \A u \in Users, a \in Assets : FrozenSum(u, a)' = FrozenSum(u, a)
  BY DEF FrozenSum, FrozenOf
<1> QED BY <1>1 DEF FrozenMatchesOrders

LEMMA InitFrozen == Init => FrozenMatchesOrders
<1> SUFFICES ASSUME Init, NEW u \in Users, NEW a \in Assets
             PROVE  balance["FREEZE"][u][a] = FrozenSum(u, a)
  BY DEF FrozenMatchesOrders
<1>1. TypeOK /\ order_id = 0
  BY InitShape DEF Shape, Init
<1>2. FrozenSum(u, a) = 0
  BY <1>1, FrozenSumIsSum DEF RunningSum
<1> QED BY <1>2 DEF Init, BalanceType

LEMMA OrderPutFrozen ==
  ASSUME Shape, FrozenMatchesOrders, NEW u \in Users, NEW in \in OrderInputs, OrderPut(u, in)
  PROVE  FrozenMatchesOrders'
<1>1. TypeOK /\ TypeOK'
  BY OrderPutShape DEF Shape
<1>2. orders' = orders /\ order_id' = order_id + 1 /\ balance' = balance
  BY DEF OrderPut, bookVars
<1>3. \A v \in Users, a \in Assets : FrozenSum(v, a)' = FrozenSum(v, a)
  BY <1>1, <1>2, FrozenSumExtends
<1> QED BY <1>2, <1>3 DEF FrozenMatchesOrders

\* A trade takes from the frozen balance of the maker what the maker ties up less.
LEMMA TradeFrozenAt ==
  ASSUME Shape, NEW i \in DOMAIN orders, taker # NoTaker,
         is_ask(orders[i]) <=> ~is_ask(taker), orders[i].market = taker.market,
         NEW u \in Users, NEW a \in Assets
  PROVE  AfterTrade(i)["FREEZE"][u][a] =
           balance["FREEZE"][u][a]
             + (IF u = orders[i].user /\ a = FrozenAsset(orders[i])
                THEN -(IF is_ask(taker) THEN TradedQuote(i) ELSE TradedBase(i)) ELSE 0)
<1> DEFINE h(c) == Hit(c, "FREEZE", u, a)
<1>1. TradedBase(i) \in Int /\ TradedQuote(i) \in Int
  BY TradeNumbers
<1>2. balance["FREEZE"][u][a] \in Int
  BY DEF Shape, TypeOK, BalanceTable, BalanceType
<1>3. AfterTrade(i)["FREEZE"][u][a] =
        balance["FREEZE"][u][a] + h(BidGets(i)) + h(AskPays(i))
                                + h(AskGets(i)) + h(BidPays(i))
  BY TradeAt DEF BalanceType
<1>4. h(BidGets(i)) = 0 /\ h(AskGets(i)) = 0
  BY DEF Hit, BidGets, AskGets
<1>5. CASE is_ask(taker)
  <2>1. FrozenAsset(orders[i]) = Quote(taker)
    BY <1>5 DEF FrozenAsset, Quote
  <2>2. h(AskPays(i)) = 0
    BY <1>5 DEF Hit, AskPays
  <2>3. h(BidPays(i)) = IF u = orders[i].user /\ a = FrozenAsset(orders[i])
                        THEN -TradedQuote(i) ELSE 0
    BY <1>5, <2>1 DEF Hit, BidPays, BidOrder
  <2> HIDE DEF h
  <2> QED BY <1>1, <1>2, <1>3, <1>4, <1>5, <2>2, <2>3
<1>6. CASE ~is_ask(taker)
  <2>1. FrozenAsset(orders[i]) = Base(taker)
    BY <1>6 DEF FrozenAsset, Base
  <2>2. h(BidPays(i)) = 0
    BY <1>6 DEF Hit, BidPays
  <2>3. h(AskPays(i)) = IF u = orders[i].user /\ a = FrozenAsset(orders[i])
                        THEN -TradedBase(i) ELSE 0
    BY <1>6, <2>1 DEF Hit, AskPays, AskOrder
  <2> HIDE DEF h
  <2> QED BY <1>1, <1>2, <1>3, <1>4, <1>6, <2>2, <2>3
<1> QED BY <1>5, <1>6

LEMMA TradeFrozen ==
  ASSUME Book, FrozenMatchesOrders, NEW i \in DOMAIN orders, Trade(i)
  PROVE  FrozenMatchesOrders'
<1> DEFINE d == -(IF is_ask(taker) THEN TradedQuote(i) ELSE TradedBase(i))
           v == orders[i].user
           b == FrozenAsset(orders[i])
<1>1. TypeOK /\ TypeOK' /\ Shape /\ Tradable(i) /\ i \in 1..order_id
  BY TradeShape DEF Book, Shape, TypeOK, Trade
<1>2. /\ taker # NoTaker /\ orders[i] \in Order
      /\ (is_ask(orders[i]) <=> ~is_ask(taker)) /\ orders[i].market = taker.market
      /\ TradedBase(i) \in Int /\ TradedQuote(i) \in Int
  BY <1>1, TradedBounds
<1>3. d \in Int
  BY <1>2
<1>4. /\ orders' = [orders EXCEPT ![i] = FilledMaker(i)] /\ balance' = AfterTrade(i)
      /\ order_id' = order_id
  BY DEF Trade
<1>5. /\ FilledMaker(i).user = v /\ FilledMaker(i).side = orders[i].side
      /\ FilledMaker(i).market = orders[i].market
      /\ FilledMaker(i).frozen = orders[i].frozen + d
  <2>1. orders[i].frozen \in Int
    BY <1>2 DEF Order
  <2>2. FilledMaker(i).frozen =
          orders[i].frozen - IF is_ask(taker) THEN TradedQuote(i) ELSE TradedBase(i)
    BY <1>1, <1>2, FilledOrders
  <2> QED BY <1>1, <1>2, <2>1, <2>2, FilledOrders
<1>6. FrozenAsset(FilledMaker(i)) = b
  BY <1>5 DEF FrozenAsset, is_ask, Base, Quote
<1>7. ASSUME NEW u \in Users, NEW a \in Assets
      PROVE  balance'["FREEZE"][u][a] =
               balance["FREEZE"][u][a] + (IF u = v /\ a = b THEN d ELSE 0)
  BY <1>1, <1>2, <1>4, TradeFrozenAt
<1> HIDE DEF d, b
<1>8. ASSUME NEW u \in Users, NEW a \in Assets, NEW n \in 1..order_id
      PROVE  FrozenOf(n, u, a)' =
               FrozenOf(n, u, a) + (IF n = i /\ u = v /\ a = b THEN d ELSE 0)
  <2>1. CASE n = i
    <3>1. orders'[i] = FilledMaker(i) /\ i \in DOMAIN orders'
      BY <1>4
    <3>2. FrozenOf(i, u, a)' = IF u = v /\ a = b THEN orders[i].frozen + d ELSE 0
      BY <1>5, <1>6, <3>1 DEF FrozenOf
    <3>3. FrozenOf(i, u, a) = IF u = v /\ a = b THEN orders[i].frozen ELSE 0
      BY DEF FrozenOf, b
    <3> QED BY <2>1, <3>2, <3>3
  <2>2. CASE n # i
    <3>1. n \in DOMAIN orders' <=> n \in DOMAIN orders
      BY <1>4
    <3>2. n \in DOMAIN orders => orders'[n] = orders[n]
      BY <1>4, <2>2
    <3>3. FrozenOf(n, u, a)' = FrozenOf(n, u, a)
      BY <3>1, <3>2 DEF FrozenOf, FrozenAsset, is_ask, Base, Quote
    <3>4. FrozenOf(n, u, a) \in Int
      BY <1>1 DEF FrozenOf, TypeOK, Order
    <3> QED BY <2>2, <3>3, <3>4
  <2> QED BY <2>1, <2>2
<1>9. FrozenMoves(i, v, b, d)
  BY <1>7, <1>8 DEF FrozenMoves
<1> QED BY <1>1, <1>3, <1>4, <1>9, MovesKeep

\* A filled order ties up nothing.
LEMMA FilledTieNothing ==
  ASSUME Book, NEW n \in DOMAIN orders, orders[n].remain = 0, NEW u, NEW a
  PROVE  FrozenOf(n, u, a) = 0
<1>1. orders[n].price \in Int
  BY DEF Book, Shape, TypeOK, Order
<1>2. orders[n].frozen = 0
  BY <1>1 DEF Book, OrderArithmetic
<1> QED BY <1>2 DEF FrozenOf

LEMMA FinishTakerFrozen ==
  ASSUME Book, FrozenMatchesOrders, Executing, FinishTaker
  PROVE  FrozenMatchesOrders'
<1>1. TypeOK /\ TypeOK' /\ Shape /\ order_id' = order_id /\ order_id \in 1..order_id
  BY FinishTakerShape DEF Book, Shape, TypeOK, Phases, Executing, FinishTaker, ExecuteDone
<1>2. orders' = Without(Finished) /\ balance' = balance
  BY DEF FinishTaker
<1>3. ASSUME NEW u \in Users, NEW a \in Assets, NEW n \in 1..order_id
      PROVE  FrozenOf(n, u, a)' = FrozenOf(n, u, a) /\ FrozenOf(n, u, a) \in Int
  <2>1. FrozenOf(n, u, a) \in Int
    BY <1>1 DEF FrozenOf, TypeOK, Order
  <2>2. CASE n \in Finished
    <3>1. n \notin DOMAIN orders' /\ n \in DOMAIN orders /\ orders[n].remain = 0
      BY <1>1, <1>2, <2>2 DEF Without, Finished, TypeOK
    <3>2. FrozenOf(n, u, a) = 0
      BY <3>1, FilledTieNothing
    <3>3. FrozenOf(n, u, a)' = 0
      BY <3>1 DEF FrozenOf
    <3> QED BY <3>2, <3>3
  <2>3. CASE n \notin Finished
    <3>1. /\ n \in DOMAIN orders' <=> n \in DOMAIN orders
          /\ n \in DOMAIN orders => orders'[n] = orders[n]
      BY <1>2, <2>3 DEF Without
    <3> QED BY <2>1, <3>1 DEF FrozenOf, FrozenAsset, is_ask, Base, Quote
  <2> QED BY <2>1, <2>2, <2>3
<1>4. ASSUME NEW u \in Users, NEW a \in Assets
      PROVE  balance["FREEZE"][u][a] \in Int
  BY <1>1 DEF TypeOK, BalanceTable, BalanceType
<1>5. FrozenMoves(order_id, taker.user, FrozenAsset(taker), 0)
  BY <1>2, <1>3, <1>4 DEF FrozenMoves
<1>6. 0 \in Int
  OBVIOUS
<1> QED BY <1>1, <1>5, <1>6, MovesKeep

LEMMA RestTakerFrozen ==
  ASSUME Book, FrozenMatchesOrders, Executing, taker.type = "LIMIT", taker.remain # 0, RestTaker
  PROVE  FrozenMatchesOrders'
<1> DEFINE o == Resting(taker)
           k == taker.id
           v == o.user
           b == FrozenAsset(o)
           d == o.frozen
<1>1. TypeOK /\ TypeOK' /\ Shape /\ order_id' = order_id
  BY RestTakerShape DEF Book, Shape, RestTaker, ExecuteDone
<1>2. /\ taker \in Order /\ taker # NoTaker /\ k \notin DOMAIN orders
      /\ DOMAIN orders' = (DOMAIN orders \ Finished) \cup {k}
      /\ orders'[k] = o
      /\ \A j \in DOMAIN orders' \ {k} :
           j \in DOMAIN orders \ Finished /\ orders'[j] = orders[j]
  BY <1>1, RestTakerOrders
<1>3. k \in 1..order_id
  BY <1>1, <1>2 DEF Shape, BookIndexes, Phases, TypeOK
<1>4. o \in Order
  BY <1>2, RestingType
<1>5. v \in Users /\ b \in Assets /\ d \in Int
  BY <1>4, AssetTypes DEF Order
<1>6. balance' = frozen(balance, v, b, d)
  BY DEF RestTaker
<1> HIDE DEF o, k
<1>7. ASSUME NEW u \in Users, NEW a \in Assets
      PROVE  balance'["FREEZE"][u][a] =
               balance["FREEZE"][u][a] + (IF u = v /\ a = b THEN d ELSE 0)
  <2>1. balance \in BalanceTable
    BY <1>1 DEF TypeOK
  <2> QED BY <1>5, <1>6, <2>1, FreezeAt
<1>8. ASSUME NEW u \in Users, NEW a \in Assets, NEW n \in 1..order_id
      PROVE  FrozenOf(n, u, a)' =
               FrozenOf(n, u, a) + (IF n = k /\ u = v /\ a = b THEN d ELSE 0)
  <2>1. FrozenOf(n, u, a) \in Int
    BY <1>1 DEF FrozenOf, TypeOK, Order
  <2>2. CASE n = k
    <3>1. FrozenOf(n, u, a) = 0
      BY <1>2, <2>2 DEF FrozenOf
    <3>2. FrozenOf(n, u, a)' = IF u = v /\ a = b THEN d ELSE 0
      BY <1>2, <2>2 DEF FrozenOf, FrozenAsset, is_ask, Base, Quote
    <3> QED BY <1>5, <2>2, <3>1, <3>2
  <2>3. CASE n # k /\ n \in Finished
    <3>1. n \notin DOMAIN orders' /\ n \in DOMAIN orders /\ orders[n].remain = 0
      BY <1>1, <1>2, <2>3 DEF Finished, TypeOK
    <3>2. FrozenOf(n, u, a) = 0
      BY <3>1, FilledTieNothing
    <3>3. FrozenOf(n, u, a)' = 0
      BY <3>1 DEF FrozenOf
    <3> QED BY <2>3, <3>2, <3>3
  <2>4. CASE n # k /\ n \notin Finished
    <3>1. /\ n \in DOMAIN orders' <=> n \in DOMAIN orders
          /\ n \in DOMAIN orders => orders'[n] = orders[n]
      BY <1>2, <2>4
    <3>2. FrozenOf(n, u, a)' = FrozenOf(n, u, a)
      BY <3>1 DEF FrozenOf, FrozenAsset, is_ask, Base, Quote
    <3> QED BY <2>1, <2>4, <3>2
  <2> QED BY <2>2, <2>3, <2>4
<1>9. FrozenMoves(k, v, b, d)
  <2> HIDE DEF v, b, d
  <2> QED BY <1>7, <1>8 DEF FrozenMoves
<1> QED BY <1>1, <1>3, <1>5, <1>9, MovesKeep

LEMMA OrderFinishFrozen ==
  ASSUME Book, FrozenMatchesOrders, NEW i \in DOMAIN orders, taker = NoTaker, OrderFinish(i),
         cancelling' \subseteq cancelling \ {i}
  PROVE  FrozenMatchesOrders'
<1> DEFINE v == orders[i].user
           b == FrozenAsset(orders[i])
           d == -orders[i].frozen
<1>1. TypeOK /\ TypeOK' /\ i \in 1..order_id /\ order_id' = order_id
  BY OrderFinishShape DEF Book, Shape, TypeOK, OrderFinish
<1>2. orders' = Without({i}) /\ balance' = Unfrozen(balance, orders[i])
  BY DEF OrderFinish
<1>3. orders[i] \in Order /\ balance \in BalanceTable
  BY <1>1 DEF TypeOK
<1>4. v \in Users /\ b \in Assets /\ orders[i].frozen \in Int /\ d \in Int
  BY <1>3, AssetTypes DEF Order
<1>5. orders[i].remain # 0
  BY DEF Book, Shape, Phases, OrderArithmetic
<1>6. ASSUME NEW u \in Users, NEW a \in Assets
      PROVE  balance'["FREEZE"][u][a] =
               balance["FREEZE"][u][a] + (IF u = v /\ a = b THEN d ELSE 0)
  <2>1. balance' = unfrozen(balance, v, b, orders[i].frozen)
    BY <1>2, <1>5 DEF Unfrozen
  <2>2. balance["FREEZE"][u][a] \in Int
    BY <1>3 DEF BalanceTable, BalanceType
  <2>3. balance'["FREEZE"][u][a] =
          balance["FREEZE"][u][a] - (IF u = v /\ a = b THEN orders[i].frozen ELSE 0)
    BY <1>3, <1>4, <2>1, FreezeAt
  <2> QED BY <1>4, <2>2, <2>3
<1>7. ASSUME NEW u \in Users, NEW a \in Assets, NEW n \in 1..order_id
      PROVE  FrozenOf(n, u, a)' =
               FrozenOf(n, u, a) + (IF n = i /\ u = v /\ a = b THEN d ELSE 0)
  <2>1. FrozenOf(n, u, a) \in Int
    BY <1>1 DEF FrozenOf, TypeOK, Order
  <2>2. CASE n = i
    <3>1. FrozenOf(i, u, a)' = 0
      BY <1>2 DEF FrozenOf, Without
    <3>2. FrozenOf(i, u, a) = IF u = v /\ a = b THEN orders[i].frozen ELSE 0
      BY DEF FrozenOf
    <3> QED BY <1>4, <2>2, <3>1, <3>2
  <2>3. CASE n # i
    <3>1. /\ n \in DOMAIN orders' <=> n \in DOMAIN orders
          /\ n \in DOMAIN orders => orders'[n] = orders[n]
      BY <1>2, <2>3 DEF Without
    <3>2. FrozenOf(n, u, a)' = FrozenOf(n, u, a)
      BY <3>1 DEF FrozenOf, FrozenAsset, is_ask, Base, Quote
    <3> QED BY <2>1, <2>3, <3>2
  <2> QED BY <2>2, <2>3
<1>8. FrozenMoves(i, v, b, d)
  <2> HIDE DEF v, b, d
  <2> QED BY <1>6, <1>7 DEF FrozenMoves
<1> QED BY <1>1, <1>4, <1>8, MovesKeep

LEMMA UpdateBalanceFrozen ==
  ASSUME Shape, FrozenMatchesOrders, NEW u \in Users, NEW a \in Assets, NEW d \in Deltas,
         UpdateBalance(u, a, d)
  PROVE  FrozenMatchesOrders'
<1> DEFINE c == [type |-> "AVAILABLE", user |-> u, asset |-> a, change |-> d]
<1>1. balance' = Applied(balance, c) /\ UNCHANGED <<orders, order_id>>
  BY DEF UpdateBalance, bookVars
<1>2. c \in Change /\ balance \in BalanceTable
  BY EngineAssumption DEF Change, BalanceType, Shape, TypeOK
<1>3. ASSUME NEW v \in Users, NEW b \in Assets
      PROVE  balance'["FREEZE"][v][b] = balance["FREEZE"][v][b]
  <2>1. balance["FREEZE"][v][b] \in Int
    BY <1>2 DEF BalanceTable, BalanceType
  <2>2. Hit(c, "FREEZE", v, b) = 0
    BY DEF Hit
  <2>3. balance'["FREEZE"][v][b] = balance["FREEZE"][v][b] + Hit(c, "FREEZE", v, b)
    BY <1>1, <1>2, AppliedAt DEF BalanceType
  <2> QED BY <2>1, <2>2, <2>3
<1> QED BY <1>1, <1>3, FrameFrozen

LEMMA NextFrozen == Book /\ FrozenMatchesOrders /\ [Next]_vars => FrozenMatchesOrders'
<1> SUFFICES ASSUME Book, FrozenMatchesOrders, [Next]_vars PROVE FrozenMatchesOrders'
  OBVIOUS
<1>1. Shape
  BY DEF Book
<1>2. ASSUME UNCHANGED <<orders, order_id, balance>> PROVE FrozenMatchesOrders'
  BY <1>2, FrameFrozen
<1>3. CASE \E u \in Users, in \in OrderInputs : OrderPut(u, in)
  BY <1>1, <1>3, OrderPutFrozen
<1>4. CASE \E i \in DOMAIN orders : Trade(i)
  BY <1>4, TradeFrozen
<1>5. CASE \E i \in DOMAIN orders : Panic(i)
  BY <1>2, <1>5 DEF Panic, bookVars
<1>6. CASE CancelTaker
  BY <1>6, FinishTakerFrozen DEF CancelTaker
<1>7. CASE EndTaker
  <2>1. taker.type \in OrderType
    BY <1>1, <1>7 DEF EndTaker, Executing, Shape, TypeOK, Order
  <2> QED BY <1>7, <2>1, FinishTakerFrozen, RestTakerFrozen DEF EndTaker, OrderType
<1>8. CASE \E u \in Users, i \in DOMAIN orders : OrderCancel(u, i)
  BY <1>8, OrderFinishFrozen DEF OrderCancel, Idle
<1>9. CASE \E u \in Users, m \in Markets : OrderCancelAll(u, m)
  BY <1>2, <1>9 DEF OrderCancelAll, bookVars
<1>10. CASE \E i \in cancelling : CancelNext(i)
  BY <1>1, <1>10, OrderFinishFrozen DEF CancelNext, Shape, TypeOK, Phases
<1>11. CASE \E u \in Users, a \in Assets, d \in Deltas : UpdateBalance(u, a, d)
  BY <1>1, <1>11, UpdateBalanceFrozen
<1>12. CASE UNCHANGED vars
  BY <1>2, <1>12 DEF vars
<1> QED
  BY <1>3, <1>4, <1>5, <1>6, <1>7, <1>8, <1>9, <1>10, <1>11, <1>12 DEF Next

Money == Book /\ FrozenMatchesOrders

(***************************************************************************)
(* Money is an invariant: everything below may assume it.                  *)
(***************************************************************************)
THEOREM MoneyInvariant == Spec => []Money
<1>1. Init => Money
  BY InitBook, InitFrozen DEF Money
<1>2. Money /\ [Next]_vars => Money'
  BY NextBook, NextFrozen DEF Money
<1> QED BY <1>1, <1>2, PTL DEF Spec

(***************************************************************************)
(* The frozen balance of every user in every asset is, to the last unit,   *)
(* what the user's open orders tie up, over all markets: the frozen() of a *)
(* resting order, the FREEZE updates of each fill and the unfrozen() of a  *)
(* finished one never drift apart.                                         *)
(***************************************************************************)
THEOREM FrozenMatches == Spec => []FrozenMatchesOrders
<1>1. Money => FrozenMatchesOrders
  BY DEF Money
<1> QED BY <1>1, MoneyInvariant, PTL

(***************************************************************************)
(* No balance is negative while no negative price was accepted.            *)
(***************************************************************************)
LEMMA FrozenCovers ==
  ASSUME Money, "PRICE" \notin faults, NEW u \in Users, NEW a \in Assets
  PROVE  /\ balance["FREEZE"][u][a] >= 0
         /\ \A i \in DOMAIN orders : orders[i].user = u /\ FrozenAsset(orders[i]) = a
              => balance["FREEZE"][u][a] >= orders[i].frozen
<1>1. TypeOK /\ balance["FREEZE"][u][a] = FrozenSum(u, a)
  BY DEF Money, Book, Shape, FrozenMatchesOrders
<1>2. ASSUME NEW i \in DOMAIN orders
      PROVE  orders[i].frozen >= 0
  <2>1. AddsUp(orders[i]) /\ orders[i] \in Order
        /\ orders[i].frozen = IF is_ask(orders[i]) THEN orders[i].remain
                              ELSE orders[i].remain * orders[i].price
    BY <1>1 DEF Money, Book, OrderArithmetic, TypeOK
  <2>2. orders[i].remain \in Nat /\ orders[i].price \in Nat
    BY <2>1 DEF Money, Book, OrderArithmetic, AddsUp, Signed, Order
  <2>3. orders[i].remain * orders[i].price \in Nat
    BY <2>2, ProductNat
  <2> QED BY <2>1, <2>2, <2>3
<1>3. \A n \in 1..order_id : FrozenOf(n, u, a) >= 0
  BY <1>2 DEF FrozenOf
<1>4. /\ FrozenSum(u, a) >= 0
      /\ \A n \in DOMAIN orders : FrozenSum(u, a) >= FrozenOf(n, u, a)
  BY <1>1, <1>3, FrozenSumBounds
<1> QED BY <1>1, <1>4 DEF FrozenOf

LEMMA MoneyNonNegative == Money => NonNegative
<1> SUFFICES ASSUME Money, "PRICE" \notin faults,
                    NEW t \in BalanceType, NEW u \in Users, NEW a \in Assets
             PROVE  balance[t][u][a] >= 0
  BY DEF NonNegative, NoDebt
<1>1. balance["FREEZE"][u][a] >= 0
  BY FrozenCovers
<1>2. balance["AVAILABLE"][u][a] >= 0
  BY DEF Money, Book, AvailableKept
<1> QED BY <1>1, <1>2 DEF BalanceType

(***************************************************************************)
(* Neither an available nor a frozen balance is negative as long as        *)
(* put_order has accepted no negative price, whatever quote limits and     *)
(* fees it has accepted.  BalanceManager asserts it in debug builds only,  *)
(* in a release build nothing would stop it.                               *)
(***************************************************************************)
THEOREM BalancesNonNegative == Spec => []NonNegative
BY MoneyInvariant, MoneyNonNegative, PTL

(***************************************************************************)
(* The four balance updates of a trade are refused only when a user would  *)
(* trade with itself, or when the trade is not safe.                       *)
(***************************************************************************)
Safe(i) ==
  /\ "PRICE" \notin faults
  /\ SoundTaker
  /\ taker.taker_fee <= Scale /\ orders[i].maker_fee <= Scale

LEMMA FeeBounds ==
  ASSUME NEW n \in Nat, NEW r \in Int, r <= Scale
  PROVE  Charged(Fee(n, r)) \in 0..n
<1>1. Scale \in Nat /\ Scale > 0
  BY MarketAssumption
<1>2. n * r \in Int
  OBVIOUS
<1>3. CASE n * r < 0
  <2>1. -Truncate(n * r, Scale) \in Nat /\ Truncate(n * r, Scale) \in Int
    BY <1>1, <1>2, <1>3, TruncateNegative
  <2> QED BY <2>1 DEF Fee, Charged
<1>4. CASE n * r >= 0
  <2>1. n * r <= n * Scale
    BY <1>1, Monotone
  <2>2. Scale * (n + 1) = n * Scale + Scale
    BY <1>1
  <2>3. n * Scale \in Nat
    BY <1>1, ProductNat
  <2>4. n * r < Scale * (n + 1)
    BY <1>1, <1>2, <2>1, <2>2, <2>3
  <2>5. Truncate(n * r, Scale) \in Nat /\ Truncate(n * r, Scale) < n + 1
    <3> DEFINE a == n * r
               m == n + 1
    <3>1. a \in Nat /\ a \in Int /\ m \in Nat /\ m > 0 /\ a < Scale * m
      BY <1>2, <1>4, <2>4
    <3>2. Truncate(a, Scale) \in Nat /\ Truncate(a, Scale) < m
      <4> HIDE DEF a, m
      <4>1. Truncate(a, Scale) \in Nat
        BY <1>1, <3>1, TruncateNat
      <4>2. Truncate(a, Scale) < m
        BY <1>1, <3>1, TruncateLess
      <4> QED BY <4>1, <4>2
    <3> QED BY <3>2
  <2> QED BY <2>5 DEF Fee, Charged
<1> QED BY <1>2, <1>3, <1>4

LEMMA TradeFees ==
  ASSUME Book, NEW i \in DOMAIN orders, Tradable(i), Safe(i)
  PROVE  /\ Charged(AskFee(i)) \in 0..TradedQuote(i)
         /\ Charged(BidFee(i)) \in 0..TradedBase(i)
<1>1. /\ taker \in Order /\ orders[i] \in Order
      /\ TradedBase(i) \in Nat /\ TradedQuote(i) \in Nat
  BY TradedBounds, SoundTrade DEF Safe
<1>2. /\ taker.taker_fee \in Int /\ orders[i].maker_fee \in Int
      /\ taker.taker_fee <= Scale /\ orders[i].maker_fee <= Scale
  BY <1>1 DEF Order, Safe
<1> QED BY <1>1, <1>2, FeeBounds DEF AskFee, BidFee

\* What the taker and the maker of a trade pay is there.
LEMMA TakerCanPay ==
  ASSUME Book, NEW i \in DOMAIN orders, Tradable(i), Safe(i)
  PROVE  /\ is_ask(taker) => TakerAvailable(Base(taker)) >= TradedBase(i)
         /\ ~is_ask(taker) => TakerAvailable(Quote(taker)) >= TradedQuote(i)
<1>1. /\ taker # NoTaker /\ taker \in Order /\ orders[i] \in Order
      /\ TradedBase(i) \in Nat /\ TradedBase(i) <= taker.remain
      /\ TradedQuote(i) \in Nat /\ TradedQuote(i) = orders[i].price * TradedBase(i)
      /\ taker.type = "MARKET" /\ ~is_ask(taker) =>
           quote_limit >= 0 /\ quote_sum + TradedQuote(i) <= quote_limit
      /\ orders[i].price \in Nat /\ taker.remain \in Nat /\ "PRICE" \notin faults
  BY TradedBounds, SoundTrade DEF Safe, SoundTaker
<1>2. /\ taker.user \in Users /\ Base(taker) \in Assets /\ Quote(taker) \in Assets
      /\ taker.remain \in Int /\ taker.price \in Int
      /\ taker.type \in OrderType
  BY <1>1, AssetTypes DEF Order
<1>3. TakerAvailable(Base(taker)) \in Int /\ TakerAvailable(Quote(taker)) \in Int
      /\ quote_sum \in Int /\ quote_limit \in Int
  BY <1>2 DEF TakerAvailable, Book, Shape, TypeOK, BalanceTable, BalanceType
<1>4. CASE is_ask(taker)
  <2>1. TakerAvailable(Base(taker)) >= taker.remain
    BY <1>1, <1>4 DEF Book, TakerFunds
  <2> QED BY <1>1, <1>2, <1>3, <1>4, <2>1
<1>5. CASE ~is_ask(taker) /\ taker.type = "LIMIT"
  <2>1. TakerAvailable(Quote(taker)) >= taker.remain * taker.price
    BY <1>1, <1>5 DEF Book, TakerFunds
  <2>2. orders[i].price <= taker.price
    BY <1>5 DEF Tradable, Crosses
  <2>3. TradedBase(i) * orders[i].price <= TradedBase(i) * taker.price
    BY <1>1, <1>2, <2>2, Monotone
  <2>4. taker.price \in Nat
    BY <1>1, <1>2, <2>2
  <2>5. taker.price * TradedBase(i) <= taker.price * taker.remain
    BY <1>1, <2>4, Monotone
  <2>6. /\ TradedBase(i) * orders[i].price = TradedQuote(i)
        /\ TradedBase(i) * taker.price = taker.price * TradedBase(i)
        /\ taker.price * taker.remain = taker.remain * taker.price
    BY <1>1, <1>2
  <2>7. TradedBase(i) * taker.price \in Int /\ taker.remain * taker.price \in Int
    BY <1>1, <1>2
  <2> DEFINE x == TradedBase(i) * taker.price
             y == taker.remain * taker.price
  <2>8. x \in Int /\ y \in Int /\ TradedQuote(i) <= x /\ x <= y
        /\ TakerAvailable(Quote(taker)) >= y
    BY <2>1, <2>3, <2>5, <2>6, <2>7
  <2> HIDE DEF x, y
  <2> QED BY <1>1, <1>3, <1>5, <2>8
<1>6. CASE ~is_ask(taker) /\ taker.type = "MARKET"
  <2>1. TakerAvailable(Quote(taker)) >= quote_limit - quote_sum
    BY <1>1, <1>6 DEF Book, TakerFunds
  <2> QED BY <1>1, <1>3, <1>6, <2>1
<1> QED BY <1>2, <1>4, <1>5, <1>6 DEF OrderType

LEMMA MakerCanPay ==
  ASSUME Money, NEW i \in DOMAIN orders, Tradable(i), Safe(i)
  PROVE  /\ is_ask(taker) =>
              balance["FREEZE"][orders[i].user][Quote(taker)] >= TradedQuote(i)
         /\ ~is_ask(taker) =>
              balance["FREEZE"][orders[i].user][Base(taker)] >= TradedBase(i)
<1>1. /\ taker # NoTaker /\ taker \in Order /\ orders[i] \in Order
      /\ (is_ask(orders[i]) <=> ~is_ask(taker)) /\ orders[i].market = taker.market
      /\ TradedBase(i) \in Nat /\ TradedBase(i) <= orders[i].remain
      /\ TradedQuote(i) \in Nat /\ TradedQuote(i) = orders[i].price * TradedBase(i)
      /\ orders[i].price \in Nat /\ "PRICE" \notin faults
  BY TradedBounds, SoundTrade DEF Money, Safe
<1>2. /\ orders[i].user \in Users /\ FrozenAsset(orders[i]) \in Assets
      /\ orders[i].remain \in Int
  BY <1>1, AssetTypes DEF Order
<1> DEFINE f == balance["FREEZE"][orders[i].user][FrozenAsset(orders[i])]
<1>3. f >= orders[i].frozen /\ f \in Int
  BY <1>1, <1>2, FrozenCovers DEF Money, Book, Shape, TypeOK, BalanceTable, BalanceType
<1>4. orders[i].frozen = IF is_ask(orders[i]) THEN orders[i].remain
                         ELSE orders[i].remain * orders[i].price
  BY DEF Money, Book, OrderArithmetic
<1>5. CASE is_ask(taker)
  <2>1. FrozenAsset(orders[i]) = Quote(taker)
    BY <1>1, <1>5 DEF FrozenAsset, Quote
  <2>2. orders[i].price * TradedBase(i) <= orders[i].price * orders[i].remain
    BY <1>1, <1>2, Monotone
  <2>3. orders[i].price * orders[i].remain = orders[i].remain * orders[i].price
    BY <1>1, <1>2
  <2>4. orders[i].remain * orders[i].price \in Int
    BY <1>1, <1>2
  <2> DEFINE y == orders[i].remain * orders[i].price
  <2>5. y \in Int /\ TradedQuote(i) <= y /\ f >= y
    BY <1>1, <1>3, <1>4, <1>5, <2>2, <2>3, <2>4
  <2> HIDE DEF y
  <2>6. f >= TradedQuote(i)
    BY <1>1, <1>3, <2>5
  <2> QED BY <1>5, <2>1, <2>6
<1>6. CASE ~is_ask(taker)
  <2>1. FrozenAsset(orders[i]) = Base(taker)
    BY <1>1, <1>6 DEF FrozenAsset, Base
  <2>2. f >= TradedBase(i)
    <3>1. f >= orders[i].remain
      BY <1>1, <1>3, <1>4, <1>6
    <3> HIDE DEF f
    <3> QED BY <1>1, <1>2, <1>3, <3>1
  <2> QED BY <1>6, <2>1, <2>2
<1> QED BY <1>5, <1>6

LEMMA NotRefused ==
  ASSUME Money, NEW i \in DOMAIN orders, Tradable(i), taker.user # orders[i].user, Safe(i)
  PROVE  ~Refused(i)
<1>1. /\ taker # NoTaker /\ taker \in Order /\ orders[i] \in Order /\ Shape /\ Book
      /\ TradedBase(i) \in Nat /\ TradedQuote(i) \in Nat
  BY TradedBounds, SoundTrade DEF Money, Book, Safe
<1>2. /\ taker.user \in Users /\ orders[i].user \in Users
      /\ Base(taker) \in Assets /\ Quote(taker) \in Assets /\ Base(taker) # Quote(taker)
  BY <1>1, AssetTypes DEF Order
<1>3. Charged(AskFee(i)) \in 0..TradedQuote(i) /\ Charged(BidFee(i)) \in 0..TradedBase(i)
  BY <1>1, TradeFees
<1>4. BidGets(i).change \in Nat /\ AskGets(i).change \in Nat
  BY <1>1, <1>3 DEF BidGets, AskGets
<1>5. /\ BidGets(i) \in Change /\ AskPays(i) \in Change
      /\ AskGets(i) \in Change /\ BidPays(i) \in Change
      /\ AfterBase(i) \in BalanceTable /\ balance \in BalanceTable
  BY <1>1, TradeBalances DEF Shape, TypeOK
<1>6. /\ Applied(balance, BidGets(i)) \in BalanceTable
  BY <1>5, AppliedType
<1>7. /\ CacheKey(BidGets(i)) # CacheKey(AskPays(i))
      /\ CacheKey(AskGets(i)) # CacheKey(BidPays(i))
  <2>1. BidOrder(i).user # AskOrder(i).user
    BY DEF BidOrder, AskOrder
  <2> QED BY <2>1 DEF CacheKey, BidGets, AskPays, AskGets, BidPays
<1>8. Covered(balance, BidGets(i)) /\ Covered(AfterBase(i), AskGets(i))
  BY <1>4 DEF Covered
<1>9. Covered(Applied(balance, BidGets(i)), AskPays(i))
  <2> DEFINE t == AskPays(i).type
             u == AskPays(i).user
             a == AskPays(i).asset
  <2>1. t \in BalanceType /\ u \in Users /\ a \in Assets
    BY <1>5 DEF Change
  <2>2. Applied(balance, BidGets(i))[t][u][a] = balance[t][u][a] + Hit(BidGets(i), t, u, a)
    BY <1>5, <2>1, AppliedAt
  <2>3. Hit(BidGets(i), t, u, a) \in Nat
    BY <1>4 DEF Hit
  <2>4. balance[t][u][a] \in Int
    BY <1>5, <2>1 DEF BalanceTable
  <2>5. balance[t][u][a] >= TradedBase(i)
    <3>1. CASE is_ask(taker)
      BY <1>1, <3>1, TakerCanPay DEF AskPays, AskOrder, TakerAvailable
    <3>2. CASE ~is_ask(taker)
      BY <1>1, <3>2, MakerCanPay DEF AskPays, AskOrder
    <3> QED BY <3>1, <3>2
  <2>6. AskPays(i).change = -TradedBase(i)
    BY DEF AskPays
  <2> HIDE DEF t, u, a
  <2>7. Applied(balance, BidGets(i))[t][u][a] >= TradedBase(i)
    BY <1>1, <2>2, <2>3, <2>4, <2>5
  <2> QED BY <1>1, <2>6, <2>7 DEF Covered, t, u, a
<1>10. Covered(Applied(AfterBase(i), AskGets(i)), BidPays(i))
  <2> DEFINE t == BidPays(i).type
             u == BidPays(i).user
             a == BidPays(i).asset
             mid == Applied(balance, BidGets(i))
  <2>1. t \in BalanceType /\ u \in Users /\ a \in Assets
    BY <1>5 DEF Change
  <2>2. /\ Applied(AfterBase(i), AskGets(i))[t][u][a] =
             AfterBase(i)[t][u][a] + Hit(AskGets(i), t, u, a)
    BY <1>5, <2>1, AppliedAt
  <2>3. AfterBase(i)[t][u][a] = mid[t][u][a] + Hit(AskPays(i), t, u, a)
    BY <1>5, <1>6, <2>1, AppliedAt DEF AfterBase
  <2>4. mid[t][u][a] = balance[t][u][a] + Hit(BidGets(i), t, u, a)
    BY <1>5, <2>1, AppliedAt
  <2>5. Hit(AskGets(i), t, u, a) \in Nat
    BY <1>4 DEF Hit
  <2>6. Hit(AskPays(i), t, u, a) = 0 /\ Hit(BidGets(i), t, u, a) = 0
    <3>1. a = Quote(taker) /\ AskPays(i).asset = Base(taker) /\ BidGets(i).asset = Base(taker)
      BY DEF BidPays, AskPays, BidGets
    <3> QED BY <1>2, <3>1 DEF Hit
  <2>7. balance[t][u][a] \in Int
    BY <1>5, <2>1 DEF BalanceTable
  <2>8. balance[t][u][a] >= TradedQuote(i)
    <3>1. CASE is_ask(taker)
      BY <1>1, <3>1, MakerCanPay DEF BidPays, BidOrder
    <3>2. CASE ~is_ask(taker)
      BY <1>1, <3>2, TakerCanPay DEF BidPays, BidOrder, TakerAvailable
    <3> QED BY <3>1, <3>2
  <2>9. BidPays(i).change = -TradedQuote(i)
    BY DEF BidPays
  <2> HIDE DEF t, u, a, mid
  <2>10. Applied(AfterBase(i), AskGets(i))[t][u][a] >= TradedQuote(i)
    BY <1>1, <2>2, <2>3, <2>4, <2>5, <2>6, <2>7, <2>8
  <2> QED BY <1>1, <2>9, <2>10 DEF Covered, t, u, a
<1> QED BY <1>7, <1>8, <1>9, <1>10 DEF Refused

(***************************************************************************)
(* The engine dies, if ever, of one of the causes that DeathHasACause      *)
(* lists.  Nothing moves after that, so the cause stays.                   *)
(***************************************************************************)
Cause ==
  \/ "PRICE" \in faults
  \/ quote_limit < 0
  \/ \E i \in Unvisited : AtMaker(i) /\ Deadly(i)

LEMMA PanicHasACause ==
  ASSUME Money, NEW i \in DOMAIN orders, Panic(i)
  PROVE  taker # NoTaker /\ Cause
<1>1. /\ Tradable(i) /\ Refused(i) /\ taker # NoTaker /\ i \in Unvisited /\ AtMaker(i)
  BY DEF Panic, Tradable, Executing, AtMaker
<1>2. taker \in Order /\ orders[i] \in Order /\ quote_limit \in Int
  BY <1>1, TradeNumbers DEF Money, Book, Shape, TypeOK
<1>3. CASE taker.user = orders[i].user
  <2>1. ~DisableSelfTrade
    BY <1>1, <1>3, EngineAssumption DEF Tradable, MustCancel
  <2> QED BY <1>1, <1>3, <2>1 DEF Cause, Deadly
<1>4. CASE taker.user # orders[i].user
  <2>1. ~Safe(i)
    BY <1>1, <1>4, NotRefused
  <2>2. /\ taker.taker_fee \in Int /\ orders[i].maker_fee \in Int /\ Scale \in Int
    BY <1>2, MarketAssumption DEF Order
  <2>3. "PRICE" \in faults \/ quote_limit < 0
          \/ taker.taker_fee > Scale \/ orders[i].maker_fee > Scale
    BY <1>2, <2>1, <2>2 DEF Safe, SoundTaker
  <2> QED BY <1>1, <2>3 DEF Cause, Deadly
<1> QED BY <1>1, <1>3, <1>4

LEMMA NextDeathCause == Money /\ DeathHasACause /\ [Next]_vars => DeathHasACause'
<1> SUFFICES ASSUME Money, DeathHasACause, [Next]_vars PROVE DeathHasACause'
  OBVIOUS
<1>1. Shape
  BY DEF Money, Book
<1>2. (panicked => taker # NoTaker /\ Cause) <=> DeathHasACause
  BY DEF DeathHasACause, Cause
<1>3. ASSUME UNCHANGED <<orders, asks, bids, taker, quote_limit, visited, faults>>,
             taker # NoTaker /\ Cause
      PROVE  DeathHasACause'
  BY <1>3 DEF DeathHasACause, Cause, Unvisited, CounterOrders, AtMaker, Deadly,
              KeyBefore, AskBefore, BidBefore, is_ask
<1>4. CASE UNCHANGED vars
  <2>1. CASE panicked
    BY <1>2, <1>3, <1>4, <2>1 DEF vars
  <2>2. CASE ~panicked
    BY <1>4, <2>2 DEF vars, DeathHasACause
  <2> QED BY <2>1, <2>2
<1>5. CASE panicked /\ Next
  <2>1. taker # NoTaker /\ cancelling = {}
    BY <1>1, <1>5 DEF DeathHasACause, Shape, Phases
  <2> QED
    BY <1>5, <2>1 DEF Next, OrderPut, Trade, Panic, Tradable, CancelTaker, EndTaker,
       OrderCancel, OrderCancelAll, CancelNext, UpdateBalance, Idle, Executing
<1>6. CASE ~panicked /\ \E i \in DOMAIN orders : Panic(i)
  <2>1. PICK i \in DOMAIN orders : Panic(i)
    BY <1>6
  <2>2. taker # NoTaker /\ Cause
    BY <2>1, PanicHasACause
  <2>3. UNCHANGED <<orders, asks, bids, taker, quote_limit, visited, faults>>
    BY <2>1 DEF Panic, bookVars, execVars
  <2> QED BY <1>3, <2>2, <2>3
<1>7. CASE ~panicked /\ Next /\ ~\E i \in DOMAIN orders : Panic(i)
  <2>1. panicked' = panicked
    BY <1>7 DEF Next, OrderPut, Trade, CancelTaker, EndTaker, FinishTaker, RestTaker,
       ExecuteDone, OrderCancel, OrderCancelAll, CancelNext, OrderFinish, UpdateBalance
  <2> QED BY <1>7, <2>1 DEF DeathHasACause
<1> QED BY <1>4, <1>5, <1>6, <1>7

(***************************************************************************)
(* The unwrap()s of execute_order's balance updates fail only after a      *)
(* negative price was accepted, for a market bid with a negative limit, or *)
(* at an order that charges more than all of the trade or is the taker's   *)
(* own while the settings do not stop self trades: the second update of    *)
(* the same user and asset under one trade id is taken for a duplicate.    *)
(* So with disable_self_trade set and sound requests the engine survives.  *)
(***************************************************************************)
THEOREM DeathExplained == Spec => []DeathHasACause
<1>1. Init => DeathHasACause
  BY DEF Init, DeathHasACause
<1> QED BY <1>1, MoneyInvariant, NextDeathCause, PTL DEF Spec

(***************************************************************************)
(* The limit on open orders.  It is checked when an order comes, and the   *)
(* order is counted when it rests: in between no other order of the user   *)
(* comes to rest.                                                          *)
(***************************************************************************)
RoomForTaker == taker # NoTaker => Cardinality(users[taker.user]) < UserOrderNumLimit

Room == OrderNumLimit /\ RoomForTaker

LEMMA OpenOrdersFinite ==
  ASSUME Shape, NEW u \in Users
  PROVE  IsFiniteSet(users[u]) /\ Cardinality(users[u]) \in Nat
<1>1. order_id \in Nat /\ users[u] \subseteq 1..order_id
  BY DEF Shape, TypeOK
<1>2. IsFiniteSet(1..order_id)
  BY <1>1, FS_Interval
<1>3. IsFiniteSet(users[u])
  BY <1>1, <1>2, FS_Subset
<1> QED BY <1>3, FS_CardinalityType

\* Orders that leave make room.
LEMMA FewerOrders ==
  ASSUME Shape, OrderNumLimit, \A u \in Users : users'[u] \subseteq users[u]
  PROVE  OrderNumLimit'
<1> SUFFICES ASSUME NEW u \in Users
             PROVE  Cardinality(users'[u]) <= UserOrderNumLimit
  BY DEF OrderNumLimit
<1>1. IsFiniteSet(users[u]) /\ Cardinality(users[u]) \in Nat
      /\ Cardinality(users[u]) <= UserOrderNumLimit /\ UserOrderNumLimit \in Nat
  BY OpenOrdersFinite, EngineAssumption DEF OrderNumLimit
<1>2. users'[u] \in SUBSET users[u]
  OBVIOUS
<1>3. IsFiniteSet(users'[u]) /\ Cardinality(users'[u]) <= Cardinality(users[u])
  BY <1>1, <1>2, FS_Subset
<1>4. Cardinality(users'[u]) \in Nat
  BY <1>3, FS_CardinalityType
<1> QED BY <1>1, <1>3, <1>4

LEMMA RestTakerRoom ==
  ASSUME Shape, Room, Executing, RestTaker
  PROVE  Room'
<1>1. taker \in Order /\ taker # NoTaker /\ taker' = NoTaker
  BY RestTakerOrders DEF RestTaker, ExecuteDone
<1>2. Resting(taker).id = taker.id /\ Resting(taker).user = taker.user
  BY <1>1, RestingType
<1>3. \A u \in Users :
        users'[u] = (users[u] \ Finished) \cup (IF u = taker.user THEN {taker.id} ELSE {})
  BY <1>2 DEF RestTaker
<1>4. ASSUME NEW u \in Users
      PROVE  Cardinality(users'[u]) <= UserOrderNumLimit
  <2> DEFINE left == users[u] \ Finished
  <2>1. /\ IsFiniteSet(users[u]) /\ Cardinality(users[u]) \in Nat
        /\ Cardinality(users[u]) <= UserOrderNumLimit /\ UserOrderNumLimit \in Nat
    BY OpenOrdersFinite, EngineAssumption DEF Room, OrderNumLimit
  <2>2. left \in SUBSET users[u]
    OBVIOUS
  <2>3. IsFiniteSet(left) /\ Cardinality(left) <= Cardinality(users[u])
    BY <2>1, <2>2, FS_Subset
  <2>4. Cardinality(left) \in Nat
    BY <2>3, FS_CardinalityType
  <2> HIDE DEF left
  <2>5. CASE u = taker.user
    <3>1. users'[u] = left \cup {taker.id}
      BY <1>3, <2>5 DEF left
    <3>2. /\ Cardinality(users'[u]) =
               IF taker.id \in left THEN Cardinality(left) ELSE Cardinality(left) + 1
      BY <2>3, <3>1, FS_AddElement
    <3>3. Cardinality(users[u]) < UserOrderNumLimit
      BY <1>1, <2>5 DEF Room, RoomForTaker
    <3> QED BY <2>1, <2>3, <2>4, <3>2, <3>3
  <2>6. CASE u # taker.user
    <3>1. users'[u] = left
      BY <1>3, <2>6 DEF left
    <3> QED BY <2>1, <2>3, <2>4, <3>1
  <2> QED BY <2>5, <2>6
<1> QED BY <1>1, <1>4 DEF Room, RoomForTaker, OrderNumLimit

LEMMA NextRoom == Shape /\ Room /\ [Next]_vars => Room'
<1> SUFFICES ASSUME Shape, Room, [Next]_vars PROVE Room'
  OBVIOUS
<1>1. ASSUME taker' = NoTaker, \A u \in Users : users'[u] \subseteq users[u]
      PROVE  Room'
  BY <1>1, FewerOrders DEF Room, RoomForTaker
<1>2. ASSUME UNCHANGED <<taker, users>> PROVE Room'
  BY <1>2 DEF Room, RoomForTaker, OrderNumLimit
<1>3. CASE \E u \in Users, in \in OrderInputs : OrderPut(u, in)
  <2>1. PICK u \in Users, in \in OrderInputs : OrderPut(u, in)
    BY <1>3
  <2>2. taker'.user = u /\ users' = users /\ Cardinality(users[u]) # UserOrderNumLimit
    BY <2>1 DEF OrderPut, NewOrder, Acceptable, bookVars
  <2>3. Cardinality(users[u]) <= UserOrderNumLimit /\ UserOrderNumLimit \in Nat
        /\ Cardinality(users[u]) \in Nat
    BY OpenOrdersFinite, EngineAssumption DEF Room, OrderNumLimit
  <2>4. Cardinality(users[u]) < UserOrderNumLimit
    BY <2>2, <2>3
  <2> QED BY <2>2, <2>4 DEF Room, RoomForTaker, OrderNumLimit
<1>4. CASE \E i \in DOMAIN orders : Trade(i)
  <2>1. PICK i \in DOMAIN orders : Trade(i)
    BY <1>4
  <2>2. taker # NoTaker /\ taker' = FilledTaker(i) /\ users' = users
    BY <2>1 DEF Trade, Tradable, Executing
  <2>3. taker'.user = taker.user
    BY <2>2, FilledOrders
  <2> QED BY <2>2, <2>3 DEF Room, RoomForTaker, OrderNumLimit
<1>5. CASE \E i \in DOMAIN orders : Panic(i)
  BY <1>2, <1>5 DEF Panic, bookVars, execVars
<1>6. ASSUME FinishTaker PROVE Room'
  BY <1>1, <1>6 DEF FinishTaker, ExecuteDone
<1>7. CASE CancelTaker
  BY <1>6, <1>7 DEF CancelTaker
<1>8. CASE EndTaker
  BY <1>6, <1>8, RestTakerRoom DEF EndTaker
<1>9. ASSUME NEW i \in DOMAIN orders, taker = NoTaker, OrderFinish(i) PROVE Room'
  <2>1. taker' = NoTaker /\ users' = [users EXCEPT ![orders[i].user] = @ \ {i}]
    BY <1>9 DEF OrderFinish, execVars
  <2>2. \A u \in Users : users'[u] \subseteq users[u]
    BY <2>1 DEF Shape, TypeOK
  <2> QED BY <1>1, <2>1, <2>2
<1>10. CASE \E u \in Users, i \in DOMAIN orders : OrderCancel(u, i)
  BY <1>9, <1>10 DEF OrderCancel, Idle
<1>11. CASE \E u \in Users, m \in Markets : OrderCancelAll(u, m)
  BY <1>2, <1>11 DEF OrderCancelAll, bookVars, execVars
<1>12. CASE \E i \in cancelling : CancelNext(i)
  BY <1>9, <1>12 DEF CancelNext, Shape, TypeOK, Phases
<1>13. CASE \E u \in Users, a \in Assets, d \in Deltas : UpdateBalance(u, a, d)
  BY <1>2, <1>13 DEF UpdateBalance, bookVars, execVars
<1>14. CASE UNCHANGED vars
  BY <1>2, <1>14 DEF vars
<1> QED
  BY <1>3, <1>4, <1>5, <1>7, <1>8, <1>10, <1>11, <1>12, <1>13, <1>14 DEF Next

(***************************************************************************)
(* No user has more open orders than user_order_num_limit, over all        *)
(* markets: put_order refuses at the limit with an equality test, which is *)
(* enough because an accepted order adds at most one.                      *)
(***************************************************************************)
THEOREM OrderNumLimited == Spec => []OrderNumLimit
<1>1. Init => Room
  <2> SUFFICES ASSUME Init PROVE Room
    OBVIOUS
  <2>1. \A u \in Users : Cardinality(users[u]) = 0
    BY FS_EmptySet DEF Init
  <2> QED BY <2>1, EngineAssumption DEF Init, Room, RoomForTaker, OrderNumLimit
<1>2. Room => OrderNumLimit
  BY DEF Room
<1> QED BY <1>1, <1>2, ShapeInvariant, NextRoom, PTL DEF Spec

(***************************************************************************)
(* The messages tell the story of the book, also while it changes: the     *)
(* order being executed has sent its PUT and nothing else, and an order    *)
(* has sent FINISH exactly when it is neither open nor being executed.     *)
(***************************************************************************)
Story ==
  /\ taker # NoTaker => event[taker.id] = "PUT"
  /\ \A i \in 1..order_id :
       event[i] # "FINISH" <=> i \in DOMAIN orders \/ (taker # NoTaker /\ i = taker.id)

Told(old, new) ==
  new # old => <<old, new>> \in {<<"PUT", "UPDATE">>, <<"PUT", "FINISH">>,
                                 <<"UPDATE", "FINISH">>}

LEMMA OrderPutStory ==
  ASSUME Shape, Story, NEW u \in Users, NEW in \in OrderInputs, OrderPut(u, in)
  PROVE  Story' /\ \A i \in 1..order_id : Told(event[i], event'[i])
<1>1. /\ order_id \in Nat /\ order_id' = order_id + 1 /\ orders' = orders
      /\ taker = NoTaker /\ DOMAIN orders \subseteq 1..order_id
      /\ event' = [i \in 1..order_id + 1 |-> IF i = order_id + 1 THEN "PUT" ELSE event[i]]
  BY DEF OrderPut, Idle, Shape, TypeOK, bookVars
<1>2. taker'.id = order_id + 1 /\ taker' # NoTaker
  <2>1. taker' = NewOrder(order_id + 1, u, in)
    BY DEF OrderPut
  <2>2. taker' \in Order
    <3>1. in \in OrderInput /\ in.amount \in Nat
      BY AcceptedPrice
    <3>2. order_id + 1 \in Nat
      BY <1>1
    <3> QED BY <2>1, <3>1, <3>2, NewOrderType
  <2> QED BY <2>1, <2>2, EngineAssumption DEF NewOrder
<1>3. \A i \in 1..order_id : i \in 1..order_id + 1 /\ i # order_id + 1 /\ event'[i] = event[i]
  BY <1>1
<1>4. order_id + 1 \in 1..order_id + 1 /\ event'[order_id + 1] = "PUT"
  BY <1>1
<1>5. \A i \in 1..order_id + 1 : i \in 1..order_id \/ i = order_id + 1
  BY <1>1
<1> QED BY <1>1, <1>2, <1>3, <1>4, <1>5 DEF Story, Told

LEMMA TradeStory ==
  ASSUME Shape, Story, NEW i \in DOMAIN orders, Trade(i)
  PROVE  Story' /\ \A j \in 1..order_id : Told(event[j], event'[j])
<1>1. /\ taker # NoTaker /\ order_id' = order_id
      /\ orders' = [orders EXCEPT ![i] = FilledMaker(i)] /\ taker' = FilledTaker(i)
      /\ event' = event \/ event' = [event EXCEPT ![i] = "UPDATE"]
  BY DEF Trade, Tradable, Executing
<1>2. FilledTaker(i) \in Order /\ FilledTaker(i).id = taker.id
  BY <1>1, FilledOrders
<1>3. taker' # NoTaker /\ taker'.id = taker.id /\ DOMAIN orders' = DOMAIN orders
  BY <1>1, <1>2, EngineAssumption
<1>4. taker.id \notin DOMAIN orders /\ i \in 1..order_id
      /\ event \in [1..order_id -> EventType]
  BY <1>1 DEF Shape, BookIndexes, TypeOK
<1>5. event[i] \in {"PUT", "UPDATE"}
  BY <1>4 DEF Story, EventType
<1>6. \A j \in 1..order_id : j # i => event'[j] = event[j]
  BY <1>1, <1>4
<1>7. event'[i] \in {event[i], "UPDATE"}
  BY <1>1, <1>4
<1>8. event'[taker.id] = event[taker.id]
  <2>1. taker.id # i
    BY <1>4
  <2>2. CASE event' = event
    BY <2>2
  <2>3. CASE event' = [event EXCEPT ![i] = "UPDATE"]
    <3>1. taker.id \in 1..order_id
      BY <1>1 DEF Shape, BookIndexes, Phases, TypeOK
    <3> QED BY <1>6, <2>1, <3>1
  <2> QED BY <1>1, <2>2, <2>3
<1> QED BY <1>1, <1>3, <1>4, <1>5, <1>6, <1>7, <1>8 DEF Story, Told

LEMMA FinishTakerStory ==
  ASSUME Shape, Story, Executing, FinishTaker
  PROVE  Story' /\ \A j \in 1..order_id : Told(event[j], event'[j])
<1>1. /\ taker # NoTaker /\ taker' = NoTaker /\ order_id' = order_id
      /\ DOMAIN orders' = DOMAIN orders \ Finished /\ Finished \subseteq DOMAIN orders
      /\ taker.id \notin DOMAIN orders
      /\ event' = [i \in 1..order_id |->
                     IF i \in Finished \cup {taker.id} THEN "FINISH" ELSE event[i]]
      /\ event \in [1..order_id -> EventType]
  BY DEF FinishTaker, ExecuteDone, Executing, Without, Finished, Shape, TypeOK, BookIndexes
<1> QED BY <1>1 DEF Story, Told, EventType

LEMMA RestTakerStory ==
  ASSUME Shape, Story, Executing, RestTaker
  PROVE  Story' /\ \A j \in 1..order_id : Told(event[j], event'[j])
<1>1. /\ taker # NoTaker /\ taker' = NoTaker /\ order_id' = order_id
      /\ Finished \subseteq DOMAIN orders
      /\ event' = [i \in 1..order_id |-> IF i \in Finished THEN "FINISH" ELSE event[i]]
      /\ event \in [1..order_id -> EventType]
  BY DEF RestTaker, ExecuteDone, Executing, Finished, Shape, TypeOK
<1>2. /\ DOMAIN orders' = (DOMAIN orders \ Finished) \cup {taker.id}
      /\ taker.id \notin DOMAIN orders
  BY RestTakerOrders
<1> QED BY <1>1, <1>2 DEF Story, Told, EventType

LEMMA OrderFinishStory ==
  ASSUME Shape, Story, NEW i \in DOMAIN orders, taker = NoTaker, OrderFinish(i)
  PROVE  Story' /\ \A j \in 1..order_id : Told(event[j], event'[j])
<1>1. /\ taker' = NoTaker /\ order_id' = order_id
      /\ DOMAIN orders' = DOMAIN orders \ {i}
      /\ event' = [event EXCEPT ![i] = "FINISH"]
      /\ event \in [1..order_id -> EventType] /\ i \in 1..order_id
  BY DEF OrderFinish, execVars, Without, Shape, TypeOK
<1> QED BY <1>1 DEF Story, Told, EventType

LEMMA NextStory ==
  ASSUME Shape, Story, [Next]_vars
  PROVE  Story' /\ \A j \in 1..order_id : Told(event[j], event'[j])
<1>1. ASSUME UNCHANGED <<taker, order_id, orders, event>>
      PROVE  Story' /\ \A j \in 1..order_id : Told(event[j], event'[j])
  BY <1>1 DEF Story, Told
<1>2. CASE \E u \in Users, in \in OrderInputs : OrderPut(u, in)
  BY <1>2, OrderPutStory
<1>3. CASE \E i \in DOMAIN orders : Trade(i)
  BY <1>3, TradeStory
<1>4. CASE \E i \in DOMAIN orders : Panic(i)
  BY <1>1, <1>4 DEF Panic, bookVars, execVars
<1>5. CASE CancelTaker
  BY <1>5, FinishTakerStory DEF CancelTaker
<1>6. CASE EndTaker
  BY <1>6, FinishTakerStory, RestTakerStory DEF EndTaker
<1>7. CASE \E u \in Users, i \in DOMAIN orders : OrderCancel(u, i)
  BY <1>7, OrderFinishStory DEF OrderCancel, Idle
<1>8. CASE \E u \in Users, m \in Markets : OrderCancelAll(u, m)
  BY <1>1, <1>8 DEF OrderCancelAll, bookVars, execVars
<1>9. CASE \E i \in cancelling : CancelNext(i)
  BY <1>9, OrderFinishStory DEF CancelNext, Shape, TypeOK, Phases
<1>10. CASE \E u \in Users, a \in Assets, d \in Deltas : UpdateBalance(u, a, d)
  BY <1>1, <1>10 DEF UpdateBalance, bookVars, execVars
<1>11. CASE UNCHANGED vars
  BY <1>1, <1>11 DEF vars
<1> QED
  BY <1>2, <1>3, <1>4, <1>5, <1>6, <1>7, <1>8, <1>9, <1>10, <1>11 DEF Next

LEMMA StoryInvariant == Spec => []Story
<1>1. Init => Story
  BY DEF Init, Story
<1>2. Shape /\ Story /\ [Next]_vars => Story'
  BY NextStory
<1> QED BY <1>1, <1>2, ShapeInvariant, PTL DEF Spec

(***************************************************************************)
(* In an idle engine the orders whose last message is not FINISH are the   *)
(* open ones: execute_order, order_cancel and order_cancel_all forget no   *)
(* message and send none for an order that stays.                          *)
(***************************************************************************)
THEOREM MessagesTellTheBook == Spec => []OpenUnlessFinished
<1>1. Story => OpenUnlessFinished
  BY DEF Story, OpenUnlessFinished, Idle
<1> QED BY <1>1, StoryInvariant, PTL

(***************************************************************************)
(* The events of an order come in order: PUT, then UPDATEs, then FINISH,   *)
(* and after its FINISH nothing more is sent for an order.                 *)
(***************************************************************************)
THEOREM MessagesInOrder == Spec => EventsInOrder
<1> DEFINE Step == \A i \in 1..order_id :
                     event'[i] # event[i] =>
                       <<event[i], event'[i]>> \in {<<"PUT", "UPDATE">>, <<"PUT", "FINISH">>,
                                                    <<"UPDATE", "FINISH">>}
<1>1. Shape /\ Story /\ [Next]_vars => [Step]_vars
  BY NextStory DEF Told
<1>2. Spec => [][Step]_vars
  BY <1>1, ShapeInvariant, StoryInvariant, PTL DEF Spec
<1> QED BY <1>2 DEF EventsInOrder

(***************************************************************************)
(* The engine implements the ledger.                                       *)
(***************************************************************************)
Owned(c, u, a) == IF u = c.user /\ a = c.asset THEN c.change ELSE 0

\* A balance update counts once in a total, whichever of the two balances it hits.
LEMMA HitsOwned ==
  ASSUME NEW c \in Change, NEW u, NEW a
  PROVE  /\ Hit(c, "AVAILABLE", u, a) + Hit(c, "FREEZE", u, a) = Owned(c, u, a)
         /\ Hit(c, "AVAILABLE", u, a) \in Int /\ Hit(c, "FREEZE", u, a) \in Int
         /\ Owned(c, u, a) \in Int
BY DEF Hit, Owned, Change, BalanceType

LEMMA TotalsType ==
  ASSUME TypeOK
  PROVE  Totals \in [Users -> [Assets -> Int]]
<1>1. \A u \in Users, a \in Assets : total(balance, u, a) \in Int
  BY DEF TypeOK, BalanceTable, BalanceType, total
<1> QED BY <1>1 DEF Totals

LEMMA TotalsAt ==
  ASSUME NEW u \in Users, NEW a \in Assets
  PROVE  /\ Totals[u][a] = balance["AVAILABLE"][u][a] + balance["FREEZE"][u][a]
         /\ Totals'[u][a] = balance'["AVAILABLE"][u][a] + balance'["FREEZE"][u][a]
BY DEF Totals, total

LEMMA NextTotals ==
  ASSUME TypeOK', NonNegative'
  PROVE  /\ Totals' \in [Users -> [Assets -> Int]]
         /\ Sound' => \A u \in Users, a \in Assets : Totals'[u][a] >= 0
<1>1. ASSUME NEW u \in Users, NEW a \in Assets
      PROVE  Totals'[u][a] \in Int /\ (Sound' => Totals'[u][a] >= 0)
  <2>1. /\ balance'["AVAILABLE"][u][a] \in Int /\ balance'["FREEZE"][u][a] \in Int
        /\ Sound' => balance'["AVAILABLE"][u][a] >= 0 /\ balance'["FREEZE"][u][a] >= 0
    BY DEF TypeOK, BalanceTable, BalanceType, NonNegative, NoDebt, Sound
  <2> QED BY <2>1, TotalsAt
<1>2. Totals' = [u \in Users |-> [a \in Assets |-> Totals'[u][a]]]
  BY DEF Totals
<1> QED BY <1>1, <1>2

LEMMA TotalsKept ==
  ASSUME \A u \in Users, a \in Assets :
           balance'["AVAILABLE"][u][a] + balance'["FREEZE"][u][a] =
             balance["AVAILABLE"][u][a] + balance["FREEZE"][u][a]
  PROVE  Totals' = Totals
BY DEF Totals, total

\* What a trade does to the total of a user in an asset.
LEMMA TradeTotals ==
  ASSUME Shape, NEW i \in DOMAIN orders, Trade(i), NEW u \in Users, NEW a \in Assets
  PROVE  Totals'[u][a] = Totals[u][a] + Owned(BidGets(i), u, a) + Owned(AskPays(i), u, a)
                                      + Owned(AskGets(i), u, a) + Owned(BidPays(i), u, a)
<1>1. taker # NoTaker /\ balance' = AfterTrade(i)
  BY DEF Trade, Tradable, Executing
<1>2. /\ BidGets(i) \in Change /\ AskPays(i) \in Change
      /\ AskGets(i) \in Change /\ BidPays(i) \in Change
  BY <1>1, TradeBalances
<1> DEFINE h(c, t) == Hit(c, t, u, a)
           o(c) == Owned(c, u, a)
           av == balance["AVAILABLE"][u][a]
           fr == balance["FREEZE"][u][a]
<1>3. av \in Int /\ fr \in Int
  BY DEF Shape, TypeOK, BalanceTable, BalanceType
<1>4. balance'["AVAILABLE"][u][a] =
        av + h(BidGets(i), "AVAILABLE") + h(AskPays(i), "AVAILABLE")
           + h(AskGets(i), "AVAILABLE") + h(BidPays(i), "AVAILABLE")
  BY <1>1, TradeAt DEF BalanceType
<1>5. balance'["FREEZE"][u][a] =
        fr + h(BidGets(i), "FREEZE") + h(AskPays(i), "FREEZE")
           + h(AskGets(i), "FREEZE") + h(BidPays(i), "FREEZE")
  BY <1>1, TradeAt DEF BalanceType
<1>6. \A c \in Change : /\ h(c, "AVAILABLE") + h(c, "FREEZE") = o(c)
                        /\ h(c, "AVAILABLE") \in Int /\ h(c, "FREEZE") \in Int
                        /\ o(c) \in Int
  BY HitsOwned
<1>7. /\ Totals[u][a] = av + fr
      /\ Totals'[u][a] = balance'["AVAILABLE"][u][a] + balance'["FREEZE"][u][a]
  BY TotalsAt
<1> HIDE DEF h, o, av, fr
<1>8. Totals'[u][a] = (av + fr) + o(BidGets(i)) + o(AskPays(i)) + o(AskGets(i)) + o(BidPays(i))
  BY <1>2, <1>3, <1>4, <1>5, <1>6, <1>7
<1> QED BY <1>7, <1>8 DEF o

(***************************************************************************)
(* As long as no fee above one was accepted, no order in the book and none *)
(* that is executed charges one.                                           *)
(***************************************************************************)
RateKept(o) == o.taker_fee <= Scale /\ o.maker_fee <= Scale

RatesKept ==
  "FEE" \notin faults =>
    /\ \A i \in DOMAIN orders : RateKept(orders[i])
    /\ taker # NoTaker => RateKept(taker)

\* Neither a fill nor coming to rest changes what an order charges.
LEMMA FillKeepsRate ==
  ASSUME NEW o \in Order, NEW b, NEW q, NEW f, RateKept(o)
  PROVE  RateKept(Fill(o, b, q, f)) /\ RateKept(Resting(o))
BY DEF RateKept, Fill, Resting, Order

LEMMA NextRates == Shape /\ RatesKept /\ [Next]_vars => RatesKept'
<1> SUFFICES ASSUME Shape, RatesKept, [Next]_vars PROVE RatesKept'
  OBVIOUS
<1>1. faults \subseteq faults' /\ cancelling \subseteq DOMAIN orders
  BY FaultsStay DEF Shape, TypeOK
<1>2. ASSUME \A j \in DOMAIN orders' : j \in DOMAIN orders /\ orders'[j] = orders[j],
             taker' = taker \/ taker' = NoTaker
      PROVE  RatesKept'
  BY <1>1, <1>2 DEF RatesKept, RateKept
<1>3. CASE \E u \in Users, in \in OrderInputs : OrderPut(u, in)
  <2>1. PICK u \in Users, in \in OrderInputs : OrderPut(u, in)
    BY <1>3
  <2>2. /\ taker' = NewOrder(order_id + 1, u, in) /\ orders' = orders
        /\ faults' = faults \cup Faults(in) /\ in \in OrderInput
    BY <2>1, EngineAssumption DEF OrderPut, bookVars
  <2>3. /\ taker'.taker_fee = in.taker_fee /\ taker'.maker_fee = in.maker_fee
        /\ in.taker_fee \in Int /\ in.maker_fee \in Int /\ Scale \in Int
    BY <2>2, MarketAssumption DEF NewOrder, OrderInput
  <2>4. "FEE" \notin faults' => RateKept(taker')
    BY <2>2, <2>3 DEF Faults, FaultKind, RateKept
  <2> QED BY <1>1, <2>2, <2>4 DEF RatesKept, RateKept
<1>4. ASSUME NEW i \in DOMAIN orders, Trade(i) PROVE RatesKept'
  <2>1. /\ taker # NoTaker /\ taker' = FilledTaker(i)
        /\ orders' = [orders EXCEPT ![i] = FilledMaker(i)]
    BY <1>4 DEF Trade, Tradable, Executing
  <2>2. taker \in Order /\ orders[i] \in Order
    BY <2>1, TradeNumbers
  <2>3. RateKept(taker) => RateKept(FilledTaker(i))
    BY <2>2, FillKeepsRate DEF FilledTaker
  <2>4. RateKept(orders[i]) => RateKept(FilledMaker(i))
    <3> DEFINE o == Fill(orders[i], TradedBase(i), TradedQuote(i),
                         IF is_ask(taker) THEN BidFee(i) ELSE AskFee(i))
    <3>1. RateKept(orders[i]) => RateKept(o)
      BY <2>2, FillKeepsRate
    <3>2. FilledMaker(i) =
            [o EXCEPT !.frozen = @ - IF is_ask(taker) THEN TradedQuote(i) ELSE TradedBase(i)]
      BY DEF FilledMaker
    <3> HIDE DEF o
    <3>3. FilledMaker(i).taker_fee = o.taker_fee /\ FilledMaker(i).maker_fee = o.maker_fee
      BY <3>2
    <3> QED BY <3>1, <3>3 DEF RateKept
  <2> QED BY <1>1, <2>1, <2>3, <2>4 DEF RatesKept, RateKept
<1>5. CASE \E i \in DOMAIN orders : Panic(i)
  BY <1>2, <1>5 DEF Panic, bookVars, execVars
<1>6. ASSUME FinishTaker PROVE RatesKept'
  BY <1>2, <1>6 DEF FinishTaker, ExecuteDone, Without
<1>7. ASSUME Executing, RestTaker PROVE RatesKept'
  <2>1. /\ taker \in Order /\ taker # NoTaker /\ orders'[taker.id] = Resting(taker)
        /\ \A j \in DOMAIN orders' \ {taker.id} :
             j \in DOMAIN orders \ Finished /\ orders'[j] = orders[j]
    BY <1>7, RestTakerOrders
  <2>2. taker' = NoTaker
    BY <1>7 DEF RestTaker, ExecuteDone
  <2>3. RateKept(taker) => RateKept(Resting(taker))
    BY <2>1, FillKeepsRate
  <2> QED BY <1>1, <2>1, <2>2, <2>3 DEF RatesKept, RateKept
<1>8. CASE CancelTaker
  BY <1>6, <1>8 DEF CancelTaker
<1>9. CASE EndTaker
  BY <1>6, <1>7, <1>9 DEF EndTaker
<1>10. ASSUME NEW i \in DOMAIN orders, OrderFinish(i) PROVE RatesKept'
  BY <1>2, <1>10 DEF OrderFinish, Without, execVars
<1>11. CASE \E u \in Users, i \in DOMAIN orders : OrderCancel(u, i)
  BY <1>10, <1>11 DEF OrderCancel
<1>12. CASE \E u \in Users, m \in Markets : OrderCancelAll(u, m)
  BY <1>2, <1>12 DEF OrderCancelAll, bookVars, execVars
<1>13. CASE \E i \in cancelling : CancelNext(i)
  BY <1>1, <1>10, <1>13 DEF CancelNext
<1>14. CASE \E u \in Users, a \in Assets, d \in Deltas : UpdateBalance(u, a, d)
  BY <1>2, <1>14 DEF UpdateBalance, bookVars, execVars
<1>15. CASE UNCHANGED vars
  BY <1>2, <1>15 DEF vars
<1> QED
  BY <1>3, <1>4, <1>5, <1>8, <1>9, <1>11, <1>12, <1>13, <1>14, <1>15 DEF Next

LEMMA RatesInvariant == Spec => []RatesKept
<1>1. Init => RatesKept
  BY DEF Init, RatesKept
<1> QED BY <1>1, ShapeInvariant, NextRates, PTL DEF Spec

\* In a sound engine every trade is safe.
LEMMA SoundIsSafe ==
  ASSUME Book, RatesKept, NEW i \in DOMAIN orders, taker # NoTaker, Sound
  PROVE  Safe(i)
<1>1. "PRICE" \notin faults /\ "FEE" \notin faults /\ faults \cap {"PRICE", "LIMIT"} = {}
  BY DEF Sound
<1> QED BY <1>1 DEF Safe, SoundTaker, Book, LimitSound, RatesKept, RateKept

LEMMA TradeIsExchange ==
  ASSUME Money, RatesKept, NEW i \in DOMAIN orders, Trade(i)
  PROVE  L!Exchange(BidOrder(i).user, AskOrder(i).user, Base(taker), Quote(taker))
<1> DEFINE buyer == BidOrder(i).user
           seller == AskOrder(i).user
           base == Base(taker)
           quote == Quote(taker)
           n == TradedBase(i)
           q == TradedQuote(i)
<1>1. Shape /\ Book /\ Tradable(i) /\ ~Refused(i)
      /\ inflow' = [inflow EXCEPT ![base] = @ - Charged(BidFee(i)),
                                ![quote] = @ - Charged(AskFee(i))]
      /\ faults' = faults
  BY DEF Money, Book, Trade
<1>2. /\ taker # NoTaker /\ taker \in Order /\ orders[i] \in Order
      /\ n \in Int /\ q \in Int /\ q = orders[i].price * n
      /\ Charged(BidFee(i)) \in Int /\ Charged(AskFee(i)) \in Int
  BY <1>1, TradedBounds, TradeNumbers
<1>3. buyer \in Users /\ seller \in Users /\ buyer # seller
  BY <1>1, <1>2, TradersDiffer DEF BidOrder, AskOrder, Order
<1>4. base \in Assets /\ quote \in Assets /\ base # quote
  BY <1>2, AssetTypes
<1>5. Charged(BidFee(i)) >= 0 /\ Charged(AskFee(i)) >= 0
  <2>1. AskFee(i) \in Int /\ BidFee(i) \in Int
    BY <1>1, <1>2, TradeNumbers
  <2> QED BY <2>1 DEF Charged
<1>6. Sound => /\ Charged(AskFee(i)) <= q /\ Charged(BidFee(i)) <= n
               /\ n > 0 /\ q > 0
  <2> SUFFICES ASSUME Sound
               PROVE  /\ Charged(AskFee(i)) <= q /\ Charged(BidFee(i)) <= n
                      /\ n > 0 /\ q > 0
    OBVIOUS
  <2>1. Safe(i)
    BY <1>1, <1>2, SoundIsSafe
  <2>2. /\ n \in Nat /\ n > 0 /\ q \in Nat /\ orders[i].price \in Nat /\ orders[i].price > 0
    BY <1>1, <2>1, SoundTrade DEF Safe
  <2>3. Charged(AskFee(i)) \in 0..q /\ Charged(BidFee(i)) \in 0..n
    BY <1>1, <2>1, TradeFees
  <2>4. q >= n
    BY <1>2, <2>2, ProductAtLeast
  <2> QED BY <1>2, <2>2, <2>3, <2>4
<1>7. \A u \in Users, a \in Assets : Totals[u][a] \in Int
  BY <1>1, TotalsType DEF Shape
<1>8. \A u \in Users, a \in Assets :
        Totals'[u][a] = Totals[u][a] + Owned(BidGets(i), u, a) + Owned(AskPays(i), u, a)
                                     + Owned(AskGets(i), u, a) + Owned(BidPays(i), u, a)
  BY <1>1, TradeTotals
<1>9. ASSUME NEW u \in Users, NEW a \in Assets
      PROVE  /\ Owned(BidGets(i), u, a) = IF u = buyer /\ a = base THEN n - Charged(BidFee(i)) ELSE 0
             /\ Owned(AskPays(i), u, a) = IF u = seller /\ a = base THEN -n ELSE 0
             /\ Owned(AskGets(i), u, a) = IF u = seller /\ a = quote THEN q - Charged(AskFee(i)) ELSE 0
             /\ Owned(BidPays(i), u, a) = IF u = buyer /\ a = quote THEN -q ELSE 0
  BY DEF Owned, BidGets, AskPays, AskGets, BidPays
<1> HIDE DEF buyer, seller, base, quote, n, q
<1>10. Totals'[buyer][base] = Totals[buyer][base] + (n - Charged(BidFee(i)))
  BY <1>2, <1>3, <1>4, <1>7, <1>8, <1>9
<1>11. Totals'[seller][base] = Totals[seller][base] - n
  BY <1>2, <1>3, <1>4, <1>7, <1>8, <1>9
<1>12. Totals'[seller][quote] = Totals[seller][quote] + (q - Charged(AskFee(i)))
  BY <1>2, <1>3, <1>4, <1>7, <1>8, <1>9
<1>13. Totals'[buyer][quote] = Totals[buyer][quote] - q
  BY <1>2, <1>3, <1>4, <1>7, <1>8, <1>9
<1>14. ASSUME NEW u \in Users, NEW a \in Assets,
              u \notin {buyer, seller} \/ a \notin {base, quote}
       PROVE  Totals'[u][a] = Totals[u][a]
  <2>1. /\ Owned(BidGets(i), u, a) = 0 /\ Owned(AskPays(i), u, a) = 0
        /\ Owned(AskGets(i), u, a) = 0 /\ Owned(BidPays(i), u, a) = 0
    BY <1>9, <1>14
  <2> QED BY <1>7, <1>8, <2>1
<1> DEFINE baseIn == Totals'[buyer][base] - Totals[buyer][base]
           basePaid == Totals[seller][base] - Totals'[seller][base]
           quoteIn == Totals'[seller][quote] - Totals[seller][quote]
           quotePaid == Totals[buyer][quote] - Totals'[buyer][quote]
<1>15. baseIn = n - Charged(BidFee(i)) /\ basePaid = n /\ quoteIn = q - Charged(AskFee(i)) /\ quotePaid = q
  BY <1>2, <1>3, <1>4, <1>7, <1>10, <1>11, <1>12, <1>13
<1>16. /\ basePaid - baseIn = Charged(BidFee(i)) /\ quotePaid - quoteIn = Charged(AskFee(i))
       /\ baseIn <= basePaid /\ quoteIn <= quotePaid
       /\ Sound => basePaid > 0 /\ baseIn >= 0 /\ quotePaid > 0 /\ quoteIn >= 0
  <2> HIDE DEF baseIn, basePaid, quoteIn, quotePaid
  <2> QED BY <1>2, <1>5, <1>6, <1>15
<1>17. inflow' = [inflow EXCEPT ![base] = @ - (basePaid - baseIn),
                                ![quote] = @ - (quotePaid - quoteIn)]
  <2> HIDE DEF baseIn, basePaid, quoteIn, quotePaid
  <2> QED BY <1>1, <1>16 DEF base, quote
<1>18. UNCHANGED Sound
  BY <1>1 DEF Sound
<1> QED
  BY <1>3, <1>14, <1>16, <1>17, <1>18
     DEF L!Exchange, buyer, seller, base, quote

LEMMA UpdateIsUpdate ==
  ASSUME Shape, NEW u \in Users, NEW a \in Assets, NEW d \in Deltas, UpdateBalance(u, a, d)
  PROVE  L!Update(u, a)
<1> DEFINE c == [type |-> "AVAILABLE", user |-> u, asset |-> a, change |-> d]
<1>1. /\ balance' = Applied(balance, c) /\ inflow' = [inflow EXCEPT ![a] = @ + d]
      /\ UNCHANGED Sound
  BY DEF UpdateBalance, Sound
<1>2. c \in Change /\ balance \in BalanceTable /\ d \in Int
  BY EngineAssumption DEF Change, BalanceType, Shape, TypeOK
<1>3. ASSUME NEW v \in Users, NEW b \in Assets
      PROVE  /\ Totals'[v][b] = Totals[v][b] + Owned(c, v, b)
             /\ Totals[v][b] \in Int
  <2>1. balance'["AVAILABLE"][v][b] = balance["AVAILABLE"][v][b] + Hit(c, "AVAILABLE", v, b)
        /\ balance'["FREEZE"][v][b] = balance["FREEZE"][v][b] + Hit(c, "FREEZE", v, b)
    BY <1>1, <1>2, AppliedAt DEF BalanceType
  <2>2. balance["AVAILABLE"][v][b] \in Int /\ balance["FREEZE"][v][b] \in Int
    BY <1>2 DEF BalanceTable, BalanceType
  <2>3. /\ Hit(c, "AVAILABLE", v, b) + Hit(c, "FREEZE", v, b) = Owned(c, v, b)
        /\ Hit(c, "AVAILABLE", v, b) \in Int /\ Hit(c, "FREEZE", v, b) \in Int
    BY <1>2, HitsOwned
  <2> HIDE DEF c
  <2> QED BY <2>1, <2>2, <2>3, TotalsAt
<1>4. Owned(c, u, a) = d /\ \A v \in Users, b \in Assets : <<v, b>> # <<u, a>> => Owned(c, v, b) = 0
  BY DEF Owned
<1> HIDE DEF c
<1>5. Totals'[u][a] - Totals[u][a] = d
  BY <1>2, <1>3, <1>4
<1>6. \A v \in Users, b \in Assets : <<v, b>> # <<u, a>> => Totals'[v][b] = Totals[v][b]
  BY <1>3, <1>4
<1> QED BY <1>1, <1>5, <1>6 DEF L!Update

LEMMA TotalsUnmoved ==
  ASSUME Shape, [Next]_vars,
         ~\E i \in DOMAIN orders : Trade(i),
         ~\E u \in Users, a \in Assets, d \in Deltas : UpdateBalance(u, a, d)
  PROVE  UNCHANGED <<Totals, inflow>>
<1>1. ASSUME balance' = balance PROVE Totals' = Totals
  BY <1>1 DEF Totals, total
<1>2. ASSUME NEW v \in Users, NEW b \in Assets, NEW n \in Int,
             balance' \in {frozen(balance, v, b, n), unfrozen(balance, v, b, n)}
      PROVE  Totals' = Totals
  <2>1. ASSUME NEW u \in Users, NEW a \in Assets
        PROVE  balance'["AVAILABLE"][u][a] + balance'["FREEZE"][u][a] =
                 balance["AVAILABLE"][u][a] + balance["FREEZE"][u][a]
    <3> DEFINE e == IF u = v /\ a = b THEN n ELSE 0
               av == balance["AVAILABLE"][u][a]
               fr == balance["FREEZE"][u][a]
    <3>1. balance \in BalanceTable /\ av \in Int /\ fr \in Int /\ e \in Int
      BY DEF Shape, TypeOK, BalanceTable, BalanceType
    <3>2. \/ balance'["AVAILABLE"][u][a] = av - e /\ balance'["FREEZE"][u][a] = fr + e
          \/ balance'["AVAILABLE"][u][a] = av + e /\ balance'["FREEZE"][u][a] = fr - e
      BY <1>2, <3>1, FreezeAt
    <3> HIDE DEF e, av, fr
    <3>3. balance'["AVAILABLE"][u][a] + balance'["FREEZE"][u][a] = av + fr
      BY <3>1, <3>2
    <3> QED BY <3>3 DEF av, fr
  <2> QED BY <2>1, TotalsKept
<1>3. CASE \E u \in Users, in \in OrderInputs : OrderPut(u, in)
  BY <1>1, <1>3 DEF OrderPut
<1>4. CASE \E i \in DOMAIN orders : Panic(i)
  BY <1>1, <1>4 DEF Panic
<1>5. ASSUME FinishTaker PROVE UNCHANGED <<Totals, inflow>>
  BY <1>1, <1>5 DEF FinishTaker, ExecuteDone
<1>6. ASSUME Executing, RestTaker PROVE UNCHANGED <<Totals, inflow>>
  <2> DEFINE o == Resting(taker)
  <2>1. taker \in Order
    BY <1>6, RestTakerOrders
  <2>2. o \in Order
    BY <2>1, RestingType
  <2>3. o.user \in Users /\ FrozenAsset(o) \in Assets /\ o.frozen \in Int
    BY <2>2, AssetTypes DEF Order
  <2>4. balance' = frozen(balance, o.user, FrozenAsset(o), o.frozen) /\ inflow' = inflow
    BY <1>6 DEF RestTaker, ExecuteDone
  <2> HIDE DEF o
  <2> QED BY <1>2, <2>3, <2>4
<1>7. CASE CancelTaker
  BY <1>5, <1>7 DEF CancelTaker
<1>8. CASE EndTaker
  BY <1>5, <1>6, <1>8 DEF EndTaker
<1>9. ASSUME NEW i \in DOMAIN orders, OrderFinish(i) PROVE UNCHANGED <<Totals, inflow>>
  <2>1. balance' = Unfrozen(balance, orders[i]) /\ inflow' = inflow
    BY <1>9 DEF OrderFinish
  <2>2. orders[i] \in Order
    BY DEF Shape, TypeOK
  <2>3. orders[i].user \in Users /\ FrozenAsset(orders[i]) \in Assets /\ orders[i].frozen \in Int
    BY <2>2, AssetTypes DEF Order
  <2> QED BY <1>1, <1>2, <2>1, <2>3 DEF Unfrozen
<1>10. CASE \E u \in Users, i \in DOMAIN orders : OrderCancel(u, i)
  BY <1>9, <1>10 DEF OrderCancel
<1>11. CASE \E u \in Users, m \in Markets : OrderCancelAll(u, m)
  BY <1>1, <1>11 DEF OrderCancelAll
<1>12. CASE \E i \in cancelling : CancelNext(i)
  BY <1>9, <1>12 DEF CancelNext, Shape, TypeOK
<1>13. CASE UNCHANGED vars
  BY <1>1, <1>13 DEF vars
<1> QED
  BY <1>3, <1>4, <1>7, <1>8, <1>10, <1>11, <1>12, <1>13 DEF Next

LEMMA InitLedger == Init => L!LedgerInit
<1> SUFFICES ASSUME Init PROVE L!LedgerInit
  OBVIOUS
<1>1. InitialBalance \in [Users -> [Assets -> Nat]]
  BY EngineAssumption
<1>2. ASSUME NEW u \in Users, NEW a \in Assets
      PROVE  total(balance, u, a) = InitialBalance[u][a]
  <2>1. balance["AVAILABLE"][u][a] = InitialBalance[u][a] /\ balance["FREEZE"][u][a] = 0
    BY DEF Init, BalanceType
  <2>2. InitialBalance[u][a] \in Int
    BY <1>1
  <2> QED BY <2>1, <2>2 DEF total
<1>3. Totals = InitialBalance
  <2>1. Totals = [u \in Users |-> [a \in Assets |-> InitialBalance[u][a]]]
    BY <1>2 DEF Totals
  <2> QED BY <1>1, <2>1
<1> QED BY <1>3 DEF L!LedgerInit, Init, Sound

LEMMA NextLedger == Money /\ RatesKept /\ [Next]_vars => [L!LedgerNext]_(L!ledgerVars)
<1> SUFFICES ASSUME Money, RatesKept, [Next]_vars PROVE [L!LedgerNext]_(L!ledgerVars)
  OBVIOUS
<1>1. Shape /\ Money' /\ TypeOK'
  BY NextBook, NextFrozen DEF Money, Book, Shape
<1>2. (Money => NonNegative)'
  BY MoneyNonNegative, PTL
<1>3. /\ Totals' \in [Users -> [Assets -> Int]]
      /\ Sound' => \A u \in Users, a \in Assets : Totals'[u][a] >= 0
  BY <1>1, <1>2, NextTotals
<1>4. CASE \E i \in DOMAIN orders : Trade(i)
  <2>1. PICK i \in DOMAIN orders : Trade(i)
    BY <1>4
  <2>2. taker # NoTaker /\ taker \in Order /\ orders[i] \in Order
    BY <2>1, TradedBounds DEF Trade, Money
  <2>3. BidOrder(i).user \in Users /\ AskOrder(i).user \in Users
    BY <2>2 DEF BidOrder, AskOrder, Order
  <2>4. <<Base(taker), Quote(taker)>> \in TradingPairs
    BY <2>2 DEF TradingPairs, Base, Quote, Order
  <2>5. L!Exchange(BidOrder(i).user, AskOrder(i).user, Base(taker), Quote(taker))
    BY <2>1, TradeIsExchange
  <2>6. \E buyer, seller \in Users, p \in TradingPairs : L!Exchange(buyer, seller, p[1], p[2])
    <3> DEFINE p == <<Base(taker), Quote(taker)>>
    <3>1. p[1] = Base(taker) /\ p[2] = Quote(taker)
      OBVIOUS
    <3> HIDE DEF p
    <3> QED BY <2>3, <2>4, <2>5, <3>1 DEF p
  <2> QED BY <1>3, <2>6 DEF L!LedgerNext
<1>5. CASE \E u \in Users, a \in Assets, d \in Deltas : UpdateBalance(u, a, d)
  <2>1. \E u \in Users, a \in Assets : L!Update(u, a)
    BY <1>1, <1>5, UpdateIsUpdate
  <2> QED BY <1>3, <2>1 DEF L!LedgerNext
<1>6. CASE /\ ~\E i \in DOMAIN orders : Trade(i)
           /\ ~\E u \in Users, a \in Assets, d \in Deltas : UpdateBalance(u, a, d)
  <2>1. UNCHANGED <<Totals, inflow>> /\ faults \subseteq faults'
    BY <1>1, <1>6, TotalsUnmoved, FaultsStay
  <2>2. CASE faults' = faults
    <3>1. UNCHANGED Sound
      BY <2>2 DEF Sound
    <3> QED BY <2>1, <3>1 DEF L!ledgerVars
  <2>3. CASE faults' # faults
    <3>1. Sound' = FALSE
      BY <2>1, <2>3 DEF Sound
    <3>2. L!AcceptFault
      BY <2>1, <3>1 DEF L!AcceptFault
    <3> QED BY <1>3, <3>2 DEF L!LedgerNext
  <2> QED BY <2>2, <2>3
<1> QED BY <1>4, <1>5, <1>6

(***************************************************************************)
(* The engine implements the ledger: whatever put_order, execute_order,    *)
(* order_cancel, order_cancel_all and update_balance do, nobody's total    *)
(* moves but by a deposit, a withdrawal or an exchange between two users   *)
(* in which neither receives more than the other one pays.  As long as the *)
(* requests put_order has accepted are sound, both of them really pay and  *)
(* no total becomes negative.                                              *)
(***************************************************************************)
THEOREM EngineImplementsLedger == Spec => ImplementsLedger
<1>1. Spec => L!LedgerSpec
  BY InitLedger, NextLedger, MoneyInvariant, RatesInvariant, PTL DEF Spec, L!LedgerSpec
<1> QED BY <1>1 DEF ImplementsLedger

=============================================================================
