------------------------------- MODULE Ledger -------------------------------
(***************************************************************************)
(* What the exchange promises about money, and all of it: a user's total   *)
(* in an asset changes only when the user deposits or withdraws, or when   *)
(* two different users trade, and nobody ever receives more than the other *)
(* one pays.  As long as every request was sound, both really pay, each    *)
(* out of its own total, and neither gives up more than what it receives.  *)
(* Books, orders and frozen balances do not appear here: placing, resting, *)
(* matching and cancelling orders must not be visible in anyone's total.   *)
(***************************************************************************)
EXTENDS Integers

CONSTANTS Users, Assets,
          Pairs,             \* the <<base, quote>> pairs that trade
          InitialBalance

VARIABLES owned,             \* what each user owns of each asset
          inflow,            \* deposits - withdrawals - fees, by asset
          sound              \* no faulty request was accepted so far

ledgerVars == <<owned, inflow, sound>>

LedgerInit ==
  /\ owned = InitialBalance
  /\ inflow = [a \in Assets |-> 0]
  /\ sound = TRUE

\* A request is accepted that the promises about amounts are not made for.
AcceptFault == sound' = FALSE /\ UNCHANGED <<owned, inflow>>

\* A deposit or a withdrawal: one total moves, and the inflow with it.
Update(u, a) ==
  /\ \A v \in Users, b \in Assets :
       <<v, b>> # <<u, a>> => owned'[v][b] = owned[v][b]
  /\ inflow' = [inflow EXCEPT ![a] = @ + (owned'[u][a] - owned[u][a])]
  /\ UNCHANGED sound

\* Buyer and seller exchange base for quote; the fees leave the ledger.
Exchange(buyer, seller, base, quote) ==
  LET baseIn   == owned'[buyer][base] - owned[buyer][base]
      basePaid == owned[seller][base] - owned'[seller][base]
      quoteIn   == owned'[seller][quote] - owned[seller][quote]
      quotePaid == owned[buyer][quote] - owned'[buyer][quote]
  IN  /\ buyer # seller
      /\ baseIn <= basePaid /\ quoteIn <= quotePaid
      /\ sound => basePaid > 0 /\ baseIn >= 0 /\ quotePaid > 0 /\ quoteIn >= 0
      /\ \A v \in Users, b \in Assets :
           v \notin {buyer, seller} \/ b \notin {base, quote}
             => owned'[v][b] = owned[v][b]
      /\ inflow' = [inflow EXCEPT ![base] = @ - (basePaid - baseIn),
                                  ![quote] = @ - (quotePaid - quoteIn)]
      /\ UNCHANGED sound

LedgerNext ==
  /\ owned' \in [Users -> [Assets -> Int]]
  /\ sound' => \A u \in Users, a \in Assets : owned'[u][a] >= 0
  /\ \/ AcceptFault
     \/ \E u \in Users, a \in Assets : Update(u, a)
     \/ \E buyer, seller \in Users, p \in Pairs :
          Exchange(buyer, seller, p[1], p[2])

LedgerSpec == LedgerInit /\ [][LedgerNext]_ledgerVars

=============================================================================
