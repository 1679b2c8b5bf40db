---------------------------- MODULE MarketLedger ----------------------------
(***************************************************************************)
(* The engine implements the ledger: a user's total is what is available   *)
(* plus what is frozen (BalanceManager::total).                            *)
(***************************************************************************)
EXTENDS Market

Totals == [u \in Users |-> [a \in Assets |-> total(balance, u, a)]]

TradingPairs == {<<Conf[m].base, Conf[m].quote>> : m \in Markets}

Sound == faults = {}

L == INSTANCE Ledger WITH owned <- Totals, Pairs <- TradingPairs, sound <- Sound

(***************************************************************************)
(* Every step of the engine is a deposit, a withdrawal or an exchange      *)
(* between two users, or it leaves every total alone.                      *)
(***************************************************************************)
ImplementsLedger == L!LedgerSpec

=============================================================================
