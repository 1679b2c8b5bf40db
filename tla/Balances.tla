------------------------------ MODULE Balances ------------------------------
(***************************************************************************)
(* The balance table of the matching engine (BalanceManager) and the one   *)
(* guarded way to change it (BalanceUpdateController::update_user_balance).*)
(* A table maps a balance type, a user and an asset to an amount.  A key   *)
(* that is missing from the source's map reads as zero, so the table is    *)
(* total here.                                                             *)
(*                                                                         *)
(* Amounts are integers: multiples of the smallest unit of the asset, the  *)
(* precision to which every write is rounded.  The code checks the sign of *)
(* a balance with debug_assert only, so an operator below may return a     *)
(* negative amount exactly as a release build would; that it never does is *)
(* a property of the system (module Market), not of these operators.       *)
(***************************************************************************)
EXTENDS Integers

CONSTANTS Users, Assets

BalanceType == {"AVAILABLE", "FREEZE"}

BalanceTable == [BalanceType -> [Users -> [Assets -> Int]]]

(***************************************************************************)
(* BalanceManager                                                          *)
(***************************************************************************)
add(bal, t, u, a, n) == [bal EXCEPT ![t][u][a] = @ + n]

sub(bal, t, u, a, n) == [bal EXCEPT ![t][u][a] = @ - n]

frozen(bal, u, a, n) == add(sub(bal, "AVAILABLE", u, a, n), "FREEZE", u, a, n)

\* Mutant: the amount is made available and stays frozen.
unfrozen_AddOnly(bal, u, a, n) == add(bal, "AVAILABLE", u, a, n)

unfrozen(bal, u, a, n) == sub(add(bal, "AVAILABLE", u, a, n), "FREEZE", u, a, n)

total(bal, u, a) == bal["AVAILABLE"][u][a] + bal["FREEZE"][u][a]

(***************************************************************************)
(* BalanceUpdateController.  A change c is what BalanceUpdateParams carry: *)
(* the balance type, user and asset it hits and the signed amount.  An     *)
(* update is refused when the balance does not cover a negative change.    *)
(***************************************************************************)
Change == [type : BalanceType, user : Users, asset : Assets, change : Int]

Covered(bal, c) == c.change < 0 => bal[c.type][c.user][c.asset] >= -c.change

Applied(bal, c) == add(bal, c.type, c.user, c.asset, c.change)

(***************************************************************************)
(* Within one business id the cache key of an update is its balance type,  *)
(* user and asset: a second update with the same key is a "duplicate       *)
(* request" and is refused, whatever its amount.                           *)
(***************************************************************************)
CacheKey(c) == <<c.type, c.user, c.asset>>

=============================================================================
