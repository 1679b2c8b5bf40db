----------------------------- MODULE MCProducer -----------------------------
(***************************************************************************)
(* Both managers of the exchange, and operations as the engine performs    *)
(* them: a deposit, and an order that is put and finished.                 *)
(***************************************************************************)
EXTENDS Producer

MCPersistors == <<"simple", "full">>

MCOperations == << <<"balances", "deposits">>, <<"orders", "orders">> >>

\* An order that trades with several others: more messages than the reserve.
MCBurst == << <<"orders", "trades", "trades">> >>

=============================================================================
