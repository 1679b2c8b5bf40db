---------------------------- MODULE MCPersistor -----------------------------
(***************************************************************************)
(* The trades topic with one partition, one of whose messages cannot be    *)
(* decoded.                                                                *)
(***************************************************************************)
EXTENDS Persistor

MCChain == <<"trade", "trade", "kline">>

MCLog == [p \in Tags |-> <<FALSE, TRUE, TRUE>>]

=============================================================================
