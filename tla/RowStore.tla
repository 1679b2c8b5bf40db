------------------------------ MODULE RowStore ------------------------------
(***************************************************************************)
(* What a database writer promises its clients.  It takes rows, stores     *)
(* each of them at some later time and in any order, and from time to time *)
(* reports, for some tags, a position: every row it has taken at or below  *)
(* that position of the tag is stored.  Positions are reported in          *)
(* ascending order, and each is the position of a row it has taken.        *)
(* Channels, tasks, retries and counters do not appear here.               *)
(*                                                                         *)
(* Clients offer the rows of a tag in ascending order of position: a       *)
(* partition of a Kafka topic is read from low to high offsets.            *)
(***************************************************************************)
EXTENDS Integers, Sequences

CONSTANTS Tags, NoNotify, Input

VARIABLES taken, stored, reported

storeVars == <<taken, stored, reported>>

StoreInit == taken = {} /\ stored = {} /\ reported = [t \in Tags |-> -1]

Of(r, t) == Input[r] # NoNotify /\ Input[r].tag = t

Take(r) ==
  /\ r \notin taken
  /\ \A t \in Tags : Of(r, t) => Input[r].pos > reported[t]
  /\ taken' = taken \cup {r}
  /\ UNCHANGED <<stored, reported>>

Store ==
  /\ stored \subseteq stored' /\ stored' \subseteq taken
  /\ UNCHANGED <<taken, reported>>

Report ==
  /\ DOMAIN reported' = Tags
  /\ \A t \in Tags : reported'[t] # reported[t] =>
       /\ reported'[t] > reported[t]
       /\ \E r \in taken : Of(r, t) /\ Input[r].pos = reported'[t]
       /\ \A r \in taken : Of(r, t) /\ Input[r].pos <= reported'[t] => r \in stored
  /\ UNCHANGED <<taken, stored>>

StoreNext == (\E r \in DOMAIN Input : Take(r)) \/ Store \/ Report

StoreSpec == StoreInit /\ [][StoreNext]_storeVars

=============================================================================
