-------------------------- MODULE MCDatabaseWriter --------------------------
(***************************************************************************)
(* A writer with two tags: rows of two Kafka partitions in one table.  The *)
(* operation log appends rows without a notification.                      *)
(***************************************************************************)
EXTENDS DatabaseWriter

CONSTANTS p0, p1

Row(t, n) == [tag |-> t, pos |-> n]

MCInput == <<Row(p0, 0), Row(p0, 1), Row(p1, 0), Row(p0, 3)>>

\* With a row of the operation log.
MCMoreRows == <<Row(p0, 0), Row(p0, 1), Row(p1, 0), NoNotify, Row(p0, 3)>>

=============================================================================
