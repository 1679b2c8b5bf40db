------------------------------ MODULE Recovery ------------------------------
(***************************************************************************)
(* How the match engine outlives its process: the operation log, the       *)
(* slices dumped by forked children, and init_from_db                      *)
(* (matchengine/controller.rs, matchengine/persist/state_save_load.rs).    *)
(*                                                                         *)
(* The state of the engine is the set of the operations that made it; its  *)
(* orders and its balances are two copies of that set, because they are    *)
(* dumped, deleted and loaded one after the other.  Operations are         *)
(* numbered in the order they are executed, over all processes.            *)
(***************************************************************************)
EXTENDS Integers, FiniteSets

CONSTANTS
  SLICE_KEEP_TIME,
  NoSlice,     \* no row of slice_history
  MaxOps, MaxForks, MaxStarts, MaxTime    \* bounds of a run

ASSUME RecoveryAssumption ==
  /\ SLICE_KEEP_TIME \in Nat \ {0}
  /\ {MaxOps, MaxForks, MaxStarts, MaxTime} \subseteq Nat

VARIABLES
  up,             \* "up", "down", "failed", or what init_from_db does next
  process,        \* the number of the process that runs or starts
  engine,         \* [orders, balances]
  operation_log_id,
  pending,        \* rows [id, op] accepted by the log's writer, in memory
  from,           \* the slice init_from_db starts from
  children,       \* the dumping processes
  operation_log, order_slice, balance_slice, slice_history,   \* tables
  slice_serial,   \* the last id of slice_history
  ops, forks, clock,
  sound           \* see TheSlice

engineVars == <<up, process, engine, operation_log_id, pending, from>>
sliceVars == <<order_slice, balance_slice, slice_history, slice_serial>>
vars == <<engineVars, children, operation_log, sliceVars, ops, forks, clock, sound>>

New == [orders |-> {}, balances |-> {}]

Init ==
  /\ up = "up" /\ process = 1 /\ engine = New
  /\ operation_log_id = 0 /\ pending = {} /\ from = NoSlice
  /\ children = {}
  /\ operation_log = {} /\ order_slice = {} /\ balance_slice = {}
  /\ slice_history = {} /\ slice_serial = 0
  /\ ops = 0 /\ forks = 0 /\ clock = 0 /\ sound = TRUE

Tick ==
  /\ clock < MaxTime
  /\ clock' = clock + 1
  /\ UNCHANGED <<engineVars, children, operation_log, sliceVars, ops, forks, sound>>

(***************************************************************************)
(* An operation is executed and then given to the writer of the log.       *)
(***************************************************************************)
Execute ==
  /\ up = "up"
  /\ ops < MaxOps
  /\ ops' = ops + 1
  /\ engine' = [engine EXCEPT !.orders = @ \cup {ops + 1}, !.balances = @ \cup {ops + 1}]
  /\ UNCHANGED <<up, process, from, children, operation_log, sliceVars, forks, clock, sound>>

\* append_operation_log: the row is lost if the writer's channel is full.
Operation(accepted) ==
  /\ Execute
  /\ operation_log_id' = operation_log_id + 1
  /\ pending' = IF accepted THEN pending \cup {[id |-> operation_log_id + 1, op |-> ops + 1]}
                ELSE pending

\* batch_order_put returns an error for its second order's market: what it
\* has done before stays done and is not logged.
UnloggedBatch ==
  /\ Execute
  /\ UNCHANGED <<operation_log_id, pending>>

\* The writer's tasks insert in any order, ON CONFLICT DO NOTHING.
StoreLog(r) ==
  /\ up = "up"
  /\ pending' = pending \ {r}
  /\ operation_log' = IF \E q \in operation_log : q.id = r.id THEN operation_log
                      ELSE operation_log \cup {r}
  /\ UNCHANGED <<up, process, engine, operation_log_id, from, children, sliceVars,
                 ops, forks, clock, sound>>

(***************************************************************************)
(* The process ends: a crash, or a shutdown, which does not wait for the   *)
(* writer of the log either.  The children live on.                        *)
(***************************************************************************)
Crash ==
  /\ up \notin {"down", "failed"}
  /\ up' = "down"
  /\ pending' = {}
  /\ UNCHANGED <<process, engine, operation_log_id, from, children, operation_log,
                 sliceVars, ops, forks, clock, sound>>

(***************************************************************************)
(* fork_and_make_slice.  A child holds the engine as it was forked, and    *)
(* takes the time it connects at for its slice_id.                         *)
(***************************************************************************)
Fork ==
  /\ up = "up"
  /\ forks < MaxForks
  /\ forks' = forks + 1
  /\ children' = children \cup
       {[pid |-> forks + 1, process |-> process, engine |-> engine, end |-> operation_log_id,
         time |-> 0, phase |-> "connect", doomed |-> {}]}
  /\ UNCHANGED <<engineVars, operation_log, sliceVars, ops, clock, sound>>

Becomes(c, d) ==
  /\ children' = (children \ {c}) \cup {d}
  /\ UNCHANGED <<engineVars, operation_log, ops, forks, clock>>

Connect(c) ==
  /\ c.phase = "connect"
  /\ Becomes(c, [c EXCEPT !.time = clock, !.phase = "orders"])
  /\ UNCHANGED <<sliceVars, sound>>

DumpOrders(c) ==
  /\ c.phase = "orders"
  /\ order_slice' = order_slice \cup {[slice_id |-> c.time, was |-> c.engine.orders]}
  /\ Becomes(c, [c EXCEPT !.phase = "balances"])
  /\ UNCHANGED <<balance_slice, slice_history, slice_serial, sound>>

HistoryRow(c) ==
  [id |-> slice_serial + 1, time |-> c.time, end |-> c.end, engine |-> c.engine]

\* Mutant: slice_history first.
DumpBalances_AfterHistory(c) ==
  /\ c.phase = "balances"
  /\ slice_serial' = slice_serial + 1
  /\ slice_history' = slice_history \cup {HistoryRow(c)}
  /\ sound' = (sound /\ c.process = process)
  /\ Becomes(c, [c EXCEPT !.phase = "history"])
  /\ UNCHANGED <<order_slice, balance_slice>>

DumpBalances(c) ==
  /\ c.phase = "balances"
  /\ balance_slice' = balance_slice \cup {[slice_id |-> c.time, was |-> c.engine.balances]}
  /\ Becomes(c, [c EXCEPT !.phase = "history"])
  /\ UNCHANGED <<order_slice, slice_history, slice_serial, sound>>

UpdateSliceHistory(c) ==
  /\ c.phase = "history"
  /\ slice_serial' = slice_serial + 1
  /\ slice_history' = slice_history \cup {HistoryRow(c)}
  /\ sound' = (sound /\ c.process = process)
  /\ Becomes(c, [c EXCEPT !.phase = "clear"])
  /\ UNCHANGED <<order_slice, balance_slice>>

Times == {h.time : h \in slice_history}

\* Mutant: SLICE_KEEP_TIME is forgotten.
Old_KeepsNothing(c) == {t \in Times : t <= c.time}

Old(c) == {t \in Times : t <= c.time - SLICE_KEEP_TIME}

ClearSlice(c) ==
  /\ c.phase = "clear"
  /\ Becomes(c, [c EXCEPT !.doomed = Old(c), !.phase = "delete_balances"])
  /\ UNCHANGED <<sliceVars, sound>>

(***************************************************************************)
(* delete_slice, for each of the old slices: three statements.             *)
(***************************************************************************)
Victim(c) == CHOOSE t \in c.doomed : TRUE

DeleteBalances(c) ==
  /\ c.phase = "delete_balances" /\ c.doomed # {}
  /\ balance_slice' = {r \in balance_slice : r.slice_id # Victim(c)}
  /\ Becomes(c, [c EXCEPT !.phase = "delete_orders"])
  /\ UNCHANGED <<order_slice, slice_history, slice_serial, sound>>

DeleteOrders(c) ==
  /\ c.phase = "delete_orders"
  /\ order_slice' = {r \in order_slice : r.slice_id # Victim(c)}
  /\ Becomes(c, [c EXCEPT !.phase = "delete_history"])
  /\ UNCHANGED <<balance_slice, slice_history, slice_serial, sound>>

DeleteHistory(c) ==
  /\ c.phase = "delete_history"
  /\ slice_history' = {h \in slice_history : h.time # Victim(c)}
  /\ Becomes(c, [c EXCEPT !.doomed = @ \ {Victim(c)}, !.phase = "delete_balances"])
  /\ UNCHANGED <<order_slice, balance_slice, slice_serial, sound>>

\* A child is done, or an error or a signal ends it wherever it is.
ChildExit(c) ==
  /\ children' = children \ {c}
  /\ UNCHANGED <<engineVars, operation_log, sliceVars, ops, forks, clock, sound>>

(***************************************************************************)
(* init_from_db: the last slice, its balances, its orders, the log.        *)
(***************************************************************************)
get_last_slice(h) == h \in slice_history /\ \A g \in slice_history : g.id <= h.id

Start ==
  /\ up \in {"down", "failed"}
  /\ process < MaxStarts
  /\ process' = process + 1
  /\ engine' = New /\ operation_log_id' = 0
  /\ \/ slice_history = {} /\ from' = NoSlice /\ up' = "log"
     \/ \E h \in slice_history : get_last_slice(h) /\ from' = h /\ up' = "balances"
  /\ UNCHANGED <<pending, children, operation_log, sliceVars, ops, forks, clock, sound>>

Dumped(rows, t) == {r.was : r \in {q \in rows : q.slice_id = t}}

\* No row: nothing is loaded.  Rows of two dumps: a mixture, marked by 0.
Mixture(S) == IF Cardinality(S) > 1 THEN {0} \cup UNION S ELSE UNION S

LoadBalances ==
  /\ up = "balances"
  /\ engine' = [engine EXCEPT !.balances = Mixture(Dumped(balance_slice, from.time))]
  /\ up' = "orders"
  /\ UNCHANGED <<process, operation_log_id, pending, from, children, operation_log,
                 sliceVars, ops, forks, clock, sound>>

LoadOrders ==
  /\ up = "orders"
  /\ engine' = [engine EXCEPT !.orders = Mixture(Dumped(order_slice, from.time))]
  /\ up' = "log"
  /\ UNCHANGED <<process, operation_log_id, pending, from, children, operation_log,
                 sliceVars, ops, forks, clock, sound>>

(***************************************************************************)
(* What can go wrong between a dump and its use, and the code does not     *)
(* exclude: a slice may be deleted while it is the last one, if one that   *)
(* is SLICE_KEEP_TIME younger was published before it; two children may    *)
(* take the same second; and a child may publish after the process that    *)
(* forked it has been replaced.  An engine that has been through none of   *)
(* these is sound.                                                         *)
(***************************************************************************)
Overtaken(h) == \E t \in Times : t - SLICE_KEEP_TIME >= h.time

Shared(h) ==
  \/ Cardinality(Dumped(order_slice, h.time)) > 1
  \/ Cardinality(Dumped(balance_slice, h.time)) > 1

TheSlice(h) == ~Overtaken(h) /\ ~Shared(h)

\* Mutant: one before the first row.
end_operation_log_id_BeforeFirst == IF from = NoSlice THEN 0 - 1 ELSE from.end

end_operation_log_id == IF from = NoSlice THEN 0 ELSE from.end

\* Mutant: the first row after the slice is skipped.
LaterRows_SkipsOne == {r \in operation_log : r.id > end_operation_log_id + 1}

LaterRows == {r \in operation_log : r.id > end_operation_log_id}

\* Mutant: the log id starts anew with every process.
LoadLog_FromZero ==
  /\ up = "log"
  /\ LaterRows = {}
  /\ up' = "up"
  /\ sound' = (sound /\ (from # NoSlice => TheSlice(from)))
  /\ UNCHANGED <<engine, operation_log_id, process, pending, from, children, operation_log,
                 sliceVars, ops, forks, clock>>

(***************************************************************************)
(* The rows after the slice are read as OperationLog, whose user_id is     *)
(* neither inserted (bind_args) nor a column of the table.  With no row    *)
(* there is nothing to decode, and the engine is up.                       *)
(***************************************************************************)
LoadLog ==
  /\ up = "log"
  /\ LaterRows = {}
  /\ operation_log_id' = end_operation_log_id
  /\ up' = "up"
  /\ sound' = (sound /\ (from # NoSlice => TheSlice(from)))
  /\ UNCHANGED <<engine, process, pending, from, children, operation_log, sliceVars, ops, forks, clock>>

\* With a row, decoding fails, unwrap() panics and the process ends.
LoadLogPanics ==
  /\ up = "log"
  /\ LaterRows # {}
  /\ up' = "failed"
  /\ UNCHANGED <<process, engine, operation_log_id, pending, from, children, operation_log,
                 sliceVars, ops, forks, clock, sound>>

ChildStep(c) ==
  \/ Connect(c)
  \/ DumpOrders(c)
  \/ DumpBalances(c)
  \/ UpdateSliceHistory(c)
  \/ ClearSlice(c)
  \/ DeleteBalances(c)
  \/ DeleteOrders(c)
  \/ DeleteHistory(c)
  \/ ChildExit(c)

Next ==
  \/ Tick
  \/ \E accepted \in BOOLEAN : Operation(accepted)
  \/ UnloggedBatch
  \/ \E r \in pending : StoreLog(r)
  \/ Fork
  \/ \E c \in children : ChildStep(c)
  \/ Crash
  \/ Start
  \/ LoadBalances
  \/ LoadOrders
  \/ LoadLog
  \/ LoadLogPanics

Spec == Init /\ [][Next]_vars

(***************************************************************************)
(* Type correctness.                                                       *)
(***************************************************************************)
Contents == SUBSET (0..MaxOps)
Engine == [orders : Contents, balances : Contents]
LogRow == [id : Nat, op : 1..MaxOps]
SliceRow == [slice_id : Nat, was : Contents]
History == [id : Nat, time : Nat, end : Nat, engine : Engine]
Phases == {"connect", "orders", "balances", "history", "clear",
           "delete_balances", "delete_orders", "delete_history"}
Child == [pid : Nat, process : Nat, engine : Engine, end : Nat, time : Nat,
          phase : Phases, doomed : SUBSET Nat]

ASSUME NoSliceAssumption == NoSlice \notin History

TypeOK ==
  /\ up \in {"up", "down", "failed", "balances", "orders", "log"}
  /\ process \in Nat /\ engine \in Engine /\ operation_log_id \in Nat
  /\ from \in History \cup {NoSlice}
  /\ pending \subseteq LogRow /\ operation_log \subseteq LogRow
  /\ children \subseteq Child
  /\ order_slice \subseteq SliceRow /\ balance_slice \subseteq SliceRow
  /\ slice_history \subseteq History /\ slice_serial \in Nat
  /\ ops \in 0..MaxOps /\ forks \in Nat /\ clock \in Nat
  /\ sound \in BOOLEAN

(***************************************************************************)
(* The slice a start would load has all its rows, however many children    *)
(* are dumping and deleting and wherever they stop, unless a slice         *)
(* SLICE_KEEP_TIME younger was published before it.                        *)
(***************************************************************************)
Whole(h) ==
  /\ h.engine.orders \in Dumped(order_slice, h.time)
  /\ h.engine.balances \in Dumped(balance_slice, h.time)

LastSliceWhole ==
  \A h \in slice_history : get_last_slice(h) /\ ~Overtaken(h) => Whole(h)

(***************************************************************************)
(* The orders and the balances of a running engine are the result of the   *)
(* same operations, also after children have changed the tables while it   *)
(* was loading them.                                                       *)
(***************************************************************************)
OrdersMatchBalances ==
  up = "up" /\ sound => engine.orders = engine.balances

(***************************************************************************)
(* An engine that has started has every operation whose row is in the log. *)
(***************************************************************************)
LoggedIsRemembered ==
  up = "up" /\ sound => \A r \in operation_log : r.op \in engine.orders

(***************************************************************************)
(* No row is ignored by ON CONFLICT DO NOTHING because a row of an earlier *)
(* process has its id, whatever slice the engine started from.             *)
(***************************************************************************)
LogIdsFresh == \A r \in pending, q \in operation_log : r.id # q.id

(***************************************************************************)
(* An engine that has logged its operations can be started again.          *)
(***************************************************************************)
StartSucceeds == up # "failed"

=============================================================================
