--------------------------- MODULE RecoveryProofs ---------------------------
(***************************************************************************)
(* Facts about recovery that hold for any number of operations, children,  *)
(* crashes and starts.                                                     *)
(***************************************************************************)
EXTENDS Recovery, FiniteSetTheorems, TLAPS

(***************************************************************************)
(* Types.  A child's phase and doomed slices change, and the time it takes *)
(* when it connects; the rest of it stays as it was forked.                *)
(***************************************************************************)
LEMMA ChildTypes ==
  ASSUME TypeOK, NEW c \in children, ChildStep(c)
  PROVE  TypeOK'
<1>1. /\ c \in Child /\ clock \in Nat
      /\ UNCHANGED <<engineVars, operation_log, ops, forks, clock>>
  BY DEF TypeOK, ChildStep, Connect, DumpOrders, DumpBalances, UpdateSliceHistory, ClearSlice,
         DeleteBalances, DeleteOrders, DeleteHistory, ChildExit, Becomes
<1>2. ASSUME NEW d \in Child, Becomes(c, d) PROVE children' \subseteq Child
  BY <1>2 DEF Becomes, TypeOK
<1>3. ASSUME children' \subseteq Child, sound' \in BOOLEAN, slice_serial' \in Nat,
             order_slice' \subseteq SliceRow, balance_slice' \subseteq SliceRow,
             slice_history' \subseteq History
      PROVE  TypeOK'
  BY <1>1, <1>3 DEF TypeOK, engineVars
<1> USE DEF Child, Phases
<1>4. CASE Connect(c)
  <2>1. [c EXCEPT !.time = clock, !.phase = "orders"] \in Child
    BY <1>1
  <2> QED BY <1>2, <1>3, <1>4, <2>1 DEF Connect, TypeOK, sliceVars
<1>5. CASE DumpOrders(c)
  <2>1. [c EXCEPT !.phase = "balances"] \in Child
        /\ [slice_id |-> c.time, was |-> c.engine.orders] \in SliceRow
    BY <1>1 DEF SliceRow, Engine
  <2>2. order_slice' \subseteq SliceRow
    BY <1>5, <2>1 DEF DumpOrders, TypeOK
  <2> QED BY <1>2, <1>3, <1>5, <2>1, <2>2 DEF DumpOrders, TypeOK
<1>6. CASE DumpBalances(c)
  <2>1. [c EXCEPT !.phase = "history"] \in Child
        /\ [slice_id |-> c.time, was |-> c.engine.balances] \in SliceRow
    BY <1>1 DEF SliceRow, Engine
  <2>2. balance_slice' \subseteq SliceRow
    BY <1>6, <2>1 DEF DumpBalances, TypeOK
  <2> QED BY <1>2, <1>3, <1>6, <2>1, <2>2 DEF DumpBalances, TypeOK
<1>7. CASE UpdateSliceHistory(c)
  <2>1. [c EXCEPT !.phase = "clear"] \in Child
    BY <1>1
  <2>2. HistoryRow(c) \in History /\ slice_serial + 1 \in Nat
    BY <1>1 DEF HistoryRow, History, TypeOK
  <2>3. sound' \in BOOLEAN
    BY <1>7 DEF UpdateSliceHistory
  <2>4. slice_history' \subseteq History
    BY <1>7, <2>2 DEF UpdateSliceHistory, TypeOK
  <2> QED BY <1>2, <1>3, <1>7, <2>1, <2>2, <2>3, <2>4 DEF UpdateSliceHistory, TypeOK
<1>8. CASE ClearSlice(c)
  <2>1. Old(c) \subseteq Nat
    BY DEF Old, Times, TypeOK, History
  <2>2. [c EXCEPT !.doomed = Old(c), !.phase = "delete_balances"] \in Child
    BY <1>1, <2>1
  <2> QED BY <1>2, <1>3, <1>8, <2>2 DEF ClearSlice, TypeOK, sliceVars
<1>9. CASE DeleteBalances(c)
  <2>1. [c EXCEPT !.phase = "delete_orders"] \in Child
    BY <1>1
  <2> QED BY <1>2, <1>3, <1>9, <2>1 DEF DeleteBalances, TypeOK
<1>10. CASE DeleteOrders(c)
  <2>1. [c EXCEPT !.phase = "delete_history"] \in Child
    BY <1>1
  <2> QED BY <1>2, <1>3, <1>10, <2>1 DEF DeleteOrders, TypeOK
<1>11. CASE DeleteHistory(c)
  <2>1. [c EXCEPT !.doomed = @ \ {Victim(c)}, !.phase = "delete_balances"] \in Child
    BY <1>1
  <2> QED BY <1>2, <1>3, <1>11, <2>1 DEF DeleteHistory, TypeOK
<1>12. CASE ChildExit(c)
  BY <1>3, <1>12 DEF ChildExit, TypeOK, sliceVars
<1> QED
  BY <1>4, <1>5, <1>6, <1>7, <1>8, <1>9, <1>10, <1>11, <1>12 DEF ChildStep

LEMMA NextTypes == TypeOK /\ [Next]_vars => TypeOK'
<1> SUFFICES ASSUME TypeOK, [Next]_vars PROVE TypeOK'
  OBVIOUS
<1>1. CASE Tick
  BY <1>1 DEF Tick, TypeOK, engineVars, sliceVars
<1>2. ASSUME Execute PROVE engine' \in Engine /\ ops' \in 0..MaxOps /\ ops + 1 \in 1..MaxOps
  <2>1. MaxOps \in Nat /\ ops \in 0..MaxOps /\ ops < MaxOps /\ ops' = ops + 1
    BY <1>2, RecoveryAssumption DEF Execute, TypeOK
  <2>2. ops + 1 \in 1..MaxOps /\ ops + 1 \in 0..MaxOps
    BY <2>1
  <2>3. engine.orders \cup {ops + 1} \in Contents /\ engine.balances \cup {ops + 1} \in Contents
    BY <2>2 DEF TypeOK, Engine, Contents
  <2>4. engine' = [engine EXCEPT !.orders = engine.orders \cup {ops + 1},
                                 !.balances = engine.balances \cup {ops + 1}]
    BY <1>2 DEF Execute, TypeOK, Engine
  <2>5. engine' \in Engine
    BY <2>3, <2>4 DEF TypeOK, Engine
  <2> QED BY <2>1, <2>2, <2>5
<1>3. CASE \E accepted \in BOOLEAN : Operation(accepted)
  <2>1. PICK accepted \in BOOLEAN : Operation(accepted)
    BY <1>3
  <2>2. Execute
    BY <2>1 DEF Operation
  <2>3. [id |-> operation_log_id + 1, op |-> ops + 1] \in LogRow
    BY <1>2, <2>2 DEF LogRow, TypeOK
  <2>4. pending' \subseteq LogRow /\ operation_log_id' \in Nat
    BY <2>1, <2>3 DEF Operation, TypeOK
  <2> QED BY <1>2, <2>2, <2>4 DEF Execute, TypeOK, sliceVars
<1>4. CASE UnloggedBatch
  BY <1>2, <1>4 DEF UnloggedBatch, Execute, TypeOK, sliceVars
<1>5. CASE \E r \in pending : StoreLog(r)
  BY <1>5 DEF StoreLog, TypeOK, sliceVars
<1>6. CASE Fork
  <2>1. [pid |-> forks + 1, process |-> process, engine |-> engine, end |-> operation_log_id,
         time |-> 0, phase |-> "connect", doomed |-> {}] \in Child
    BY DEF TypeOK, Child, Phases
  <2>2. children' \subseteq Child /\ forks' \in Nat
    BY <1>6, <2>1 DEF Fork, TypeOK
  <2> QED BY <1>6, <2>2 DEF Fork, TypeOK, engineVars, sliceVars
<1>7. CASE \E c \in children : ChildStep(c)
  BY <1>7, ChildTypes
<1>8. CASE Crash
  BY <1>8 DEF Crash, TypeOK, sliceVars
<1>9. CASE Start
  BY <1>9 DEF Start, TypeOK, New, Engine, Contents, sliceVars
<1>10. ASSUME NEW rows, NEW t, rows \subseteq SliceRow
       PROVE  Mixture(Dumped(rows, t)) \in Contents
  <2>1. Dumped(rows, t) \subseteq Contents
    BY <1>10 DEF Dumped, SliceRow
  <2>2. UNION Dumped(rows, t) \subseteq 0..MaxOps
    BY <2>1 DEF Contents
  <2>3. 0 \in 0..MaxOps
    BY RecoveryAssumption
  <2>4. \/ Mixture(Dumped(rows, t)) = {0} \cup UNION Dumped(rows, t)
        \/ Mixture(Dumped(rows, t)) = UNION Dumped(rows, t)
    BY DEF Mixture
  <2> DEFINE all == UNION Dumped(rows, t)
  <2> HIDE DEF all
  <2>5. Mixture(Dumped(rows, t)) \subseteq 0..MaxOps
    <3>1. all \subseteq 0..MaxOps /\ {0} \cup all \subseteq 0..MaxOps
      BY <2>2, <2>3, Zenon DEF all
    <3> QED BY <2>4, <3>1, Zenon DEF all
  <2> QED BY <2>5 DEF Contents
<1>11. CASE LoadBalances
  <2>1. engine' \in Engine
    BY <1>10, <1>11 DEF LoadBalances, TypeOK, Engine
  <2> QED BY <1>11, <2>1 DEF LoadBalances, TypeOK, sliceVars
<1>12. CASE LoadOrders
  <2>1. engine' \in Engine
    BY <1>10, <1>12 DEF LoadOrders, TypeOK, Engine
  <2> QED BY <1>12, <2>1 DEF LoadOrders, TypeOK, sliceVars
<1>13. CASE LoadLog
  <2>1. end_operation_log_id \in Nat
    BY DEF end_operation_log_id, TypeOK, History
  <2>2. sound' \in BOOLEAN
    BY <1>13 DEF LoadLog
  <2> QED BY <1>13, <2>1, <2>2 DEF LoadLog, TypeOK, sliceVars
<1>14. CASE LoadLogPanics
  BY <1>14 DEF LoadLogPanics, TypeOK, sliceVars
<1>15. CASE UNCHANGED vars
  BY <1>15 DEF vars, TypeOK, engineVars, sliceVars
<1> QED
  BY <1>1, <1>3, <1>4, <1>5, <1>6, <1>7, <1>8, <1>9, <1>11, <1>12, <1>13, <1>14, <1>15 DEF Next

(***************************************************************************)
(* The engine, its children and the tables keep their types.               *)
(***************************************************************************)
THEOREM RecoveryTypes == Spec => []TypeOK
<1>1. Init => TypeOK
  BY RecoveryAssumption DEF Init, TypeOK, New, Engine, Contents
<1> QED BY <1>1, NextTypes, PTL DEF Spec

(***************************************************************************)
(* Log ids.  A running engine is past every id it has given out and every  *)
(* id in the table: a start succeeds only when the log has no row after    *)
(* the slice, and goes on from the slice's id.                             *)
(***************************************************************************)
PastTheLog ==
  /\ up # "up" => pending = {}
  /\ up = "up" => \A r \in pending \cup operation_log : r.id <= operation_log_id
  /\ \A r, q \in pending : r.id = q.id => r = q

LogInv == TypeOK /\ PastTheLog /\ LogIdsFresh

\* The steps of children leave the engine and its log alone.
LEMMA ChildLeavesEngine ==
  ASSUME NEW c \in children, ChildStep(c)
  PROVE  UNCHANGED <<engineVars, operation_log>>
BY DEF ChildStep, Connect, DumpOrders, DumpBalances, UpdateSliceHistory, ClearSlice,
       DeleteBalances, DeleteOrders, DeleteHistory, ChildExit, Becomes

LEMMA NextLog == LogInv /\ [Next]_vars => LogInv'
<1> SUFFICES ASSUME LogInv, [Next]_vars PROVE PastTheLog' /\ LogIdsFresh'
  BY NextTypes DEF LogInv
<1>1. /\ TypeOK /\ operation_log_id \in Int
      /\ \A r \in pending \cup operation_log : r.id \in Int
  BY DEF LogInv, TypeOK, LogRow
<1> USE DEF LogInv
<1>2. ASSUME UNCHANGED <<up, operation_log_id, pending, operation_log>>
      PROVE  PastTheLog' /\ LogIdsFresh'
  BY <1>2 DEF PastTheLog, LogIdsFresh
<1>3. CASE Tick
  BY <1>2, <1>3 DEF Tick, engineVars
<1>4. CASE \E accepted \in BOOLEAN : Operation(accepted)
  <2>1. PICK accepted \in BOOLEAN : Operation(accepted)
    BY <1>4
  <2> DEFINE row == [id |-> operation_log_id + 1, op |-> ops + 1]
  <2>2. /\ up = "up" /\ up' = up /\ operation_log_id' = operation_log_id + 1
        /\ pending' \subseteq pending \cup {row} /\ operation_log' = operation_log
    BY <2>1 DEF Operation, Execute
  <2>3. \A r \in pending \cup operation_log : r.id <= operation_log_id /\ r.id # row.id
    BY <1>1, <2>2 DEF PastTheLog
  <2>4. PastTheLog'
    BY <1>1, <2>2, <2>3 DEF PastTheLog
  <2>5. LogIdsFresh'
    BY <2>2, <2>3 DEF LogIdsFresh
  <2> QED BY <2>4, <2>5
<1>5. CASE UnloggedBatch
  BY <1>2, <1>5 DEF UnloggedBatch, Execute
<1>6. CASE \E r \in pending : StoreLog(r)
  <2>1. PICK r \in pending : StoreLog(r)
    BY <1>6
  <2>2. /\ up = "up" /\ pending' = pending \ {r} /\ operation_log' \subseteq operation_log \cup {r}
        /\ UNCHANGED <<up, operation_log_id>>
    BY <2>1 DEF StoreLog
  <2> QED BY <2>2 DEF PastTheLog, LogIdsFresh
<1>7. CASE Fork
  BY <1>2, <1>7 DEF Fork, engineVars
<1>8. CASE \E c \in children : ChildStep(c)
  BY <1>2, <1>8, ChildLeavesEngine DEF engineVars
<1>9. CASE Crash
  BY <1>9 DEF Crash, PastTheLog, LogIdsFresh
<1>10. CASE Start
  <2>1. up # "up" /\ up' # "up" /\ pending = {} /\ pending' = {}
    BY <1>10 DEF Start, PastTheLog
  <2> QED BY <2>1 DEF PastTheLog, LogIdsFresh
<1>11. CASE LoadBalances \/ LoadOrders
  BY <1>11 DEF LoadBalances, LoadOrders, PastTheLog, LogIdsFresh
<1>12. CASE LoadLog
  <2>1. /\ pending = {} /\ pending' = {} /\ operation_log_id' = end_operation_log_id
        /\ LaterRows = {} /\ operation_log' = operation_log
    BY <1>12 DEF LoadLog, PastTheLog
  <2>2. end_operation_log_id \in Int
    BY <1>1 DEF TypeOK, History, end_operation_log_id
  <2>3. \A r \in operation_log : r.id <= end_operation_log_id
    BY <1>1, <2>1, <2>2 DEF LaterRows
  <2> QED BY <2>1, <2>3 DEF PastTheLog, LogIdsFresh
<1>13. CASE LoadLogPanics
  BY <1>13 DEF LoadLogPanics, PastTheLog, LogIdsFresh
<1>14. CASE UNCHANGED vars
  BY <1>2, <1>14 DEF vars, engineVars
<1> QED
  BY <1>3, <1>4, <1>5, <1>6, <1>7, <1>8, <1>9, <1>10, <1>11, <1>12, <1>13, <1>14 DEF Next

(***************************************************************************)
(* append_operation_log never gives a row an id that the table has, so     *)
(* that ON CONFLICT DO NOTHING drops no operation, over any sequence of    *)
(* crashes and starts.                                                     *)
(***************************************************************************)
THEOREM LogIdsStayFresh == Spec => []LogIdsFresh
<1>1. Init => LogInv
  BY RecoveryAssumption DEF Init, LogInv, TypeOK, New, Engine, Contents, PastTheLog, LogIdsFresh
<1>2. LogInv => LogIdsFresh
  BY DEF LogInv
<1> QED BY <1>1, <1>2, NextLog, PTL DEF Spec

(***************************************************************************)
(* Slices.  Only a slice that another one has overtaken loses rows: a      *)
(* child that deletes has published, and no child ever deletes the         *)
(* youngest slice there is.                                                *)
(***************************************************************************)
Gone(t) == \E u \in Times : u - SLICE_KEEP_TIME >= t

Deleting == {"clear", "delete_balances", "delete_orders", "delete_history"}

ChildOK(c) ==
  /\ c.phase \in Deleting => \E u \in Times : u >= c.time
  /\ \A t \in c.doomed : t <= c.time - SLICE_KEEP_TIME
  /\ c.doomed # {} => c.phase \in Deleting
  /\ c.phase \in {"delete_orders", "delete_history"} => c.doomed # {}

OrdersThere(c) == Gone(c.time) \/ c.engine.orders \in Dumped(order_slice, c.time)

BalancesThere(c) == Gone(c.time) \/ c.engine.balances \in Dumped(balance_slice, c.time)

RowsOK(c) ==
  /\ c.phase \in {"balances", "history"} => OrdersThere(c)
  /\ c.phase = "history" => BalancesThere(c)

SliceInv ==
  /\ TypeOK
  /\ \A c \in children : ChildOK(c) /\ RowsOK(c)
  /\ \A h \in slice_history : OrdersThere(h) /\ BalancesThere(h)

LEMMA TimesTyped == ASSUME TypeOK PROVE Times \subseteq Nat
BY DEF TypeOK, Times, History

\* What a child is about to delete has been overtaken.
LEMMA VictimGone ==
  ASSUME SliceInv, NEW c \in children, c.doomed # {}
  PROVE  /\ Victim(c) \in Nat /\ Gone(Victim(c))
         /\ \E u \in Times : u >= c.time /\ u > Victim(c)
<1>1. /\ Victim(c) \in c.doomed /\ c \in Child /\ Victim(c) <= c.time - SLICE_KEEP_TIME
  BY DEF Victim, SliceInv, ChildOK, TypeOK
<1>2. Victim(c) \in Nat /\ c.time \in Nat /\ SLICE_KEEP_TIME \in Nat /\ SLICE_KEEP_TIME > 0
  BY <1>1, RecoveryAssumption DEF Child
<1>3. PICK u \in Times : u >= c.time
  BY DEF SliceInv, ChildOK
<1>4. u \in Nat
  BY TimesTyped DEF SliceInv
<1>5. u - SLICE_KEEP_TIME >= Victim(c) /\ u > Victim(c)
  BY <1>1, <1>2, <1>3, <1>4
<1> QED BY <1>2, <1>3, <1>5 DEF Gone

LEMMA TimesAfterDelete ==
  ASSUME NEW c, DeleteHistory(c)
  PROVE  Times' = Times \ {Victim(c)}
BY DEF DeleteHistory, Times

LEMMA ChildTimes ==
  ASSUME NEW c \in children, ChildStep(c)
  PROVE  Times \subseteq Times' \/ DeleteHistory(c)
<1>1. slice_history \subseteq slice_history' \/ DeleteHistory(c)
  BY DEF ChildStep, Connect, DumpOrders, DumpBalances, UpdateSliceHistory, ClearSlice,
         DeleteBalances, DeleteOrders, ChildExit, Becomes, sliceVars
<1> QED BY <1>1 DEF Times

\* A slice that is young enough for t stays, or makes way for a younger one.
LEMMA YoungStays ==
  ASSUME SliceInv, NEW c \in children, ChildStep(c), NEW u \in Times
  PROVE  \E w \in Times' : w >= u
<1>1. u \in Nat
  BY TimesTyped DEF SliceInv
<1>2. CASE Times \subseteq Times'
  BY <1>1, <1>2
<1>3. CASE DeleteHistory(c)
  <2>1. c.doomed # {}
    BY <1>3 DEF DeleteHistory, SliceInv, ChildOK
  <2>2. PICK w \in Times : w > Victim(c)
    BY <2>1, VictimGone
  <2>3. w \in Nat /\ Victim(c) \in Nat
    BY <2>1, VictimGone, TimesTyped DEF SliceInv
  <2>4. w \in Times'
    BY <1>3, <2>2, <2>3, TimesAfterDelete
  <2>5. CASE u = Victim(c)
    BY <1>1, <2>2, <2>3, <2>4, <2>5
  <2>6. CASE u # Victim(c)
    BY <1>1, <1>3, <2>6, TimesAfterDelete
  <2> QED BY <2>5, <2>6
<1> QED BY <1>2, <1>3, ChildTimes

LEMMA GoneStays ==
  ASSUME SliceInv, NEW c \in children, ChildStep(c), NEW t \in Nat, Gone(t)
  PROVE  Gone(t)'
<1>1. PICK u \in Times : u - SLICE_KEEP_TIME >= t
  BY DEF Gone
<1>2. PICK w \in Times' : w >= u
  BY YoungStays
<1>3. u \in Nat /\ w \in Nat /\ SLICE_KEEP_TIME \in Nat
  BY TimesTyped, NextTypes, ChildTypes, RecoveryAssumption DEF SliceInv, TypeOK, Times, History
<1>4. w - SLICE_KEEP_TIME >= t
  BY <1>1, <1>2, <1>3
<1> QED BY <1>2, <1>4 DEF Gone

\* The rows of a slice stay, unless it has been overtaken.
LEMMA RowsStay ==
  ASSUME SliceInv, NEW c \in children, ChildStep(c), NEW t \in Nat
  PROVE  \/ Gone(t)'
         \/ /\ Dumped(order_slice, t) \subseteq Dumped(order_slice, t)'
            /\ Dumped(balance_slice, t) \subseteq Dumped(balance_slice, t)'
<1>1. CASE order_slice \subseteq order_slice' /\ balance_slice \subseteq balance_slice'
  BY <1>1 DEF Dumped
<1>2. CASE DeleteBalances(c) \/ DeleteOrders(c)
  <2>1. c.doomed # {}
    BY <1>2 DEF DeleteBalances, DeleteOrders, SliceInv, ChildOK
  <2>2. CASE t = Victim(c)
    BY <2>1, <2>2, VictimGone, GoneStays
  <2>3. CASE t # Victim(c)
    BY <1>2, <2>3 DEF DeleteBalances, DeleteOrders, Dumped
  <2> QED BY <2>2, <2>3
<1>3. \/ order_slice \subseteq order_slice' /\ balance_slice \subseteq balance_slice'
      \/ DeleteBalances(c) \/ DeleteOrders(c)
  BY DEF ChildStep, Connect, DumpOrders, DumpBalances, UpdateSliceHistory, ClearSlice,
         DeleteHistory, ChildExit, sliceVars
<1> QED BY <1>1, <1>2, <1>3

LEMMA ThereStays ==
  ASSUME SliceInv, NEW c \in children, ChildStep(c), NEW x, x.time \in Nat
  PROVE  /\ OrdersThere(x) => OrdersThere(x)'
         /\ BalancesThere(x) => BalancesThere(x)'
<1>1. Gone(x.time) => Gone(x.time)'
  BY GoneStays
<1>2. \/ Gone(x.time)'
      \/ /\ Dumped(order_slice, x.time) \subseteq Dumped(order_slice, x.time)'
         /\ Dumped(balance_slice, x.time) \subseteq Dumped(balance_slice, x.time)'
  BY RowsStay
<1> QED BY <1>1, <1>2 DEF OrdersThere, BalancesThere

\* One child's step leaves the others, and the slices published, in order.
LEMMA OthersStay ==
  ASSUME SliceInv, NEW c \in children, ChildStep(c)
  PROVE  /\ \A e \in children : e.phase \in Deleting => \E u \in Times' : u >= e.time
         /\ \A e \in children : ChildOK(e)' /\ RowsOK(e)'
         /\ \A h \in slice_history : OrdersThere(h)' /\ BalancesThere(h)'
<1>1. ASSUME NEW e \in children PROVE e.phase \in Deleting => \E u \in Times' : u >= e.time
  <2> SUFFICES ASSUME e.phase \in Deleting PROVE \E u \in Times' : u >= e.time
    OBVIOUS
  <2>1. PICK u \in Times : u >= e.time
    BY DEF SliceInv, ChildOK
  <2>2. PICK w \in Times' : w >= u
    BY YoungStays
  <2>3. u \in Nat /\ w \in Nat /\ e.time \in Nat
    BY TimesTyped, ChildTypes DEF SliceInv, TypeOK, Times, History, Child
  <2> QED BY <2>1, <2>2, <2>3
<1>2. ASSUME NEW e \in children PROVE ChildOK(e)' /\ RowsOK(e)'
  <2>1. e.time \in Nat
    BY DEF SliceInv, TypeOK, Child
  <2>2. RowsOK(e)'
    BY <2>1, ThereStays DEF SliceInv, RowsOK
  <2>3. ChildOK(e)'
    BY <1>1 DEF SliceInv, ChildOK
  <2> QED BY <2>2, <2>3
<1>3. ASSUME NEW h \in slice_history PROVE OrdersThere(h)' /\ BalancesThere(h)'
  <2>1. h.time \in Nat
    BY DEF SliceInv, TypeOK, History
  <2> QED BY <2>1, ThereStays DEF SliceInv
<1> QED BY <1>1, <1>2, <1>3

LEMMA ChildSlices ==
  ASSUME SliceInv, NEW c \in children, ChildStep(c)
  PROVE  SliceInv'
<1>1. TypeOK' /\ c \in Child /\ TypeOK
  BY ChildTypes DEF SliceInv, TypeOK
<1>2. ASSUME NEW d, Becomes(c, d), ChildOK(d)', RowsOK(d)', slice_history' \subseteq slice_history
      PROVE  SliceInv'
  BY <1>1, <1>2, OthersStay DEF SliceInv, Becomes
<1> USE DEF Child
<1>3. CASE Connect(c)
  <2>0. PICK d : d = [c EXCEPT !.time = clock, !.phase = "orders"]
    OBVIOUS
  <2>1. d.phase = "orders" /\ d.doomed = c.doomed /\ c.doomed = {}
    BY <1>1, <1>3, <2>0 DEF Connect, SliceInv, ChildOK, Deleting
  <2>2. ChildOK(d)' /\ RowsOK(d)'
    BY <2>1 DEF ChildOK, RowsOK, Deleting
  <2> QED BY <1>2, <1>3, <2>0, <2>2 DEF Connect, sliceVars
<1>4. CASE DumpOrders(c)
  <2> DEFINE d == [c EXCEPT !.phase = "balances"]
             row == [slice_id |-> c.time, was |-> c.engine.orders]
  <2>1. /\ d.phase = "balances" /\ d.doomed = c.doomed /\ c.doomed = {}
        /\ d.time = c.time /\ d.engine = c.engine
    BY <1>1, <1>4 DEF DumpOrders, SliceInv, ChildOK, Deleting
  <2>2. row \in order_slice' /\ row.slice_id = d.time /\ row.was = d.engine.orders
    BY <1>4, <2>1 DEF DumpOrders
  <2>3. d.engine.orders \in Dumped(order_slice, d.time)'
    BY <2>2 DEF Dumped
  <2>4. ChildOK(d)' /\ RowsOK(d)'
    BY <2>1, <2>3 DEF ChildOK, RowsOK, OrdersThere, Deleting
  <2> QED BY <1>2, <1>4, <2>4 DEF DumpOrders
<1>5. CASE DumpBalances(c)
  <2> DEFINE d == [c EXCEPT !.phase = "history"]
             row == [slice_id |-> c.time, was |-> c.engine.balances]
  <2>1. /\ d.phase = "history" /\ d.doomed = c.doomed /\ c.doomed = {}
        /\ d.time = c.time /\ d.engine = c.engine
    BY <1>1, <1>5 DEF DumpBalances, SliceInv, ChildOK, Deleting
  <2>2. row \in balance_slice' /\ row.slice_id = d.time /\ row.was = d.engine.balances
    BY <1>5, <2>1 DEF DumpBalances
  <2>3. d.engine.balances \in Dumped(balance_slice, d.time)'
    BY <2>2 DEF Dumped
  <2>4. OrdersThere(c)'
    BY <1>1, <1>5, ThereStays DEF DumpBalances, SliceInv, RowsOK
  <2>5. ChildOK(d)' /\ RowsOK(d)'
    BY <2>1, <2>3, <2>4 DEF ChildOK, RowsOK, OrdersThere, BalancesThere, Deleting
  <2> QED BY <1>2, <1>5, <2>5 DEF DumpBalances
<1>6. CASE UpdateSliceHistory(c)
  <2> DEFINE d == [c EXCEPT !.phase = "clear"]
             h == HistoryRow(c)
  <2>1. /\ d.phase = "clear" /\ d.doomed = c.doomed /\ c.doomed = {} /\ d.time = c.time
    BY <1>1, <1>6 DEF UpdateSliceHistory, SliceInv, ChildOK, Deleting
  <2>2. h.time = c.time /\ h.engine = c.engine /\ slice_history' = slice_history \cup {h}
    BY <1>6 DEF UpdateSliceHistory, HistoryRow
  <2>3. c.time \in Times' /\ c.time >= c.time
    BY <1>1, <2>2 DEF Times
  <2>4. OrdersThere(c)' /\ BalancesThere(c)'
    BY <1>1, <1>6, ThereStays DEF UpdateSliceHistory, SliceInv, RowsOK
  <2>5. ChildOK(d)' /\ RowsOK(d)'
    BY <2>1, <2>3 DEF ChildOK, RowsOK
  <2>6. \A g \in slice_history' : OrdersThere(g)' /\ BalancesThere(g)'
    BY <2>2, <2>4, OthersStay DEF OrdersThere, BalancesThere
  <2> QED BY <1>1, <1>6, <2>5, <2>6, OthersStay DEF SliceInv, UpdateSliceHistory, Becomes
<1>7. CASE ClearSlice(c)
  <2>0. PICK d : d = [c EXCEPT !.doomed = Old(c), !.phase = "delete_balances"]
    OBVIOUS
  <2>1. d.phase = "delete_balances" /\ d.doomed = Old(c) /\ d.time = c.time
    BY <1>1, <2>0
  <2>2. \A t \in d.doomed : t <= c.time - SLICE_KEEP_TIME
    BY <2>1 DEF Old
  <2>3. \E u \in Times' : u >= c.time
    BY <1>7, OthersStay DEF ClearSlice, Deleting
  <2>4. ChildOK(d)' /\ RowsOK(d)'
    BY <2>1, <2>2, <2>3 DEF ChildOK, RowsOK, Deleting
  <2> QED BY <1>2, <1>7, <2>0, <2>4 DEF ClearSlice, sliceVars
<1>8. CASE DeleteBalances(c)
  <2> DEFINE d == [c EXCEPT !.phase = "delete_orders"]
  <2>1. d.phase = "delete_orders" /\ d.doomed = c.doomed /\ d.time = c.time /\ c.doomed # {}
    BY <1>1, <1>8 DEF DeleteBalances
  <2>2. \E u \in Times' : u >= c.time
    BY <1>8, OthersStay DEF DeleteBalances, Deleting
  <2>3. ChildOK(d)' /\ RowsOK(d)'
    BY <2>1, <2>2 DEF SliceInv, ChildOK, RowsOK, Deleting
  <2> QED BY <1>2, <1>8, <2>3 DEF DeleteBalances
<1>9. CASE DeleteOrders(c)
  <2> DEFINE d == [c EXCEPT !.phase = "delete_history"]
  <2>1. d.phase = "delete_history" /\ d.doomed = c.doomed /\ d.time = c.time /\ c.doomed # {}
    BY <1>1, <1>9 DEF DeleteOrders, SliceInv, ChildOK
  <2>2. \E u \in Times' : u >= c.time
    BY <1>9, OthersStay DEF DeleteOrders, Deleting
  <2>3. ChildOK(d)' /\ RowsOK(d)'
    BY <2>1, <2>2 DEF SliceInv, ChildOK, RowsOK, Deleting
  <2> QED BY <1>2, <1>9, <2>3 DEF DeleteOrders
<1>10. CASE DeleteHistory(c)
  <2> DEFINE d == [c EXCEPT !.doomed = @ \ {Victim(c)}, !.phase = "delete_balances"]
  <2>1. d.phase = "delete_balances" /\ d.doomed \subseteq c.doomed /\ d.time = c.time
    BY <1>1
  <2>2. \E u \in Times' : u >= c.time
    BY <1>10, OthersStay DEF DeleteHistory, Deleting
  <2>3. ChildOK(d)' /\ RowsOK(d)'
    BY <2>1, <2>2 DEF SliceInv, ChildOK, RowsOK, Deleting
  <2> QED BY <1>2, <1>10, <2>3 DEF DeleteHistory
<1>11. CASE ChildExit(c)
  BY <1>1, <1>11, OthersStay DEF ChildExit, SliceInv, sliceVars
<1> QED
  BY <1>3, <1>4, <1>5, <1>6, <1>7, <1>8, <1>9, <1>10, <1>11 DEF ChildStep

LEMMA NextSlices == SliceInv /\ [Next]_vars => SliceInv'
<1> SUFFICES ASSUME SliceInv, [Next]_vars PROVE SliceInv'
  OBVIOUS
<1>1. TypeOK'
  BY NextTypes DEF SliceInv
<1>2. CASE \E c \in children : ChildStep(c)
  BY <1>2, ChildSlices
<1>3. ASSUME UNCHANGED <<children, sliceVars>> PROVE SliceInv'
  BY <1>1, <1>3 DEF SliceInv, ChildOK, RowsOK, OrdersThere, BalancesThere, Gone, Times,
                    Dumped, sliceVars
<1>4. CASE Fork
  <2>0. PICK d : d = [pid |-> forks + 1, process |-> process, engine |-> engine,
                      end |-> operation_log_id, time |-> 0, phase |-> "connect", doomed |-> {}]
    OBVIOUS
  <2>1. ChildOK(d)' /\ RowsOK(d)'
    BY <2>0 DEF ChildOK, RowsOK, Deleting
  <2>2. children' = children \cup {d} /\ UNCHANGED sliceVars
    BY <1>4, <2>0 DEF Fork
  <2>3. \A c \in children : ChildOK(c)' /\ RowsOK(c)'
    BY <2>2 DEF SliceInv, ChildOK, RowsOK, OrdersThere, BalancesThere, Gone, Times, Dumped,
                sliceVars
  <2>4. \A h \in slice_history' : OrdersThere(h)' /\ BalancesThere(h)'
    BY <2>2 DEF SliceInv, OrdersThere, BalancesThere, Gone, Times, Dumped, sliceVars
  <2> QED BY <1>1, <2>1, <2>2, <2>3, <2>4 DEF SliceInv
<1>5. CASE Tick \/ UnloggedBatch \/ \E accepted \in BOOLEAN : Operation(accepted)
  BY <1>3, <1>5 DEF Tick, UnloggedBatch, Operation, Execute
<1>6. CASE Crash \/ Start \/ \E r \in pending : StoreLog(r)
  BY <1>3, <1>6 DEF Crash, Start, StoreLog
<1>7. CASE LoadBalances \/ LoadOrders \/ LoadLog \/ LoadLogPanics
  BY <1>3, <1>7 DEF LoadBalances, LoadOrders, LoadLog, LoadLogPanics
<1>8. CASE UNCHANGED vars
  BY <1>3, <1>8 DEF vars
<1> QED BY <1>2, <1>4, <1>5, <1>6, <1>7, <1>8 DEF Next

(***************************************************************************)
(* The slice get_last_slice returns has all its rows, however many         *)
(* children dump, clear and stop, unless one that is SLICE_KEEP_TIME       *)
(* younger was published.                                                  *)
(***************************************************************************)
THEOREM LastSliceStaysWhole == Spec => []LastSliceWhole
<1>1. Init => SliceInv
  BY RecoveryAssumption DEF Init, SliceInv, TypeOK, New, Engine, Contents
<1>2. SliceInv => LastSliceWhole
  BY DEF SliceInv, LastSliceWhole, OrdersThere, BalancesThere, Gone, Overtaken, Whole
<1> QED BY <1>1, <1>2, NextSlices, PTL DEF Spec

(***************************************************************************)
(* Loading.  While an engine loads, children go on dumping and deleting.   *)
(* As long as its slice is neither overtaken nor shared, what it has       *)
(* loaded is what was dumped.                                              *)
(***************************************************************************)
Loading == {"balances", "orders", "log"}

\* The rows of the slice were loaded as they are, if they are its own alone.
BalancesLoaded ==
  \/ Gone(from.time)
  \/ Dumped(balance_slice, from.time) # {from.engine.balances}
  \/ engine.balances = from.engine.balances

OrdersLoaded ==
  \/ Gone(from.time)
  \/ Dumped(order_slice, from.time) # {from.engine.orders}
  \/ engine.orders = from.engine.orders

LoadInv ==
  /\ up \in {"balances", "orders"} => from # NoSlice
  /\ up = "log" /\ from = NoSlice => engine = New
  /\ up \in Loading /\ from # NoSlice =>
       /\ OrdersThere(from) /\ BalancesThere(from)
       /\ from \in slice_history \/ Gone(from.time)
       /\ up # "balances" => BalancesLoaded
       /\ up = "log" => OrdersLoaded

(***************************************************************************)
(* Orders and balances come from the same operations, wherever an engine   *)
(* is kept.                                                                *)
(***************************************************************************)
Twins(e) == e.orders = e.balances

TwinsInv ==
  sound =>
    /\ up = "up" => Twins(engine)
    /\ \A c \in children : Twins(c.engine)
    /\ \A h \in slice_history : Twins(h.engine)
    /\ up \in Loading /\ from # NoSlice => Twins(from.engine)

LEMMA DumpedFinite ==
  ASSUME NEW rows \in SUBSET SliceRow, NEW t
  PROVE  IsFiniteSet(Dumped(rows, t))
<1>1. Dumped(rows, t) \in SUBSET Contents
  BY DEF Dumped, SliceRow
<1>2. IsFiniteSet(0..MaxOps)
  BY RecoveryAssumption, FS_Interval
<1>3. IsFiniteSet(Contents)
  BY <1>2, FS_SUBSET DEF Contents
<1> QED BY <1>1, <1>3, FS_Subset

LEMMA NotShared ==
  ASSUME NEW S, IsFiniteSet(S), ~(Cardinality(S) > 1), NEW b \in S
  PROVE  S = {b}
<1>1. Cardinality(S) \in Nat
  BY FS_CardinalityType
<1>2. Cardinality(S) # 0
  BY FS_EmptySet
<1>3. Cardinality(S) = 1
  BY <1>1, <1>2
<1>4. PICK x : S = {x}
  BY <1>3, FS_Singleton
<1> QED BY <1>4

LEMMA MixtureOfOne == ASSUME NEW b PROVE Mixture({b}) = b
<1>1. Cardinality({b}) = 1
  BY FS_Singleton
<1>2. ~(1 > 1)
  OBVIOUS
<1>3. Mixture({b}) = UNION {b}
  BY <1>1, <1>2 DEF Mixture
<1> QED BY <1>3

\* A slice that a child deletes has been overtaken, and stays so.
LEMMA DeletedGone ==
  ASSUME SliceInv, NEW c \in children, ChildStep(c), NEW h \in slice_history,
         h \notin slice_history'
  PROVE  Gone(h.time)'
<1>1. DeleteHistory(c) /\ h.time = Victim(c)
  BY DEF ChildStep, Connect, DumpOrders, DumpBalances, UpdateSliceHistory, ClearSlice,
         DeleteBalances, DeleteOrders, DeleteHistory, ChildExit, Becomes, sliceVars
<1>2. c.doomed # {}
  BY <1>1 DEF DeleteHistory, SliceInv, ChildOK
<1> QED BY <1>1, <1>2, VictimGone, GoneStays

LEMMA ChildLoads ==
  ASSUME SliceInv, LoadInv, NEW c \in children, ChildStep(c)
  PROVE  LoadInv'
<1>1. UNCHANGED <<up, engine, from>>
  BY ChildLeavesEngine DEF engineVars
<1>2. ASSUME up \in Loading, from # NoSlice
      PROVE  /\ OrdersThere(from)' /\ BalancesThere(from)'
             /\ from \in slice_history' \/ Gone(from.time)'
             /\ up # "balances" => BalancesLoaded'
             /\ up = "log" => OrdersLoaded'
  <2>1. from.time \in Nat
    BY <1>2 DEF SliceInv, TypeOK, History
  <2>2. /\ OrdersThere(from) /\ BalancesThere(from)
        /\ OrdersThere(from)' /\ BalancesThere(from)'
    <3>1. OrdersThere(from) /\ BalancesThere(from)
      BY <1>2 DEF LoadInv
    <3>2. PICK x : x = from
      OBVIOUS
    <3>3. OrdersThere(x)' /\ BalancesThere(x)'
      BY <2>1, <3>1, <3>2, ThereStays
    <3> QED BY <1>1, <3>1, <3>2, <3>3 DEF OrdersThere, BalancesThere, Gone
  <2>3. from \in slice_history' \/ Gone(from.time)'
    <3>1. PICK x : x = from
      OBVIOUS
    <3>2. Gone(x.time) => Gone(x.time)'
      BY <2>1, <3>1, GoneStays
    <3>3. x \in slice_history => x \in slice_history' \/ Gone(x.time)'
      BY DeletedGone
    <3>4. x \in slice_history \/ Gone(x.time)
      BY <1>2, <3>1 DEF LoadInv
    <3> QED BY <1>1, <3>1, <3>2, <3>3, <3>4 DEF Gone
  <2>4. PICK t : t = from.time
    OBVIOUS
  <2>5. \/ Gone(t)'
        \/ /\ Dumped(order_slice, t) \subseteq Dumped(order_slice, t)'
           /\ Dumped(balance_slice, t) \subseteq Dumped(balance_slice, t)'
    BY <2>1, <2>4, RowsStay
  <2>6. Gone(t) => Gone(t)'
    BY <2>1, <2>4, GoneStays
  <2>7. t' = t /\ t = from'.time
    BY <1>1, <2>4
  <2>8. up # "balances" => BalancesLoaded'
    BY <1>1, <1>2, <2>2, <2>4, <2>5, <2>6, <2>7 DEF LoadInv, BalancesLoaded, BalancesThere
  <2>9. up = "log" => OrdersLoaded'
    BY <1>1, <1>2, <2>2, <2>4, <2>5, <2>6, <2>7 DEF LoadInv, OrdersLoaded, OrdersThere
  <2> QED BY <2>2, <2>3, <2>8, <2>9
<1> QED BY <1>1, <1>2 DEF LoadInv

\* The steps that move neither an engine that loads nor the slices.
LEMMA NextLoads == ASSUME SliceInv, LoadInv, [Next]_vars PROVE LoadInv'
<1>1. CASE \E c \in children : ChildStep(c)
  BY <1>1, ChildLoads
<1>2. ASSUME UNCHANGED <<up, engine, from, sliceVars>> PROVE LoadInv'
  BY <1>2 DEF LoadInv, OrdersThere, BalancesThere, BalancesLoaded, OrdersLoaded, Gone, Times,
              Dumped, sliceVars
<1>3. CASE up' \notin Loading
  BY <1>3 DEF LoadInv, Loading
<1>4. CASE Tick \/ Fork \/ UNCHANGED vars
  BY <1>2, <1>4 DEF Tick, Fork, vars, engineVars
<1>5. CASE UnloggedBatch \/ \E accepted \in BOOLEAN : Operation(accepted)
  BY <1>3, <1>5 DEF UnloggedBatch, Operation, Execute, Loading
<1>6. CASE Crash \/ LoadLog \/ LoadLogPanics \/ \E r \in pending : StoreLog(r)
  BY <1>3, <1>6 DEF Crash, LoadLog, LoadLogPanics, StoreLog, Loading
<1>7. CASE Start
  <2>1. CASE slice_history = {} /\ from' = NoSlice /\ up' = "log"
    BY <1>7, <2>1 DEF Start, LoadInv
  <2>2. CASE \E h \in slice_history : get_last_slice(h) /\ from' = h /\ up' = "balances"
    <3>1. PICK h \in slice_history : from' = h /\ up' = "balances"
      BY <2>2
    <3>2. OrdersThere(h) /\ BalancesThere(h) /\ h \in History
      BY DEF SliceInv, TypeOK
    <3>3. OrdersThere(from)' /\ BalancesThere(from)' /\ from' \in slice_history'
      BY <1>7, <3>1, <3>2 DEF Start, OrdersThere, BalancesThere, Gone, Times, Dumped, sliceVars
    <3> QED BY <3>1, <3>2, <3>3, NoSliceAssumption DEF LoadInv
  <2> QED BY <1>7, <2>1, <2>2 DEF Start
<1>8. CASE LoadBalances
  <2>1. /\ up = "balances" /\ up' = "orders" /\ from # NoSlice /\ UNCHANGED <<from, sliceVars>>
        /\ engine' = [engine EXCEPT !.balances = Mixture(Dumped(balance_slice, from.time))]
        /\ engine \in Engine
    BY <1>8 DEF LoadBalances, LoadInv, SliceInv, TypeOK
  <2>2. engine'.balances = Mixture(Dumped(balance_slice, from.time))
    BY <2>1 DEF Engine
  <2>3. BalancesLoaded'
    <3>1. Dumped(balance_slice, from.time) = {from.engine.balances} =>
            engine'.balances = from.engine.balances
      BY <2>2, MixtureOfOne
    <3>2. Dumped(balance_slice, from.time)' = Dumped(balance_slice, from.time)
      BY <2>1 DEF Dumped, sliceVars
    <3> QED BY <2>1, <3>1, <3>2 DEF BalancesLoaded
  <2>4. OrdersThere(from)' /\ BalancesThere(from)' /\ (from \in slice_history \/ Gone(from.time))'
    BY <2>1 DEF LoadInv, Loading, OrdersThere, BalancesThere, Gone, Times, Dumped, sliceVars
  <2> QED BY <2>1, <2>3, <2>4 DEF LoadInv
<1>9. CASE LoadOrders
  <2>1. /\ up = "orders" /\ up' = "log" /\ from # NoSlice /\ UNCHANGED <<from, sliceVars>>
        /\ engine' = [engine EXCEPT !.orders = Mixture(Dumped(order_slice, from.time))]
        /\ engine \in Engine
    BY <1>9 DEF LoadOrders, LoadInv, SliceInv, TypeOK
  <2>2. engine'.orders = Mixture(Dumped(order_slice, from.time))
        /\ engine'.balances = engine.balances
    BY <2>1 DEF Engine
  <2>3. OrdersLoaded'
    <3>1. Dumped(order_slice, from.time) = {from.engine.orders} =>
            engine'.orders = from.engine.orders
      BY <2>2, MixtureOfOne
    <3>2. Dumped(order_slice, from.time)' = Dumped(order_slice, from.time)
      BY <2>1 DEF Dumped, sliceVars
    <3> QED BY <2>1, <3>1, <3>2 DEF OrdersLoaded
  <2>4. BalancesLoaded'
    BY <2>1, <2>2 DEF LoadInv, Loading, BalancesLoaded, Gone, Times, Dumped, sliceVars
  <2>5. OrdersThere(from)' /\ BalancesThere(from)' /\ (from \in slice_history \/ Gone(from.time))'
    BY <2>1 DEF LoadInv, Loading, OrdersThere, BalancesThere, Gone, Times, Dumped, sliceVars
  <2> QED BY <2>1, <2>3, <2>4, <2>5 DEF LoadInv
<1> QED BY <1>1, <1>4, <1>5, <1>6, <1>7, <1>8, <1>9 DEF Next

\* A start that leaves the engine sound has loaded what was dumped.
LEMMA SoundStart ==
  ASSUME SliceInv, LoadInv, LoadLog, sound', from # NoSlice
  PROVE  /\ ~Gone(from.time) /\ from \in slice_history
         /\ engine.orders = from.engine.orders /\ engine.balances = from.engine.balances
<1>1. ~Gone(from.time) /\ ~Shared(from) /\ up = "log"
  BY DEF LoadLog, TheSlice, Overtaken, Gone
<1>2. /\ from.engine.orders \in Dumped(order_slice, from.time)
      /\ from.engine.balances \in Dumped(balance_slice, from.time)
      /\ from \in slice_history /\ BalancesLoaded /\ OrdersLoaded
  BY <1>1 DEF LoadInv, Loading, OrdersThere, BalancesThere
<1>3. /\ IsFiniteSet(Dumped(order_slice, from.time))
      /\ IsFiniteSet(Dumped(balance_slice, from.time))
  BY DumpedFinite DEF SliceInv, TypeOK
<1>4. Dumped(order_slice, from.time) = {from.engine.orders}
  BY <1>1, <1>2, <1>3, NotShared DEF Shared
<1>5. Dumped(balance_slice, from.time) = {from.engine.balances}
  BY <1>1, <1>2, <1>3, NotShared DEF Shared
<1> QED BY <1>1, <1>2, <1>4, <1>5 DEF BalancesLoaded, OrdersLoaded

LEMMA SoundBefore == ASSUME [Next]_vars, sound' PROVE sound
BY DEF Next, Tick, Operation, UnloggedBatch, Execute, StoreLog, Fork, ChildStep, Connect, DumpOrders,
       DumpBalances, UpdateSliceHistory, ClearSlice, DeleteBalances, DeleteOrders, DeleteHistory,
       ChildExit, Crash, Start, LoadBalances, LoadOrders, LoadLog, LoadLogPanics, vars

\* What a child was forked with, it keeps.
LEMMA ChildStaysSame ==
  ASSUME NEW c \in children, c \in Child, ChildStep(c), NEW d \in children', d \notin children
  PROVE  d.engine = c.engine /\ d.end = c.end /\ d.process = c.process
<1> USE DEF Becomes, Child
<1>1. CASE Connect(c)
  BY <1>1 DEF Connect
<1>2. CASE DumpOrders(c)
  BY <1>2 DEF DumpOrders
<1>3. CASE DumpBalances(c)
  BY <1>3 DEF DumpBalances
<1>4. CASE UpdateSliceHistory(c)
  BY <1>4 DEF UpdateSliceHistory
<1>5. CASE ClearSlice(c)
  BY <1>5 DEF ClearSlice
<1>6. CASE DeleteBalances(c)
  BY <1>6 DEF DeleteBalances
<1>7. CASE DeleteOrders(c)
  BY <1>7 DEF DeleteOrders
<1>8. CASE DeleteHistory(c)
  BY <1>8 DEF DeleteHistory
<1>9. CASE ChildExit(c)
  BY <1>9 DEF ChildExit
<1> QED BY <1>1, <1>2, <1>3, <1>4, <1>5, <1>6, <1>7, <1>8, <1>9 DEF ChildStep

LEMMA Published ==
  ASSUME NEW c \in children, ChildStep(c)
  PROVE  /\ UpdateSliceHistory(c) \/ slice_history' \subseteq slice_history
         /\ slice_history' \subseteq slice_history \cup {HistoryRow(c)}
<1>1. UpdateSliceHistory(c) \/ slice_history' \subseteq slice_history
  BY DEF ChildStep, Connect, DumpOrders, DumpBalances, ClearSlice, DeleteBalances, DeleteOrders,
         DeleteHistory, ChildExit, sliceVars
<1> QED BY <1>1 DEF UpdateSliceHistory

LEMMA NextTwins == ASSUME SliceInv, LoadInv, TwinsInv, [Next]_vars PROVE TwinsInv'
<1> SUFFICES ASSUME sound' PROVE TwinsInv'
  BY DEF TwinsInv
<1>1. /\ sound
      /\ up = "up" => Twins(engine)
      /\ \A c \in children : Twins(c.engine)
      /\ \A h \in slice_history : Twins(h.engine)
      /\ up \in Loading /\ from # NoSlice => Twins(from.engine)
  BY SoundBefore DEF TwinsInv
<1>2. CASE \E c \in children : ChildStep(c)
  <2>1. PICK c \in children : ChildStep(c)
    BY <1>2
  <2>2. UNCHANGED <<up, engine, from>> /\ c \in Child
    BY <2>1, ChildLeavesEngine DEF engineVars, SliceInv, TypeOK
  <2>3. \A d \in children' : d.engine = c.engine \/ d \in children
    BY <2>1, <2>2, ChildStaysSame
  <2>4. \A h \in slice_history' : h.engine = c.engine \/ h \in slice_history
    BY <2>1, Published DEF HistoryRow
  <2> QED BY <1>1, <2>2, <2>3, <2>4 DEF TwinsInv, Twins
<1>3. CASE UNCHANGED <<children, sliceVars, up, engine, from>>
  BY <1>1, <1>3 DEF TwinsInv, sliceVars
<1>4. CASE UnloggedBatch \/ \E accepted \in BOOLEAN : Operation(accepted)
  <2>1. Execute /\ engine \in Engine
    BY <1>4 DEF UnloggedBatch, Operation, SliceInv, TypeOK
  <2>2. engine'.orders = engine.orders \cup {ops + 1}
        /\ engine'.balances = engine.balances \cup {ops + 1}
    BY <2>1 DEF Execute, Engine
  <2>3. up = "up" /\ up' = "up" /\ UNCHANGED <<children, sliceVars>>
    BY <2>1 DEF Execute
  <2> QED BY <1>1, <2>2, <2>3 DEF TwinsInv, Twins, Loading, sliceVars
<1>5. CASE Fork
  <2>1. up = "up" /\ UNCHANGED <<up, engine, from, sliceVars>>
    BY <1>5 DEF Fork, engineVars
  <2>2. \A d \in children' : d.engine = engine \/ d \in children
    BY <1>5 DEF Fork
  <2> QED BY <1>1, <2>1, <2>2 DEF TwinsInv, Twins, sliceVars
<1>6. CASE Crash \/ LoadLogPanics
  <2>1. up' \in {"down", "failed"} /\ UNCHANGED <<children, sliceVars>>
    BY <1>6 DEF Crash, LoadLogPanics
  <2> QED BY <1>1, <2>1 DEF TwinsInv, Loading, sliceVars
<1>7. CASE Start
  <2>1. up' \in {"log", "balances"} /\ UNCHANGED <<children, sliceVars>>
        /\ (from' = NoSlice \/ from' \in slice_history)
    BY <1>7 DEF Start
  <2> QED BY <1>1, <2>1 DEF TwinsInv, sliceVars
<1>8. CASE LoadBalances \/ LoadOrders
  <2>1. up \in Loading /\ up' # "up" /\ UNCHANGED <<children, sliceVars, from>>
    BY <1>8 DEF LoadBalances, LoadOrders, Loading
  <2> QED BY <1>1, <2>1 DEF TwinsInv, sliceVars
<1>9. CASE LoadLog
  <2>1. up = "log" /\ up' = "up" /\ UNCHANGED <<children, sliceVars, from, engine>>
    BY <1>9 DEF LoadLog
  <2>2. Twins(engine)
    <3>1. CASE from = NoSlice
      BY <2>1, <3>1 DEF LoadInv, New, Twins
    <3>2. CASE from # NoSlice
      BY <1>1, <1>9, <2>1, <3>2, SoundStart DEF Twins, Loading
    <3> QED BY <3>1, <3>2
  <2> QED BY <1>1, <2>1, <2>2 DEF TwinsInv, Twins, Loading, sliceVars
<1>10. CASE Tick \/ UNCHANGED vars \/ \E r \in pending : StoreLog(r)
  BY <1>3, <1>10 DEF Tick, StoreLog, vars, engineVars
<1> QED BY <1>2, <1>4, <1>5, <1>6, <1>7, <1>8, <1>9, <1>10 DEF Next

(***************************************************************************)
(* An engine that is up has orders and balances of the same operations,    *)
(* although they are dumped, deleted and loaded one after the other, by    *)
(* any number of children and over any crashes (state_save_load.rs,        *)
(* controller.rs init_from_db).                                            *)
(***************************************************************************)
THEOREM OrdersKeepBalances == Spec => []OrdersMatchBalances
<1>1. Init => SliceInv /\ LoadInv /\ TwinsInv
  BY RecoveryAssumption DEF Init, SliceInv, TypeOK, New, Engine, Contents, LoadInv, TwinsInv, Twins,
                            Loading
<1>2. TwinsInv => OrdersMatchBalances
  BY DEF TwinsInv, OrdersMatchBalances, Twins
<1> QED BY <1>1, <1>2, NextSlices, NextLoads, NextTwins, PTL DEF Spec

(***************************************************************************)
(* Numbers.  Slices, log rows and processes are numbered upwards; a child  *)
(* of the process that loads does not exist yet.                           *)
(***************************************************************************)
NumbersInv ==
  /\ \A h \in slice_history : h.id >= 1 /\ h.id <= slice_serial
  /\ \A g, h \in slice_history : g.id = h.id => g = h
  /\ \A r \in pending \cup operation_log : r.id >= 1
  /\ \A c \in children : c.process <= process
  /\ up \in Loading \cup {"failed"} => \A c \in children : c.process # process

LEMMA NextNumbers == ASSUME TypeOK, NumbersInv, [Next]_vars PROVE NumbersInv'
<1>1. /\ slice_serial \in Nat /\ process \in Nat /\ operation_log_id \in Nat
      /\ \A h \in slice_history : h.id \in Nat
      /\ \A c \in children : c \in Child /\ c.process \in Nat
  BY DEF TypeOK, History, Child
<1>2. CASE \E c \in children : ChildStep(c)
  <2>1. PICK c \in children : ChildStep(c)
    BY <1>2
  <2>2. UNCHANGED <<up, process, pending, operation_log>>
    BY <2>1, ChildLeavesEngine DEF engineVars
  <2>3. \A d \in children' : \E e \in children : d.process = e.process
    BY <1>1, <2>1, ChildStaysSame
  <2>4. /\ \A h \in slice_history' : h.id >= 1 /\ h.id <= slice_serial'
        /\ \A g, h \in slice_history' : g.id = h.id => g = h
    <3>1. CASE UpdateSliceHistory(c)
      <4>1. /\ slice_serial' = slice_serial + 1 /\ HistoryRow(c).id = slice_serial + 1
            /\ slice_history' = slice_history \cup {HistoryRow(c)}
        BY <3>1 DEF UpdateSliceHistory, HistoryRow
      <4>2. \A h \in slice_history : h.id # HistoryRow(c).id
        BY <1>1, <4>1 DEF NumbersInv
      <4> QED BY <1>1, <4>1, <4>2 DEF NumbersInv
    <3>2. CASE ~UpdateSliceHistory(c)
      <4>1. slice_history' \subseteq slice_history
        BY <2>1, <3>2, Published
      <4>2. slice_serial' = slice_serial
        BY <2>1, <3>2 DEF ChildStep, Connect, DumpOrders, DumpBalances, ClearSlice, DeleteBalances,
             DeleteOrders, DeleteHistory, ChildExit, sliceVars
      <4> QED BY <4>1, <4>2 DEF NumbersInv
    <3> QED BY <3>1, <3>2
  <2> QED BY <2>2, <2>3, <2>4 DEF NumbersInv
<1>3. ASSUME UNCHANGED <<slice_history, slice_serial>>
      PROVE  /\ \A h \in slice_history' : h.id >= 1 /\ h.id <= slice_serial'
             /\ \A g, h \in slice_history' : g.id = h.id => g = h
  BY <1>3 DEF NumbersInv
<1>4. CASE Tick \/ UNCHANGED vars
  BY <1>3, <1>4 DEF Tick, vars, engineVars, sliceVars, NumbersInv
<1>5. CASE \E accepted \in BOOLEAN : Operation(accepted)
  <2>1. /\ pending' \subseteq pending \cup {[id |-> operation_log_id + 1, op |-> ops + 1]}
        /\ up' = up /\ up = "up" /\ UNCHANGED <<operation_log, children, process, sliceVars>>
    BY <1>5 DEF Operation, Execute
  <2>2. \A r \in (pending \cup operation_log)' : r.id >= 1
    BY <1>1, <2>1 DEF NumbersInv
  <2> QED BY <1>3, <2>1, <2>2 DEF NumbersInv, Loading, sliceVars
<1>6. CASE UnloggedBatch
  BY <1>3, <1>6 DEF UnloggedBatch, Execute, NumbersInv, sliceVars
<1>7. CASE \E r \in pending : StoreLog(r)
  <2>1. /\ (pending \cup operation_log)' \subseteq pending \cup operation_log
        /\ UNCHANGED <<up, children, process, sliceVars>>
    BY <1>7 DEF StoreLog
  <2> QED BY <1>3, <2>1 DEF NumbersInv, sliceVars
<1>8. CASE Fork
  <2>1. /\ up = "up" /\ UNCHANGED <<up, process, pending, operation_log, sliceVars>>
        /\ \A d \in children' : d \in children \/ d.process = process
    BY <1>8 DEF Fork, engineVars
  <2> QED BY <1>1, <1>3, <2>1 DEF NumbersInv, Loading, sliceVars
<1>9. CASE Crash
  BY <1>3, <1>9 DEF Crash, NumbersInv, Loading, sliceVars
<1>10. CASE Start
  <2>1. process' = process + 1 /\ UNCHANGED <<pending, operation_log, children, sliceVars>>
    BY <1>10 DEF Start
  <2>2. \A c \in children : c.process <= process' /\ c.process # process'
    BY <1>1, <2>1 DEF NumbersInv
  <2> QED BY <1>3, <2>1, <2>2 DEF NumbersInv, sliceVars
<1>11. CASE LoadBalances \/ LoadOrders \/ LoadLog \/ LoadLogPanics
  <2>1. up \in Loading /\ UNCHANGED <<pending, operation_log, children, process, sliceVars>>
    BY <1>11 DEF LoadBalances, LoadOrders, LoadLog, LoadLogPanics, Loading
  <2> QED BY <1>3, <2>1 DEF NumbersInv, sliceVars
<1> QED BY <1>2, <1>4, <1>5, <1>6, <1>7, <1>8, <1>9, <1>10, <1>11 DEF Next

(***************************************************************************)
(* Memory.  Of the slices only some matter: those published since the last *)
(* engine came up, and the slice it came up from, its base.  The base      *)
(* remembers the whole log, and is the last slice until a younger one of   *)
(* the same engine takes its place; older ones can never become the last   *)
(* again, because none of them overtook the base.                          *)
(***************************************************************************)
Remembers(x) == \A r \in pending \cup operation_log : r.id <= x.end => r.op \in x.engine.orders

\* x was made by the engine whose log ids are still counting.
Faithful(x) == Remembers(x) /\ (up = "up" => x.end <= operation_log_id)

Since(g, b) == b = NoSlice \/ g = b \/ g.id > b.id

Base(b) ==
  /\ \A g \in slice_history : Since(g, b) => Faithful(g)
  /\ b # NoSlice =>
       /\ b.id <= slice_serial
       /\ \/ b \in slice_history
          \/ \E h \in slice_history : h.id > b.id /\ h.time - SLICE_KEEP_TIME >= b.time
       /\ \A g \in slice_history : g.id <= b.id => g.time - SLICE_KEEP_TIME < b.time

MemoryInv ==
  sound =>
    /\ up = "up" => \A r \in pending \cup operation_log : r.op \in engine.orders
    /\ \A c \in children : c.process = process => Faithful(c)
    /\ up \in Loading /\ from # NoSlice =>
         Remembers(from) /\ \A h \in slice_history : h.id <= from.id
    /\ up \in Loading /\ from = NoSlice => slice_history = {}
    /\ \E b \in History \cup {NoSlice} : Base(b)

RecoveryInv ==
  LogInv /\ SliceInv /\ LoadInv /\ TwinsInv /\ NumbersInv /\ MemoryInv

\* The last slice is the base or was published since.
LEMMA LastIsSince ==
  ASSUME TypeOK, NumbersInv, NEW b \in History \cup {NoSlice}, Base(b),
         NEW h \in slice_history, get_last_slice(h)
  PROVE  Since(h, b)
<1> SUFFICES ASSUME b # NoSlice, b \in History PROVE h = b \/ h.id > b.id
  BY DEF Since
<1>1. h.id \in Nat /\ b.id \in Nat /\ \A g \in slice_history : g.id \in Nat /\ g.id <= h.id
  BY DEF get_last_slice, TypeOK, History
<1>2. CASE b \in slice_history
  BY <1>1, <1>2 DEF NumbersInv
<1>3. CASE \E g \in slice_history : g.id > b.id
  BY <1>1, <1>3
<1> QED BY <1>2, <1>3 DEF Base

LEMMA FaithfulStays ==
  ASSUME NEW x, Faithful(x), (pending \cup operation_log)' \subseteq pending \cup operation_log,
         up' = "up" => up = "up" /\ operation_log_id' = operation_log_id
  PROVE  Faithful(x)'
BY DEF Faithful, Remembers

LEMMA BaseStays ==
  ASSUME NEW b, Base(b), (pending \cup operation_log)' \subseteq pending \cup operation_log,
         up' = "up" => up = "up" /\ operation_log_id' = operation_log_id,
         UNCHANGED sliceVars
  PROVE  Base(b)'
<1>1. \A g \in slice_history' : Since(g, b) => Faithful(g)'
  BY FaithfulStays DEF Base, sliceVars
<1> QED BY <1>1 DEF Base, sliceVars, Since

\* Where a deleted slice was, a younger one is, and it was published later.
LEMMA BaseGivesWay ==
  ASSUME SliceInv, NumbersInv, NEW b \in History, Base(b), b # NoSlice,
         NEW c \in children, ChildStep(c), NEW h \in slice_history, h \notin slice_history',
         h = b \/ h.time - SLICE_KEEP_TIME >= b.time
  PROVE  \E y \in slice_history' : y.id > b.id /\ y.time - SLICE_KEEP_TIME >= b.time
<1>1. Gone(h.time)'
  BY DeletedGone
<1>2. PICK y \in slice_history' : y.time - SLICE_KEEP_TIME >= h.time
  BY <1>1 DEF Gone, Times
<1>3. ~UpdateSliceHistory(c)
  BY DEF UpdateSliceHistory
<1>4. y \in slice_history
  BY <1>3, Published
<1>5. /\ y.time \in Nat /\ y.id \in Nat /\ b.time \in Nat /\ b.id \in Nat /\ h.time \in Nat
      /\ SLICE_KEEP_TIME \in Nat
  BY <1>4, RecoveryAssumption DEF SliceInv, TypeOK, History
<1>6. y.time - SLICE_KEEP_TIME >= b.time
  BY <1>2, <1>5
<1>7. ~(y.id <= b.id)
  BY <1>4, <1>5, <1>6 DEF Base
<1> QED BY <1>5, <1>6, <1>7

LEMMA ChildBase ==
  ASSUME SliceInv, NumbersInv, NEW b \in History \cup {NoSlice}, Base(b),
         NEW c \in children, ChildStep(c), UpdateSliceHistory(c) => Faithful(c)
  PROVE  Base(b)'
<1>1. UNCHANGED <<up, operation_log_id, pending, operation_log>>
  BY ChildLeavesEngine DEF engineVars
<1>2. \A x : Faithful(x) => Faithful(x)'
  BY <1>1 DEF Faithful, Remembers
<1>3. \A g \in slice_history' : g \in slice_history \/ (UpdateSliceHistory(c) /\ g = HistoryRow(c))
  BY Published
<1>4. ASSUME UpdateSliceHistory(c), NEW h, h = HistoryRow(c) PROVE Faithful(h)'
  <2>1. h.end = c.end /\ h.engine = c.engine
    BY <1>4 DEF HistoryRow
  <2>2. Faithful(h)
    BY <1>4, <2>1 DEF Faithful, Remembers
  <2> QED BY <1>2, <2>2
<1>5. \A g \in slice_history' : Since(g, b) => Faithful(g)'
  BY <1>2, <1>3, <1>4 DEF Base
<1>6. ASSUME b # NoSlice
      PROVE  /\ b.id <= slice_serial'
             /\ \/ b \in slice_history'
                \/ \E h \in slice_history' : h.id > b.id /\ h.time - SLICE_KEEP_TIME >= b.time
             /\ \A g \in slice_history' : g.id <= b.id => g.time - SLICE_KEEP_TIME < b.time
  <2>1. b \in History /\ b.id \in Nat /\ slice_serial \in Nat /\ b.id <= slice_serial
    BY <1>6 DEF Base, History, SliceInv, TypeOK
  <2>2. slice_serial' = slice_serial \/ (UpdateSliceHistory(c) /\ slice_serial' = slice_serial + 1)
    BY DEF ChildStep, Connect, DumpOrders, DumpBalances, UpdateSliceHistory, ClearSlice,
           DeleteBalances, DeleteOrders, DeleteHistory, ChildExit, sliceVars
  <2>3. b.id <= slice_serial'
    BY <2>1, <2>2
  <2>4. \/ b \in slice_history'
        \/ \E h \in slice_history' : h.id > b.id /\ h.time - SLICE_KEEP_TIME >= b.time
    <3>1. PICK h \in slice_history :
            h = b \/ (h.id > b.id /\ h.time - SLICE_KEEP_TIME >= b.time)
      BY <1>6 DEF Base
    <3>2. CASE h \in slice_history'
      BY <3>1, <3>2
    <3>3. CASE h \notin slice_history'
      BY <1>6, <2>1, <3>1, <3>3, BaseGivesWay
    <3> QED BY <3>2, <3>3
  <2>5. \A g \in slice_history' : g.id <= b.id => g.time - SLICE_KEEP_TIME < b.time
    <3>1. UpdateSliceHistory(c) => ~(HistoryRow(c).id <= b.id)
      BY <2>1 DEF HistoryRow
    <3> QED BY <1>3, <1>6, <3>1 DEF Base
  <2> QED BY <2>3, <2>4, <2>5
<1> QED BY <1>5, <1>6 DEF Base, Since

LEMMA ChildMemory ==
  ASSUME RecoveryInv, NEW c \in children, ChildStep(c)
  PROVE  MemoryInv'
<1> USE DEF RecoveryInv
<1> SUFFICES ASSUME sound' PROVE MemoryInv'
  BY DEF MemoryInv
<1>1. sound /\ (UpdateSliceHistory(c) => c.process = process)
  BY DEF ChildStep, Connect, DumpOrders, DumpBalances, UpdateSliceHistory, ClearSlice,
         DeleteBalances, DeleteOrders, DeleteHistory, ChildExit
<1>2. /\ up = "up" => \A r \in pending \cup operation_log : r.op \in engine.orders
      /\ \A d \in children : d.process = process => Faithful(d)
      /\ up \in Loading /\ from # NoSlice =>
           Remembers(from) /\ \A h \in slice_history : h.id <= from.id
      /\ up \in Loading /\ from = NoSlice => slice_history = {}
  BY <1>1 DEF MemoryInv
<1>3. UNCHANGED <<up, process, engine, from, operation_log_id, pending, operation_log>>
  BY ChildLeavesEngine DEF engineVars
<1>4. c \in Child
  BY DEF SliceInv, TypeOK
<1>5. \A x : Faithful(x) => Faithful(x)'
  BY <1>3 DEF Faithful, Remembers
<1>6. \A d \in children' : d.process = process => Faithful(d)'
  <2> SUFFICES ASSUME NEW d \in children', d.process = process PROVE Faithful(d)'
    OBVIOUS
  <2>1. CASE d \in children
    BY <1>2, <1>5, <2>1
  <2>2. CASE d \notin children
    <3>1. d.engine = c.engine /\ d.end = c.end /\ d.process = c.process
      BY <1>4, <2>2, ChildStaysSame
    <3>2. Faithful(c)'
      BY <1>2, <1>5, <3>1
    <3> QED BY <3>1, <3>2 DEF Faithful, Remembers
  <2> QED BY <2>1, <2>2
<1>7. up \in Loading => slice_history' \subseteq slice_history
  BY <1>1, Published DEF NumbersInv
<1>8. up \in Loading /\ from # NoSlice =>
        Remembers(from)' /\ \A h \in slice_history' : h.id <= from.id
  BY <1>2, <1>3, <1>7 DEF Remembers
<1>9. PICK b \in History \cup {NoSlice} : Base(b)
  BY <1>1 DEF MemoryInv
<1>10. Base(b)'
  BY <1>1, <1>2, <1>9, ChildBase
<1> QED BY <1>2, <1>3, <1>6, <1>7, <1>8, <1>9, <1>10 DEF MemoryInv

\* An operation's row comes after everything that was made before it.
LEMMA OperationMemory ==
  ASSUME RecoveryInv, NEW accepted \in BOOLEAN, Operation(accepted)
  PROVE  MemoryInv'
<1> USE DEF RecoveryInv
<1> SUFFICES ASSUME sound' PROVE MemoryInv'
  BY DEF MemoryInv
<1> DEFINE row == [id |-> operation_log_id + 1, op |-> ops + 1]
<1>1. /\ sound /\ up = "up" /\ up' = "up" /\ operation_log_id' = operation_log_id + 1
      /\ pending' \subseteq pending \cup {row}
      /\ UNCHANGED <<process, operation_log, children, sliceVars>>
  BY DEF Operation, Execute
<1>2. engine'.orders = engine.orders \cup {ops + 1}
  <2>1. engine \in Engine
    BY DEF SliceInv, TypeOK
  <2> QED BY <2>1 DEF Operation, Execute, Engine
<1>3. operation_log_id \in Nat /\ row.id = operation_log_id + 1 /\ row.op = ops + 1
  BY DEF SliceInv, TypeOK
<1>4. \A r \in (pending \cup operation_log)' : r.op \in engine'.orders
  BY <1>1, <1>2, <1>3 DEF MemoryInv
<1>5. ASSUME NEW x, x.end \in Nat, Faithful(x) PROVE Faithful(x)'
  <2>1. x.end <= operation_log_id /\ Remembers(x)
    BY <1>1, <1>5 DEF Faithful
  <2>2. ~(row.id <= x.end) /\ x.end <= operation_log_id + 1
    BY <1>3, <1>5, <2>1
  <2>3. Remembers(x)'
    BY <1>1, <2>1, <2>2 DEF Remembers
  <2> QED BY <1>1, <2>2, <2>3 DEF Faithful
<1>6. \A c \in children' : c.process = process' => Faithful(c)'
  BY <1>1, <1>5 DEF MemoryInv, SliceInv, TypeOK, Child
<1>7. PICK b \in History \cup {NoSlice} : Base(b)
  BY <1>1 DEF MemoryInv
<1>8. \A g \in slice_history' : Since(g, b) => Faithful(g)'
  BY <1>1, <1>5, <1>7 DEF Base, SliceInv, TypeOK, History, sliceVars
<1>9. Base(b)'
  BY <1>1, <1>7, <1>8 DEF Base, Since, sliceVars
<1> QED BY <1>1, <1>4, <1>6, <1>7, <1>9 DEF MemoryInv, Loading

\* A start takes the last slice, and the last slice remembers the log.
LEMMA StartMemory == ASSUME RecoveryInv, Start PROVE MemoryInv'
<1> USE DEF RecoveryInv
<1> SUFFICES ASSUME sound' PROVE MemoryInv'
  BY DEF MemoryInv
<1>1. /\ sound /\ up # "up" /\ up' \in {"log", "balances"} /\ process' = process + 1
      /\ UNCHANGED <<pending, operation_log, children, sliceVars>>
      /\ \/ slice_history = {} /\ from' = NoSlice
         \/ \E h \in slice_history : get_last_slice(h) /\ from' = h
  BY DEF Start
<1>2. PICK b \in History \cup {NoSlice} : Base(b)
  BY <1>1 DEF MemoryInv
<1>3. Base(b)'
  BY <1>1, <1>2, BaseStays
<1>4. \A c \in children' : c.process # process'
  BY <1>1 DEF NumbersInv, SliceInv, TypeOK, Child
<1>5. CASE slice_history = {} /\ from' = NoSlice
  BY <1>1, <1>3, <1>4, <1>5 DEF MemoryInv, sliceVars
<1>6. CASE \E h \in slice_history : get_last_slice(h) /\ from' = h
  <2>1. PICK h \in slice_history : get_last_slice(h) /\ from' = h
    BY <1>6
  <2>2. Remembers(h) /\ h # NoSlice
    BY <1>2, <2>1, LastIsSince, NoSliceAssumption DEF Base, Faithful, SliceInv, TypeOK
  <2>3. Remembers(from)'
    BY <1>1, <2>1, <2>2 DEF Remembers
  <2>4. \A g \in slice_history' : g.id <= from'.id
    BY <1>1, <2>1 DEF get_last_slice, sliceVars
  <2> QED BY <1>1, <1>2, <1>3, <1>4, <2>1, <2>2, <2>3, <2>4 DEF MemoryInv
<1> QED BY <1>1, <1>5, <1>6

\* The slice of an engine that comes up becomes the base.
LEMMA LoadLogMemory == ASSUME RecoveryInv, LoadLog PROVE MemoryInv'
<1> USE DEF RecoveryInv
<1> SUFFICES ASSUME sound' PROVE MemoryInv'
  BY DEF MemoryInv
<1>1. /\ up = "log" /\ up' = "up" /\ operation_log_id' = end_operation_log_id /\ LaterRows = {}
      /\ UNCHANGED <<engine, process, pending, from, children, operation_log, sliceVars>>
  BY DEF LoadLog
<1>2. sound
  BY DEF LoadLog
<1>3. pending = {} /\ \A c \in children : c.process # process
  BY <1>1 DEF LogInv, PastTheLog, NumbersInv, Loading
<1>4. CASE from = NoSlice
  <2>1. end_operation_log_id = 0 /\ \A r \in operation_log : r.id \in Nat /\ r.id >= 1
    BY <1>4 DEF end_operation_log_id, NumbersInv, SliceInv, TypeOK, LogRow
  <2>2. operation_log = {}
    BY <1>1, <2>1 DEF LaterRows
  <2>3. slice_history = {}
    BY <1>1, <1>2, <1>4 DEF MemoryInv, Loading
  <2>4. Base(NoSlice)'
    BY <1>1, <2>3 DEF Base, sliceVars
  <2> QED BY <1>1, <1>3, <2>2, <2>4 DEF MemoryInv, Loading
<1>5. CASE from # NoSlice
  <2>1. /\ ~Gone(from.time) /\ from \in slice_history
        /\ engine.orders = from.engine.orders
    BY <1>5, SoundStart
  <2>2. Remembers(from) /\ \A h \in slice_history : h.id <= from.id
    BY <1>1, <1>2, <1>5 DEF MemoryInv, Loading
  <2>3. /\ from \in History /\ from.end \in Nat /\ from.id \in Nat
        /\ end_operation_log_id = from.end
        /\ \A h \in slice_history : h.id \in Nat /\ h.time \in Nat
        /\ from.time \in Nat /\ SLICE_KEEP_TIME \in Nat
    BY <1>5, RecoveryAssumption DEF SliceInv, TypeOK, History, end_operation_log_id
  <2>4. \A r \in operation_log : r.id <= from.end
    BY <1>1, <2>3 DEF LaterRows, SliceInv, TypeOK, LogRow
  <2>5. \A r \in (pending \cup operation_log)' : r.op \in engine'.orders
    BY <1>1, <1>3, <2>1, <2>2, <2>4 DEF Remembers
  <2>6. PICK b \in History : b = from
    BY <2>3
  <2>7. Faithful(b)'
    <3>1. Remembers(b)'
      BY <1>1, <2>2, <2>6 DEF Remembers
    <3>2. b.end <= operation_log_id'
      BY <1>1, <2>3, <2>6
    <3> QED BY <3>1, <3>2 DEF Faithful
  <2>8. \A g \in slice_history' : Since(g, b) => g = b
    BY <1>1, <1>5, <2>2, <2>3, <2>6 DEF Since, sliceVars
  <2>9. \A g \in slice_history' : g.time - SLICE_KEEP_TIME < b.time
    <3>1. ASSUME NEW g \in slice_history PROVE g.time - SLICE_KEEP_TIME < b.time
      <4>1. g.time \in Times
        BY DEF Times
      <4>2. ~(g.time - SLICE_KEEP_TIME >= b.time)
        BY <2>1, <2>6, <4>1 DEF Gone
      <4> QED BY <2>3, <2>6, <4>2
    <3> QED BY <1>1, <3>1 DEF sliceVars
  <2>10. Base(b)'
    <3>1. b \in slice_history' /\ b.id <= slice_serial'
      BY <1>1, <2>1, <2>6 DEF NumbersInv, sliceVars
    <3> QED BY <2>7, <2>8, <2>9, <3>1 DEF Base
  <2> QED BY <1>1, <1>3, <2>5, <2>6, <2>10 DEF MemoryInv, Loading
<1> QED BY <1>4, <1>5

LEMMA NextMemory == ASSUME RecoveryInv, [Next]_vars PROVE MemoryInv'
<1> USE DEF RecoveryInv
<1>1. CASE \E c \in children : ChildStep(c)
  BY <1>1, ChildMemory
<1>2. CASE \E accepted \in BOOLEAN : Operation(accepted)
  BY <1>2, OperationMemory
<1>3. CASE Start
  BY <1>3, StartMemory
<1>4. CASE LoadLog
  BY <1>4, LoadLogMemory
<1>5. CASE Fork
  <2> SUFFICES ASSUME sound' PROVE MemoryInv'
    BY DEF MemoryInv
  <2>1. /\ sound /\ up = "up"
        /\ UNCHANGED <<engineVars, operation_log, sliceVars>>
    BY <1>5 DEF Fork
  <2>2. \A d \in children' : d \in children \/ (d.engine = engine /\ d.end = operation_log_id)
    BY <1>5 DEF Fork
  <2>3. \A x : Faithful(x) => Faithful(x)'
    BY <2>1 DEF Faithful, Remembers, engineVars
  <2>4. \A d \in children' : d.process = process' => Faithful(d)'
    <3> SUFFICES ASSUME NEW d \in children', d.process = process' PROVE Faithful(d)'
      OBVIOUS
    <3>1. CASE d \in children
      BY <2>1, <2>3, <3>1 DEF MemoryInv, engineVars
    <3>2. CASE d.engine = engine /\ d.end = operation_log_id
      <4>1. operation_log_id <= operation_log_id
        BY DEF SliceInv, TypeOK
      <4>2. Faithful(d)
        BY <2>1, <3>2, <4>1 DEF Faithful, Remembers, MemoryInv
      <4> QED BY <2>3, <4>2
    <3> QED BY <2>2, <3>1, <3>2
  <2>5. PICK b \in History \cup {NoSlice} : Base(b)
    BY <2>1 DEF MemoryInv
  <2>6. Base(b)'
    BY <2>1, <2>5, BaseStays DEF engineVars
  <2> QED BY <2>1, <2>4, <2>5, <2>6 DEF MemoryInv, Loading, engineVars
<1>6. ASSUME sound' = sound, UNCHANGED <<process, children, sliceVars>>,
             (pending \cup operation_log)' \subseteq pending \cup operation_log,
             up' = "up" => /\ up = "up" /\ operation_log_id' = operation_log_id
                           /\ engine.orders \subseteq engine'.orders,
             up' \in Loading => up \in Loading /\ from' = from
      PROVE  MemoryInv'
  <2> SUFFICES ASSUME sound PROVE MemoryInv'
    BY <1>6 DEF MemoryInv
  <2>1. PICK b \in History \cup {NoSlice} : Base(b)
    BY DEF MemoryInv
  <2>2. Base(b)'
    BY <1>6, <2>1, BaseStays
  <2>3. \A c \in children' : c.process = process' => Faithful(c)'
    BY <1>6, FaithfulStays DEF MemoryInv
  <2>4. up' = "up" => \A r \in (pending \cup operation_log)' : r.op \in engine'.orders
    BY <1>6 DEF MemoryInv
  <2>5. up' \in Loading /\ from' # NoSlice =>
          Remembers(from)' /\ \A h \in slice_history' : h.id <= from'.id
    BY <1>6 DEF MemoryInv, Remembers, sliceVars
  <2>6. up' \in Loading /\ from' = NoSlice => slice_history' = {}
    BY <1>6 DEF MemoryInv, sliceVars
  <2> QED BY <2>1, <2>2, <2>3, <2>4, <2>5, <2>6 DEF MemoryInv
<1>7. CASE UnloggedBatch
  <2>1. engine \in Engine
    BY DEF SliceInv, TypeOK
  <2>2. engine.orders \subseteq engine'.orders
    BY <1>7, <2>1 DEF UnloggedBatch, Execute, Engine
  <2> QED BY <1>6, <1>7, <2>2 DEF UnloggedBatch, Execute, Loading
<1>8. CASE Tick \/ UNCHANGED vars
  BY <1>6, <1>8 DEF Tick, vars, engineVars
<1>9. CASE \E r \in pending : StoreLog(r)
  BY <1>6, <1>9 DEF StoreLog, Loading
<1>10. CASE Crash \/ LoadLogPanics \/ LoadBalances \/ LoadOrders
  BY <1>6, <1>10 DEF Crash, LoadLogPanics, LoadBalances, LoadOrders, Loading
<1> QED BY <1>1, <1>2, <1>3, <1>4, <1>5, <1>7, <1>8, <1>9, <1>10 DEF Next

(***************************************************************************)
(* No crash, start, deletion or order of publication makes a sound engine  *)
(* forget an operation whose row is in the log: what the slice does not    *)
(* have keeps the engine from starting (controller.rs init_from_db, which  *)
(* loads the last slice and the rows after it).                            *)
(***************************************************************************)
THEOREM LoggedStaysRemembered == Spec => []LoggedIsRemembered
<1>1. Init => RecoveryInv
  <2> SUFFICES ASSUME Init PROVE RecoveryInv
    OBVIOUS
  <2>1. TypeOK /\ LogInv
    BY RecoveryAssumption
       DEF Init, LogInv, TypeOK, New, Engine, Contents, PastTheLog, LogIdsFresh
  <2>2. SliceInv /\ LoadInv /\ TwinsInv
    BY <2>1 DEF Init, SliceInv, New, LoadInv, TwinsInv, Twins, Loading
  <2>3. NumbersInv
    BY DEF Init, NumbersInv, Loading
  <2>4. Base(NoSlice)
    BY DEF Init, Base
  <2>5. MemoryInv
    BY <2>4 DEF Init, MemoryInv, Loading
  <2> QED BY <2>1, <2>2, <2>3, <2>5 DEF RecoveryInv
<1>2. RecoveryInv /\ [Next]_vars => RecoveryInv'
  <2> SUFFICES ASSUME RecoveryInv, [Next]_vars PROVE RecoveryInv'
    OBVIOUS
  <2>1. LogInv' /\ SliceInv'
    BY NextLog, NextSlices DEF RecoveryInv
  <2>2. LoadInv' /\ TwinsInv'
    BY NextLoads, NextTwins DEF RecoveryInv
  <2>3. NumbersInv' /\ MemoryInv'
    BY NextNumbers, NextMemory DEF RecoveryInv, SliceInv
  <2> QED BY <2>1, <2>2, <2>3 DEF RecoveryInv
<1>3. RecoveryInv => LoggedIsRemembered
  BY DEF RecoveryInv, MemoryInv, LoggedIsRemembered
<1> QED BY <1>1, <1>2, <1>3, PTL DEF Spec

=============================================================================
