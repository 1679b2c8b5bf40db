--------------------------- MODULE DatabaseWriter ---------------------------
(***************************************************************************)
(* The asynchronous writer every table of the exchange is filled by        *)
(* (storage/database.rs): a bounded channel, a scheduler that gathers rows *)
(* into tasks, and tasks that insert them, several at a time, and retry    *)
(* what failed.  The operation log and all history tables are written      *)
(* through it.                                                             *)
(*                                                                         *)
(* Rows are offered in the order of Input, the rows of a run; row r is     *)
(* [tag, pos], the notification it carries, or NoNotify.  The scheduler's  *)
(* select! takes any branch that is ready, and so does Next.               *)
(***************************************************************************)
EXTENDS Progress

CONSTANTS
  NoNotify,       \* a row without a notification
  Input,          \* the rows clients offer, in this order
  INSERT_LIMIT,   \* rows of a task
  CHANNEL_LIMIT,  \* messages the channel holds
  spawn_limit,    \* DatabaseWriterConfig.spawn_limit
  Chunks,         \* the sizes of full statements (8, 16 .. 1024 in the code)
  MaxFails        \* bound: statements that fail

Rows == 1..Len(Input)

Carries(r) == Input[r] # NoNotify

\* The rows of a tag come in ascending order, as a Kafka partition is read.
ASSUME WriterAssumption ==
  /\ Input \in Seq([tag : Tags, pos : Nat] \cup {NoNotify})
  /\ \A r, q \in Rows :
       r < q /\ Carries(r) /\ Carries(q) /\ Input[r].tag = Input[q].tag
         => Input[r].pos < Input[q].pos
  /\ INSERT_LIMIT \in Nat \ {0}
  /\ CHANNEL_LIMIT \in Nat \ {0}
  /\ spawn_limit \in Nat \ {0}
  /\ Chunks \subseteq Nat \ {0}
  /\ MaxFails \in Nat

VARIABLES
  chan,          \* the channel: Data, Done, Fail and Exit messages
  next_task,     \* next_task_stack, oldest task first
  error_task,    \* error_task_stack, oldest task first
  running,       \* the tasks spawned and not yet reported back
  tracing,       \* notify_tracing
  pending_count, spawning_tasks,
  grace_down,
  exited,        \* the scheduler has left its loop
  table,         \* how often each row has been inserted
  offered,       \* rows offered by clients
  dropped,       \* rows append_with_notify has refused
  finishing,     \* finish() has sent Exit
  reported,      \* the last position sent over complete_notify, by tag
  doubtful,      \* rows inserted by a statement that then failed
  fails          \* statements that failed

clientVars == <<offered, dropped, finishing>>
scheduleVars == <<next_task, error_task, tracing, pending_count, spawning_tasks,
                  grace_down, exited>>
dbVars == <<table, doubtful, fails>>
vars == <<chan, running, reported, clientVars, scheduleVars, dbVars>>

Data(r)  == [kind |-> "Data", row |-> r]
Back(kind, task) == [kind |-> kind, task |-> task]
Exit == [kind |-> "Exit"]

Init ==
  /\ chan = <<>>
  /\ next_task = <<>> /\ error_task = <<>> /\ running = {}
  /\ tracing = [t \in Tags |-> <<>>]
  /\ pending_count = 0 /\ spawning_tasks = 0
  /\ grace_down = FALSE /\ exited = FALSE
  /\ table = [r \in Rows |-> 0]
  /\ offered = 0 /\ dropped = {} /\ finishing = FALSE
  /\ reported = [t \in Tags |-> -1]
  /\ doubtful = {} /\ fails = 0

HasRoom == Len(chan) < CHANNEL_LIMIT

Accepted == (1..offered) \ dropped

(***************************************************************************)
(* append_with_notify never blocks.  A row that finds the channel full or  *)
(* closed is handed back, and the callers drop it (.ok()).                 *)
(***************************************************************************)
AppendWithNotify ==
  /\ offered < Len(Input)
  /\ offered' = offered + 1
  /\ IF HasRoom /\ ~exited
     THEN chan' = Append(chan, Data(offered + 1)) /\ UNCHANGED dropped
     ELSE dropped' = dropped \cup {offered + 1} /\ UNCHANGED chan
  /\ UNCHANGED <<finishing, running, reported, scheduleVars, dbVars>>

(***************************************************************************)
(* finish() waits for room, sends Exit and awaits the scheduler.  Cloned   *)
(* entries can still append after it.                                      *)
(***************************************************************************)
Finish ==
  /\ ~finishing
  /\ HasRoom
  /\ chan' = Append(chan, Exit)
  /\ finishing' = TRUE
  /\ UNCHANGED <<offered, dropped, running, reported, scheduleVars, dbVars>>

(***************************************************************************)
(* The scheduler receives a message.                                       *)
(***************************************************************************)
Receive(kind) ==
  /\ ~exited
  /\ chan # <<>> /\ Head(chan).kind = kind
  /\ chan' = Tail(chan)
  /\ UNCHANGED <<running, clientVars, dbVars, exited>>

EmptyTask == [data |-> <<>>, flag |-> NoFlag]

is_limited(task) == Len(task.data) >= INSERT_LIMIT

add_data(task, r) ==
  [data |-> Append(task.data, r),
   flag |-> IF Carries(r) THEN add_to(task.flag, Input[r].tag, Input[r].pos)
            ELSE task.flag]

ReceiveData ==
  /\ Receive("Data")
  /\ LET r == Head(chan).row
     IN  next_task' = IF next_task = <<>> \/ is_limited(Last(next_task))
                      THEN Append(next_task, add_data(EmptyTask, r))
                      ELSE Append(Front(next_task), add_data(Last(next_task), r))
  /\ pending_count' = pending_count + 1
  /\ UNCHANGED <<error_task, tracing, spawning_tasks, grace_down, reported>>

\* What finish_from returns is sent over the watch channel complete_notify.
ReceiveDone ==
  /\ Receive("Done")
  /\ spawning_tasks' = spawning_tasks - 1
  /\ LET done == finish_from(tracing, Head(chan).task.flag)
     IN  /\ tracing' = done.tracing
         /\ reported' = [t \in Tags |-> IF t \in DOMAIN done.flag THEN done.flag[t]
                                        ELSE reported[t]]
  /\ UNCHANGED <<next_task, error_task, pending_count, grace_down>>

\* Mutant: a failed task is no longer counted while it waits for its retry.
ReceiveFail_NotCounted ==
  /\ Receive("Fail")
  /\ error_task' = Append(error_task, Head(chan).task)
  /\ spawning_tasks' = spawning_tasks - 1
  /\ UNCHANGED <<next_task, tracing, pending_count, grace_down, reported>>

ReceiveFail ==
  /\ Receive("Fail")
  /\ error_task' = Append(error_task, Head(chan).task)
  /\ UNCHANGED <<next_task, tracing, pending_count, spawning_tasks, grace_down, reported>>

ReceiveExit ==
  /\ Receive("Exit")
  /\ grace_down' = TRUE
  /\ UNCHANGED <<next_task, error_task, tracing, pending_count, spawning_tasks, reported>>

(***************************************************************************)
(* The scheduler gets a connection and spawns a task; a failed one first.  *)
(***************************************************************************)
Spawned(task) == [task |-> task, left |-> task.data, outcome |-> "running"]

\* Mutant: a retry waits for the spawn limit as a new task does.
SpawnError_Limited ==
  /\ ~exited
  /\ error_task # <<>>
  /\ spawning_tasks < spawn_limit
  /\ error_task' = Tail(error_task)
  /\ running' = running \cup {Spawned(Head(error_task))}
  /\ UNCHANGED <<chan, next_task, tracing, pending_count, spawning_tasks, grace_down,
                 exited, reported, clientVars, dbVars>>

SpawnError ==
  /\ ~exited
  /\ error_task # <<>>
  /\ error_task' = Tail(error_task)
  /\ running' = running \cup {Spawned(Head(error_task))}
  /\ UNCHANGED <<chan, next_task, tracing, pending_count, spawning_tasks, grace_down,
                 exited, reported, clientVars, dbVars>>

SpawnNext ==
  /\ ~exited
  /\ error_task = <<>>
  /\ next_task # <<>>
  /\ spawning_tasks < spawn_limit
  /\ spawning_tasks' = spawning_tasks + 1
  /\ next_task' = Tail(next_task)
  /\ pending_count' = pending_count - Len(Head(next_task).data)
  /\ tracing' = update_from(tracing, Head(next_task).flag)
  /\ running' = running \cup {Spawned(Head(next_task))}
  /\ UNCHANGED <<chan, error_task, grace_down, exited, reported, clientVars, dbVars>>

MayExit == grace_down /\ spawning_tasks = 0 /\ next_task = <<>>

\* The receiver is dropped with what is still in the channel.
SchedulerExit ==
  /\ ~exited
  /\ MayExit
  /\ exited' = TRUE
  /\ chan' = <<>>
  /\ UNCHANGED <<next_task, error_task, tracing, pending_count, spawning_tasks, grace_down,
                 running, reported, clientVars, dbVars>>

(***************************************************************************)
(* A task inserts its rows (sql_query_fine): statements of the largest     *)
(* size of Chunks that fits, and one statement for what is left.           *)
(***************************************************************************)
StatementSize(n) ==
  LET fits == {c \in Chunks : c <= n}
  IN  IF fits = {} THEN n ELSE CHOOSE c \in fits : \A d \in fits : d <= c

Statement(t) == ToSet(SubSeq(t.left, 1, StatementSize(Len(t.left))))

Rest(t) == SubSeq(t.left, StatementSize(Len(t.left)) + 1, Len(t.left))

Inserted(S) == [r \in Rows |-> IF r \in S THEN table[r] + 1 ELSE table[r]]

Becomes(t, u) == running' = (running \ {t}) \cup {u}

InsertOk(t) ==
  /\ t.outcome = "running"
  /\ table' = Inserted(Statement(t))
  /\ Becomes(t, [t EXCEPT !.left = Rest(t),
                          !.outcome = IF Rest(t) = <<>> THEN "Done" ELSE "running"])
  /\ UNCHANGED <<chan, reported, clientVars, scheduleVars, doubtful, fails>>

\* Mutant: the whole task is tried again, not what is left of it.
Resident_All(t) == t.task.data

\* What is tried again after a failure: from the failed statement on.
Resident(t) == t.left

(***************************************************************************)
(* A statement fails.  When the connection broke before the answer came,   *)
(* its rows are in the table nevertheless.                                 *)
(***************************************************************************)
InsertFail(t, committed) ==
  /\ t.outcome = "running"
  /\ fails < MaxFails
  /\ fails' = fails + 1
  /\ table' = IF committed THEN Inserted(Statement(t)) ELSE table
  /\ doubtful' = IF committed THEN doubtful \cup Statement(t) ELSE doubtful
  /\ Becomes(t, [t EXCEPT !.task.data = Resident(t), !.outcome = "Fail"])
  /\ UNCHANGED <<chan, reported, clientVars, scheduleVars>>

\* The task sends Done or Fail back, waiting for room in the channel.
SendBack(t) ==
  /\ t.outcome \in {"Done", "Fail"}
  /\ HasRoom
  /\ ~exited
  /\ chan' = Append(chan, Back(t.outcome, t.task))
  /\ running' = running \ {t}
  /\ UNCHANGED <<reported, clientVars, scheduleVars, dbVars>>

ReceiveAny == ReceiveData \/ ReceiveDone \/ ReceiveFail \/ ReceiveExit

Spawn == SpawnError \/ SpawnNext

TaskStep == \E t \in running : InsertOk(t) \/ SendBack(t)

Next ==
  \/ AppendWithNotify
  \/ Finish
  \/ ReceiveData
  \/ ReceiveDone
  \/ ReceiveFail
  \/ ReceiveExit
  \/ SpawnError
  \/ SpawnNext
  \/ SchedulerExit
  \/ \E t \in running : InsertOk(t)
  \/ \E t \in running, committed \in BOOLEAN : InsertFail(t, committed)
  \/ \E t \in running : SendBack(t)

Spec == Init /\ [][Next]_vars

(***************************************************************************)
(* select! polls its ready branches in random order, so none starves; a    *)
(* task runs until it has reported back; statements fail only MaxFails     *)
(* times, so the database accepts one in the end.  Clients owe nothing,    *)
(* and need not call finish().                                             *)
(***************************************************************************)
FairSpec ==
  /\ Spec
  /\ WF_vars(ReceiveAny)
  /\ WF_vars(Spawn)
  /\ WF_vars(SchedulerExit)
  /\ WF_vars(TaskStep)

(***************************************************************************)
(* The two counters the scheduler decides by say what they should:         *)
(* pending_count is the number of rows that wait in tasks not yet spawned, *)
(* and spawning_tasks the number of tasks that have been spawned and whose *)
(* end the scheduler has not seen, those that wait for a retry included.   *)
(***************************************************************************)
BackIn(i) == chan[i].kind \in {"Done", "Fail"}

CountersMatch ==
  /\ pending_count = Cardinality(UNION {ToSet(next_task[i].data) : i \in DOMAIN next_task})
  /\ spawning_tasks = Cardinality(running) + Len(error_task)
                        + Cardinality({i \in DOMAIN chan : BackIn(i)})

(***************************************************************************)
(* Type correctness, and that the counters match.                          *)
(***************************************************************************)
IsTask(x) ==
  /\ ToSet(x.data) \subseteq Rows
  /\ DOMAIN x.flag \subseteq Tags
  /\ \A t \in DOMAIN x.flag : x.flag[t] \in Nat

IsMessage(m) ==
  \/ m.kind = "Data" /\ m.row \in Rows
  \/ m.kind \in {"Done", "Fail"} /\ IsTask(m.task)
  \/ m = Exit

TypeOK ==
  /\ Len(chan) <= CHANNEL_LIMIT /\ \A i \in DOMAIN chan : IsMessage(chan[i])
  /\ \A i \in DOMAIN next_task : IsTask(next_task[i]) /\ Len(next_task[i].data) <= INSERT_LIMIT
  /\ \A i \in DOMAIN error_task : IsTask(error_task[i])
  /\ \A t \in running : /\ IsTask(t.task) /\ ToSet(t.left) \subseteq ToSet(t.task.data)
                         /\ t.outcome \in {"running", "Done", "Fail"}
  /\ \A t \in Tags : \A i \in DOMAIN tracing[t] :
       tracing[t][i].n \in Nat /\ tracing[t][i].mark \in Nat \cup {NoMark}
  /\ pending_count \in Nat /\ spawning_tasks \in 0..spawn_limit
  /\ table \in [Rows -> Nat]
  /\ offered \in 0..Len(Input) /\ dropped \subseteq 1..offered
  /\ reported \in [Tags -> Nat \cup {-1}]
  /\ doubtful \subseteq Rows /\ fails \in 0..MaxFails
  /\ {grace_down, exited, finishing} \subseteq BOOLEAN
  /\ CountersMatch

\* The rows that are in the table.
Stored == {r \in Rows : table[r] > 0}

(***************************************************************************)
(* A retry inserts what is left and nothing twice: a row is in a table     *)
(* without a key twice only if a statement that contained it failed after  *)
(* it had taken effect.                                                    *)
(***************************************************************************)
TwiceOnlyIfDoubtful == \A r \in Rows : table[r] > 1 => r \in doubtful

(***************************************************************************)
(* The report is complete: when the writer has nothing left to do, the     *)
(* position reported for a tag is the last one it was given.  (That no     *)
(* report goes too far is ImplementsRowStore.)                             *)
(***************************************************************************)
AcceptedOf(t) == {r \in Accepted : Carries(r) /\ Input[r].tag = t}

AtRest == chan = <<>> /\ next_task = <<>> /\ error_task = <<>> /\ running = {} /\ ~finishing

ReportComplete ==
  AtRest => \A t \in Tags, r \in Rows : r \in AcceptedOf(t) => Input[r].pos <= reported[t]

(***************************************************************************)
(* The writer implements RowStore: it has taken what append_with_notify    *)
(* accepted and stored what has been inserted.                             *)
(***************************************************************************)
S == INSTANCE RowStore WITH taken <- Accepted, stored <- Stored

ImplementsRowStore == S!StoreSpec

(***************************************************************************)
(* No progress is reported beyond a row that was refused.                  *)
(***************************************************************************)
NoReportPastDrop ==
  \A r \in dropped : Carries(r) => reported[Input[r].tag] < Input[r].pos

(***************************************************************************)
(* Every row that is accepted before finish() is inserted in the end, and  *)
(* finish() returns.                                                       *)
(***************************************************************************)
AcceptedIsStored ==
  /\ \A r \in Rows : (r \in Accepted /\ ~finishing) ~> (r \in Stored)
  /\ finishing ~> exited

=============================================================================
