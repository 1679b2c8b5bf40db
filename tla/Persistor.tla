----------------------------- MODULE Persistor ------------------------------
(***************************************************************************)
(* The persistor process (bin/persistor.rs, message/consumer.rs and        *)
(* message/persist.rs): it reads a topic from Kafka, turns each message    *)
(* into a row for every handler of the topic's chain, and commits an       *)
(* offset when the writers of all the tables have reported it.             *)
(*                                                                         *)
(* Chain is the topic's chain of writers, outermost first: <<"trade",      *)
(* "trade", "kline">> for the trades, whose bid row and ask row go to the  *)
(* same table.  Level i of the chain has the handler that writes to        *)
(* Chain[i] and the NotifyTrackerReceiver that listens to it.  A writer is *)
(* what DatabaseWriter shows: rows wait in its queue, a task takes the     *)
(* first of them, tasks end in any order, and Progress says what is sent   *)
(* over the writer's watch channel.                                        *)
(***************************************************************************)
EXTENDS Progress

CONSTANTS
  Chain,
  Log,           \* the partitions of the topic: does each message give rows?  (One that
                 \* cannot be decoded gives none, nor an order that is not closed.)
  INSERT_LIMIT, spawn_limit,
  MaxQueue,      \* bound: rows that wait for a task, by writer
  MaxRewinds,    \* bound: times a partition is read again from its committed offset
  MaxFails       \* bound: commits Kafka refuses

Levels == DOMAIN Chain
Writers == ToSet(Chain)
Bottom == Len(Chain)
Good == {m \in UNION {{p} \X (0..Len(Log[p]) - 1) : p \in Tags} : Log[m[1]][m[2] + 1]}

ASSUME PersistorAssumption ==
  /\ Chain \in Seq(Writers) \ {<<>>}
  /\ DOMAIN Log = Tags /\ \A p \in Tags : Log[p] \in Seq(BOOLEAN)
  /\ {INSERT_LIMIT, spawn_limit, MaxQueue} \subseteq Nat \ {0}
  /\ {MaxRewinds, MaxFails} \subseteq Nat

VARIABLES
  phase,         \* "run", "finishing" after Ctrl-C, "finished", "down"
  position,      \* the next offset to read, by partition
  committed,     \* the offsets Kafka keeps for the consumer group
  queue,         \* rows a writer has accepted and given to no task yet
  open,          \* its tasks, in the order they were spawned
  tracing,       \* its notify_tracing
  watch,         \* the last value of its watch channel
  fresh,         \* has the receiver of a level not seen that value?
  status,        \* NotifyTracker of a level: [left, val] by partition
  stored,        \* the rows that are in their tables
  exposed,       \* messages of a task that holds one but not all rows of a message,
                 \* and messages that waited to be stored when they were read again
  reread,        \* partitions that were read again before all was written and seen
  overwritten,   \* partitions whose report was replaced before all levels saw it
  refused,       \* partitions a commit was refused for
  rewinds, fails

writerVars == <<queue, open, tracing, stored>>
historyVars == <<exposed, reread>>
trackerVars == <<status, committed, refused, fails>>
watchVars == <<watch, fresh, overwritten>>
vars == <<phase, position, writerVars, historyVars, trackerVars, watchVars, rewinds>>

\* The row that the handler at level i makes of message m.
Row(m, i) == [msg |-> m, level |-> i]
Rows == [msg : Good, level : Levels]

\* The rows of message m for writer w; upTo[i] are those of the levels up to i.
RowsFor(w, m) ==
  LET upTo[i \in 0..Bottom] ==
        IF i = 0 THEN <<>>
        ELSE IF Chain[i] = w THEN Append(upTo[i - 1], Row(m, i)) ELSE upTo[i - 1]
  IN  upTo[Bottom]

\* A process that starts: all of its memory is empty.
Fresh ==
  /\ phase' = "run"
  /\ position' = committed'
  /\ queue' = [w \in Writers |-> <<>>] /\ open' = [w \in Writers |-> <<>>]
  /\ tracing' = [w \in Writers |-> [p \in Tags |-> <<>>]]
  /\ watch' = [w \in Writers |-> NoFlag] /\ fresh' = [i \in Levels |-> FALSE]
  /\ status' = [i \in Levels |-> NoFlag]
  /\ overwritten' = [w \in Writers |-> {}] /\ reread' = {}

Init ==
  /\ phase = "run"
  /\ position = [p \in Tags |-> 0] /\ committed = [p \in Tags |-> 0]
  /\ queue = [w \in Writers |-> <<>>] /\ open = [w \in Writers |-> <<>>]
  /\ tracing = [w \in Writers |-> [p \in Tags |-> <<>>]]
  /\ watch = [w \in Writers |-> NoFlag] /\ fresh = [i \in Levels |-> FALSE]
  /\ status = [i \in Levels |-> NoFlag]
  /\ stored = {} /\ exposed = {} /\ reread = {}
  /\ overwritten = [w \in Writers |-> {}] /\ refused = {}
  /\ rewinds = 0 /\ fails = 0

(***************************************************************************)
(* run_stream takes the next message.  One that cannot be decoded is       *)
(* logged and skipped; the others go through the chain, outermost handler  *)
(* first, and every row carries the message's partition and offset.        *)
(***************************************************************************)
OnMessage(p) ==
  /\ phase = "run"
  /\ position[p] < Len(Log[p])
  /\ \A w \in Writers : Len(queue[w]) < MaxQueue
  /\ position' = [position EXCEPT ![p] = @ + 1]
  /\ LET m == <<p, position[p]>>
     IN  IF m \in Good
         THEN queue' = [w \in Writers |-> queue[w] \o RowsFor(w, m)]
         ELSE UNCHANGED queue
  /\ UNCHANGED <<phase, open, tracing, stored, historyVars, trackerVars, watchVars, rewinds>>

\* The messages of a partition with rows that wait for their task to end.
Waiting(p) ==
  {m \in Good : m[1] = p /\ \E r \in Rows : r.msg = m /\ \E w \in Writers :
     r \in ToSet(queue[w]) \/ \E k \in DOMAIN open[w] : r \in ToSet(open[w][k])}

\* Rows wait, or a report was not looked at.
Unsettled(p) == Waiting(p) # {} \/ \E i \in Levels : fresh[i] /\ p \in DOMAIN watch[Chain[i]]

(***************************************************************************)
(* run_stream ends with an error and the loop of main subscribes again, or *)
(* the group is rebalanced: a partition is read from its committed offset. *)
(* The writers and the trackers stay as they are.                          *)
(***************************************************************************)
Resubscribe(p) ==
  /\ phase = "run"
  /\ position[p] # committed[p]
  /\ rewinds < MaxRewinds /\ rewinds' = rewinds + 1
  /\ position' = [position EXCEPT ![p] = committed[p]]
  /\ exposed' = exposed \cup Waiting(p)
  /\ reread' = IF Unsettled(p) THEN reread \cup {p} ELSE reread
  /\ UNCHANGED <<phase, writerVars, trackerVars, watchVars>>

(***************************************************************************)
(* The writers.                                                            *)
(***************************************************************************)
\* The flag of a task: the highest offset of its rows, by partition.
FlagOf(rows) ==
  [p \in {r.msg[1] : r \in ToSet(rows)} |->
     Max({r.msg[2] : r \in {q \in ToSet(rows) : q.msg[1] = p}})]

\* A message whose first row for the table is in the task and another is not.
Torn(w, rows) ==
  {m \in Good : \E i, j \in Levels :
     /\ i < j /\ Chain[i] = w /\ Chain[j] = w
     /\ Row(m, i) \in ToSet(rows) /\ Row(m, j) \notin ToSet(rows)}

\* The next task may have the same position as one that is exposed, and may end
\* first: all messages of the torn task are exposed.
Exposed(w, rows) == IF Torn(w, rows) = {} THEN {} ELSE {r.msg : r \in ToSet(rows)}

Rest(rows, n) == SubSeq(rows, n + 1, Len(rows))

\* Mutant: the tasks are not counted.
MaySpawn_Always(w) == queue[w] # <<>>

MaySpawn(w) == queue[w] # <<>> /\ Len(open[w]) < spawn_limit

SpawnTask(w, n) ==
  /\ MaySpawn(w)
  /\ n <= Len(queue[w])
  /\ LET rows == SubSeq(queue[w], 1, n)
     IN  /\ open' = [open EXCEPT ![w] = Append(@, rows)]
         /\ tracing' = [tracing EXCEPT ![w] = update_from(@, FlagOf(rows))]
         /\ exposed' = exposed \cup Exposed(w, rows)
  /\ queue' = [queue EXCEPT ![w] = Rest(@, n)]
  /\ UNCHANGED <<phase, position, stored, reread, trackerVars, watchVars, rewinds>>

\* The k-th task has inserted its rows, and its Done reaches the scheduler.
TaskDone(w, k) ==
  /\ k <= Len(open[w])
  /\ LET rows == open[w][k]
         done == finish_from(tracing[w], FlagOf(rows))
         unseen == \E i \in Levels : Chain[i] = w /\ fresh[i]
     IN  /\ stored' = stored \cup ToSet(rows)
         /\ tracing' = [tracing EXCEPT ![w] = done.tracing]
         /\ watch' = [watch EXCEPT ![w] = done.flag]
         /\ overwritten' = [overwritten EXCEPT ![w] =
              (@ \cup IF unseen THEN DOMAIN watch[w] ELSE {}) \ DOMAIN done.flag]
  /\ open' = [open EXCEPT ![w] = RemoveAt(@, k)]
  /\ fresh' = [i \in Levels |-> fresh[i] \/ Chain[i] = w]
  /\ UNCHANGED <<phase, position, queue, historyVars, trackerVars, rewinds>>

(***************************************************************************)
(* NotifyTracker.  An item is the highest offset one of its two sides has  *)
(* reported, and says which side.  A report of the other side is resolved: *)
(* the lower offset has been reached by both.                              *)
(***************************************************************************)
Item(left, v) == [left |-> left, val |-> v]

\* Mutant: the higher offset is taken for what both sides have reached.
resolve_Higher(it, v) == IF it.val < v THEN v ELSE it.val

resolve(it, v) == IF it.val < v THEN it.val ELSE v

\* Mutant: a second report of the same side is ignored.
item_merge_First(it, left, v) == IF it.left # left /\ it.val < v THEN Item(left, v) ELSE it

item_merge(it, left, v) ==
  IF it.val < v THEN Item(left, v) ELSE it

\* The offsets that a flag from one side makes known to both.
Resolved(st, left, f) ==
  [p \in {q \in DOMAIN f \cap DOMAIN st : st[q].left # left} |-> resolve(st[p], f[p])]

merge(st, left, f) ==
  [p \in DOMAIN st \cup DOMAIN f |->
     IF p \notin DOMAIN f THEN st[p]
     ELSE IF p \notin DOMAIN st THEN Item(left, f[p])
     ELSE item_merge(st[p], left, f[p])]

(***************************************************************************)
(* changed() at level i sees the watch channel of its writer.  The bottom  *)
(* level passes the value on; another one merges it from the left, and     *)
(* what is resolved is merged from the right one level up.                 *)
(***************************************************************************)
Out(i) ==
  LET out[j \in 1..i] ==
        IF j = i THEN IF i = Bottom THEN watch[Chain[i]]
                      ELSE Resolved(status[i], TRUE, watch[Chain[i]])
        ELSE Resolved(status[j], FALSE, out[j + 1])
  IN  out

Merged(i, j) ==
  IF j = i THEN merge(status[j], TRUE, watch[Chain[i]])
  ELSE IF j < i THEN merge(status[j], FALSE, Out(i)[j + 1])
  ELSE status[j]

\* auto_commit_start commits the offset after the one that was resolved; an
\* error is logged and forgotten.
Commit(f, ok) ==
  /\ ok \/ (fails < MaxFails /\ f # NoFlag)
  /\ committed' = IF ok THEN [p \in Tags |-> IF p \in DOMAIN f THEN f[p] + 1 ELSE committed[p]]
                  ELSE committed
  /\ refused' = IF ok THEN refused ELSE refused \cup DOMAIN f
  /\ fails' = IF ok THEN fails ELSE fails + 1

Changed(i, ok) ==
  /\ phase # "down"
  /\ fresh[i]
  /\ fresh' = [fresh EXCEPT ![i] = FALSE]
  /\ status' = [j \in Levels |-> Merged(i, j)]
  /\ Commit(Out(i)[1], ok)
  /\ UNCHANGED <<phase, position, writerVars, historyVars, watch, overwritten, rewinds>>

(***************************************************************************)
(* Ctrl-C: main waits for the writers to finish, their watch channels      *)
(* close, and the trackers end from the bottom of the chain; upper levels  *)
(* may leave a last value unseen.  What the outermost level has seen is    *)
(* committed.                                                              *)
(***************************************************************************)
CtrlC ==
  /\ phase = "run"
  /\ phase' = "finishing"
  /\ UNCHANGED <<position, writerVars, historyVars, trackerVars, watchVars, rewinds>>

Finish ==
  /\ phase = "finishing"
  /\ \A w \in Writers : queue[w] = <<>> /\ open[w] = <<>>
  /\ phase' = "finished"
  /\ UNCHANGED <<position, writerVars, historyVars, trackerVars, watchVars, rewinds>>

final_status == [p \in DOMAIN status[1] |-> status[1][p].val]

FinalCommit(ok) ==
  /\ phase = "finished"
  /\ ~fresh[Bottom]
  /\ phase' = "down"
  /\ Commit(final_status, ok)
  /\ UNCHANGED <<position, writerVars, historyVars, status, watchVars, rewinds>>

\* The process is killed, or is started again after its end.
Restart ==
  /\ rewinds < MaxRewinds /\ rewinds' = rewinds + 1
  /\ UNCHANGED <<committed, stored, exposed, refused, fails>>
  /\ Fresh

Next ==
  \/ \E p \in Tags : OnMessage(p)
  \/ \E p \in Tags : Resubscribe(p)
  \/ \E w \in Writers, n \in 1..INSERT_LIMIT : SpawnTask(w, n)
  \/ \E w \in Writers, k \in 1..spawn_limit : TaskDone(w, k)
  \/ \E i \in Levels, ok \in BOOLEAN : Changed(i, ok)
  \/ CtrlC
  \/ Finish
  \/ \E ok \in BOOLEAN : FinalCommit(ok)
  \/ Restart

Spec == Init /\ [][Next]_vars

(***************************************************************************)
(* Type correctness.                                                       *)
(***************************************************************************)
IsFlag(f) == DOMAIN f \subseteq Tags /\ \A p \in DOMAIN f : f[p] \in 0..Len(Log[p]) - 1

TypeOK ==
  /\ phase \in {"run", "finishing", "finished", "down"}
  /\ \A p \in Tags : position[p] \in 0..Len(Log[p]) /\ committed[p] \in 0..Len(Log[p])
  /\ \A w \in Writers :
       /\ ToSet(queue[w]) \subseteq Rows
       /\ Len(open[w]) <= spawn_limit
       /\ \A p \in Tags : Len(tracing[w][p]) <= Len(open[w])
       /\ IsFlag(watch[w]) /\ overwritten[w] \subseteq Tags
  /\ \A i \in Levels :
       fresh[i] \in BOOLEAN /\ IsFlag([p \in DOMAIN status[i] |-> status[i][p].val])
  /\ stored \subseteq Rows
  /\ exposed \subseteq Good /\ {reread, refused} \subseteq SUBSET Tags

(***************************************************************************)
(* An offset is committed only when the rows of every message below it are *)
(* in their tables, whichever writer was first and however the process     *)
(* ended; the last commit of a shutdown, which takes the highest offset    *)
(* any side has seen, included.  Two kinds of message are excepted.        *)
(*  - A task may end between the two rows of a message for the same table: *)
(*    the next task then carries the same position, and the position is    *)
(*    reported when the first of the two is done.                          *)
(*  - A message may be read again while it waits to be stored.  Its writer *)
(*    then holds later offsets before earlier ones, and a task with later  *)
(*    ones may leave the stack while an earlier task is still at work.     *)
(***************************************************************************)
CommittedIsStored ==
  \A m \in Good \ exposed : m[2] < committed[m[1]] => \A i \in Levels : Row(m, i) \in stored

(***************************************************************************)
(* The commits catch up with the stream: when everything has been read and *)
(* written and every report was looked at, a partition is committed up to  *)
(* its last message that has rows.  It is not when a commit was refused,   *)
(* when the partition's report was replaced in a watch channel by one of   *)
(* another partition, or when it was read again before all was written and *)
(* seen.  A report that only a later one of the same partition has         *)
(* replaced is not missed.                                                 *)
(***************************************************************************)
AtRest ==
  /\ phase = "run"
  /\ \A p \in Tags : position[p] = Len(Log[p])
  /\ \A w \in Writers : queue[w] = <<>> /\ open[w] = <<>>
  /\ \A i \in Levels : ~fresh[i]

CommitsCatchUp ==
  AtRest =>
    \A m \in Good :
      \/ m[2] < committed[m[1]]
      \/ m[1] \in refused \cup reread
      \/ \E w \in Writers : m[1] \in overwritten[w]

=============================================================================
