------------------------------- MODULE Server -------------------------------
(***************************************************************************)
(* The gRPC server of the engine (matchengine/server.rs and                *)
(* bin/matchengine.rs).  Handlers run concurrently and share the controller *)
(* behind a fair read-write lock.  A query reads it under the read lock.   *)
(* An operation that writes is put into a bounded channel; a single task,  *)
(* the dispatcher, takes one after the other, runs it under the write lock *)
(* and sends the result back over a oneshot channel.  The dispatcher also  *)
(* makes the slices, at a tick of its timer, and closes the channel when   *)
(* the server leaves.  reload_markets takes the write lock itself and      *)
(* holds it while it reads the new rows of the database.                   *)
(***************************************************************************)
EXTENDS Integers, FiniteSets, SequencesExt

CONSTANTS
  Requests,
  Request,      \* what each one asks for
  Dispatcher,   \* the dispatcher, as a user of the lock
  ChannelSize,  \* of the task channel (16)
  DBRows,       \* rows of the tables asset and market, in the order of their insertion
  Loaded,       \* how many of them the process has loaded at its start
  MaxTicks,     \* bound: slices
  MaxGone       \* bound: clients that go away before their answer

Kinds == {"public_query", "query", "deposit", "withdraw", "order", "batch", "cancel", "reload"}
Roles == {"user", "admin", "deposit_admin", "withdrawal_admin"}

RequestType ==
  [kind : Kinds, roles : SUBSET Roles,
   valid : BOOLEAN,     \* do its parameters pass the handler's checks?
   market : STRING,     \* of an order
   scratch : BOOLEAN,   \* of a reload: from_scratch
   panics : BOOLEAN]    \* may its operation fail an unwrap()?

RowType ==
  [table : {"asset", "market"}, name : STRING,
   needs : SUBSET STRING,   \* the assets of a market
   precise : BOOLEAN,       \* has it no more digits than its assets have?
   create_time : Nat \ {0}]

(***************************************************************************)
(* Nothing checks the precisions of a row before it is inserted.  At the   *)
(* start of the process a market that Market::new refuses ends it (an      *)
(* unwrap), so the rows loaded then are precise.                           *)
(***************************************************************************)
ASSUME ServerAssumption ==
  /\ Request \in [Requests -> RequestType]
  /\ Dispatcher \notin Requests
  /\ ChannelSize \in Nat \ {0} /\ {MaxTicks, MaxGone} \subseteq Nat
  /\ DBRows \in Seq(RowType) /\ Loaded \in 0..Len(DBRows)
  /\ \A i \in 1..Loaded : DBRows[i].precise
  /\ \A i \in DOMAIN DBRows :
       /\ \A j \in 1..i : DBRows[j].create_time <= DBRows[i].create_time
       /\ \A a \in DBRows[i].needs :
            \E j \in 1..i - 1 : DBRows[j].table = "asset" /\ DBRows[j].name = a

VARIABLES
  at,           \* where the handler of each request is, or how it ended
  waiting,      \* the lock's queue of handlers and the dispatcher
  held,         \* a handler that holds the lock while it awaits something else
  queue,        \* the tasks in the channel
  closed,       \* has the receiver of the channel been closed or dropped?
  pc, cur,      \* the dispatcher and the task it has taken
  main,         \* the main function, from serving to its end
  assets, markets,
  market_load_time,
  inserted,     \* rows in the database
  executed,     \* the operations, in the order they have run
  damaged,      \* has an operation panicked halfway?
  slices,
  before,       \* operations answered before a request was made
  view,         \* the operations a query has seen
  owed          \* rows that were in the database when a reload was made

lockVars == <<waiting, held>>
dispatchVars == <<queue, closed, pc, cur>>
cfgVars == <<assets, markets, market_load_time>>
stateVars == <<executed, damaged>>
ghostVars == <<before, view, owed>>
vars == <<at, lockVars, dispatchVars, main, cfgVars, inserted, stateVars, slices, ghostVars>>

Kind(r) == Request[r].kind
Queries == {r \in Requests : Kind(r) \in {"public_query", "query"}}
Reloads == {r \in Requests : Kind(r) = "reload"}
Orders == {r \in Requests : Kind(r) = "order"}
Writes == Requests \ (Queries \cup Reloads)

\* The handler of a request is still to answer.
InFlight(r) == at[r] \in {"lock", "assets", "markets", "send", "wait"}
Up == main \notin {"ended", "panicked"}

(***************************************************************************)
(* Loading the configuration.  Both queries take the rows that are younger *)
(* than the last market loaded.  A row is its number in DBRows, and a      *)
(* query returns its rows in that order.                                   *)
(***************************************************************************)
RowsAfter(table, t) ==
  {i \in 1..inserted : DBRows[i].table = table /\ DBRows[i].create_time > t}

Latest(rows, t) == IF rows = {} THEN t ELSE DBRows[Max(rows)].create_time

Names(rows) == {DBRows[i].name : i \in rows}

Init ==
  /\ at = [r \in Requests |-> "idle"]
  /\ waiting = <<>> /\ held = {}
  /\ queue = <<>> /\ closed = FALSE /\ pc = "select" /\ cur = Dispatcher
  /\ main = "serving"
  /\ inserted = Loaded
  /\ assets = Names(RowsAfter("asset", 0)) /\ markets = Names(RowsAfter("market", 0))
  /\ market_load_time = Latest(RowsAfter("market", 0), 0)
  /\ executed = <<>> /\ damaged = FALSE /\ slices = 0
  /\ before = [r \in Requests |-> {}] /\ view = [r \in Requests |-> {}]
  /\ owed = [r \in Requests |-> 0]

InsertRow ==
  /\ Up
  /\ inserted < Len(DBRows)
  /\ inserted' = inserted + 1
  /\ UNCHANGED <<at, lockVars, dispatchVars, main, cfgVars, stateVars, slices, ghostVars>>

(***************************************************************************)
(* The lock, tokio's RwLock: first come, first served, and readers share.  *)
(* A section that awaits nothing enters and leaves the lock in one step;   *)
(* only a reload holds it between two steps, for writing.                  *)
(***************************************************************************)
Enters(x) == waiting # <<>> /\ Head(waiting) = x /\ held = {}

(***************************************************************************)
(* A request arrives.  The role guards come first, then the checks that    *)
(* need no lock.                                                           *)
(***************************************************************************)
Required(kind) ==
  CASE kind = "public_query" -> {}
    [] kind = "reload" -> {"user", "admin"}
    [] kind = "deposit" -> {"user", "deposit_admin"}
    [] kind = "withdraw" -> {"user", "withdrawal_admin"}
    [] OTHER -> {"user"}

Refused(r) ==
  \/ ~(Required(Kind(r)) \subseteq Request[r].roles)
  \/ r \notin Orders /\ ~Request[r].valid

NeedsLock(r) == r \in Queries \cup Reloads \cup Orders

Arrive(r) ==
  /\ main = "serving" /\ at[r] = "idle"
  /\ at' = [at EXCEPT ![r] = IF Refused(r) THEN "refused"
                             ELSE IF NeedsLock(r) THEN "lock" ELSE "send"]
  /\ waiting' = IF ~Refused(r) /\ NeedsLock(r) THEN Append(waiting, r) ELSE waiting
  /\ before' = [before EXCEPT ![r] =
                  IF r \in Reloads THEN {} ELSE {w \in Writes : at[w] = "answered"}]
  /\ owed' = [owed EXCEPT ![r] = IF r \in Reloads THEN inserted ELSE 0]
  /\ UNCHANGED <<held, dispatchVars, main, cfgVars, inserted, stateVars, slices, view>>

Query(r) ==
  /\ Up /\ r \in Queries /\ at[r] = "lock"
  /\ Enters(r)
  /\ at' = [at EXCEPT ![r] = "answered"]
  /\ view' = [view EXCEPT ![r] = ToSet(executed)]
  /\ waiting' = Tail(waiting)
  /\ UNCHANGED <<held, dispatchVars, main, cfgVars, inserted, stateVars, slices, before, owed>>

Passes(r) == Request[r].market \in markets /\ Request[r].valid

\* order_put looks at the market under the read lock and gives the lock back.
CheckOrder(r) ==
  /\ Up /\ r \in Orders /\ at[r] = "lock"
  /\ Enters(r)
  /\ at' = [at EXCEPT ![r] = IF Passes(r) THEN "send" ELSE "refused"]
  /\ waiting' = Tail(waiting)
  /\ UNCHANGED <<held, dispatchVars, main, cfgVars, inserted, stateVars, slices, ghostVars>>

\* Mutant: the answer does not wait for the operation.
Accepted_Early == "answered"

Accepted == "wait"

\* Mutant: one task too many.
HasRoom_OffByOne == Len(queue) <= ChannelSize

HasRoom == Len(queue) < ChannelSize

\* task_dispatcher.send().await: waits for room; a closed channel refuses.
Send(r) ==
  /\ Up /\ at[r] = "send"
  /\ closed \/ HasRoom
  /\ at' = [at EXCEPT ![r] = IF closed THEN "refused" ELSE Accepted]
  /\ queue' = IF closed THEN queue ELSE Append(queue, r)
  /\ UNCHANGED <<lockVars, closed, pc, cur, main, cfgVars, inserted, stateVars, slices,
                 ghostVars>>

\* The task is gone, and the sender of its result with it.
Unreach(r) ==
  /\ Up /\ at[r] = "wait"
  /\ r \notin ToSet(queue) /\ cur # r
  /\ at' = [at EXCEPT ![r] = "unreach"]
  /\ UNCHANGED <<lockVars, dispatchVars, main, cfgVars, inserted, stateVars, slices, ghostVars>>

MayLeave == Cardinality({r \in Requests : at[r] = "gone"}) < MaxGone

(***************************************************************************)
(* reload_markets.  The load time moves with every row that is read, so a  *)
(* query that fails halfway, or whose client goes away, has moved it past  *)
(* rows that were thrown away.                                             *)
(***************************************************************************)
Release(r, how) == held' = {} /\ at' = [at EXCEPT ![r] = how]

\* Mutant: the load time is kept.
ResetLoadTime_Kept(r) == market_load_time

ResetLoadTime(r) == IF Request[r].scratch THEN 0 ELSE market_load_time

\* Mutant: a reload from scratch starts from nothing.
KeptMarkets_Cleared(r) == IF Request[r].scratch THEN {} ELSE markets

KeptMarkets(r) == markets

ReloadMarkets(r) ==
  /\ Up /\ r \in Reloads /\ at[r] = "lock"
  /\ Enters(r)
  /\ waiting' = Tail(waiting) /\ held' = {r}
  /\ at' = [at EXCEPT ![r] = "assets"]
  /\ market_load_time' = ResetLoadTime(r) /\ markets' = KeptMarkets(r)
  /\ UNCHANGED <<dispatchVars, main, assets, inserted, stateVars, slices, ghostVars>>

LoadAssets(r) ==
  /\ Up /\ at[r] = "assets"
  /\ assets' = assets \cup Names(RowsAfter("asset", market_load_time))
  /\ at' = [at EXCEPT ![r] = "markets"]
  /\ UNCHANGED <<lockVars, dispatchVars, main, markets, market_load_time, inserted,
                 stateVars, slices,
                 ghostVars>>

(***************************************************************************)
(* Market::new refuses a market whose assets are not known, or that has    *)
(* more digits than they have.  The reload logs that, goes on and succeeds *)
(* without the market.                                                     *)
(***************************************************************************)
WithMarkets(rows) ==
  markets \cup Names({i \in rows : DBRows[i].needs \subseteq assets /\ DBRows[i].precise})

LoadMarkets(r) ==
  /\ Up /\ at[r] = "markets"
  /\ LET rows == RowsAfter("market", market_load_time)
     IN  /\ markets' = WithMarkets(rows)
         /\ market_load_time' = Latest(rows, market_load_time)
  /\ Release(r, "answered")
  /\ UNCHANGED <<waiting, dispatchVars, main, assets, inserted, stateVars, slices, ghostVars>>

\* A query fails, or the client of the reload goes away, after the rows up to k.
LoadStops(r, k, how) ==
  /\ Up /\ at[r] \in {"assets", "markets"}
  /\ LET rows == IF at[r] = "assets" THEN {} ELSE RowsAfter("market", market_load_time)
     IN  market_load_time' = Latest({i \in rows : i <= k}, market_load_time)
  /\ how = "gone" => MayLeave
  /\ Release(r, how)
  /\ UNCHANGED <<waiting, dispatchVars, main, assets, markets, inserted, stateVars, slices,
                 ghostVars>>

\* The connection ends and the future of the handler is dropped: it leaves the
\* lock's queue.  A task that is in the channel stays there.
ClientGone(r) ==
  /\ Up /\ InFlight(r) /\ r \notin held
  /\ MayLeave
  /\ at' = [at EXCEPT ![r] = "gone"]
  /\ IF at[r] = "lock" THEN \E i \in DOMAIN waiting : /\ waiting[i] = r
                                                     /\ waiting' = RemoveAt(waiting, i)
                        ELSE UNCHANGED waiting
  /\ UNCHANGED <<held, dispatchVars, main, cfgVars, inserted, stateVars, slices, ghostVars>>

(***************************************************************************)
(* The dispatcher.                                                         *)
(***************************************************************************)
\* Mutant: the task stays in the channel.
Rest_Peeked(q) == q

Rest(q) == Tail(q)

TakeTask ==
  /\ Up /\ pc \in {"select", "drain"} /\ queue # <<>>
  /\ cur' = Head(queue) /\ queue' = Rest(queue)
  /\ pc' = "task"
  /\ waiting' = Append(waiting, Dispatcher)
  /\ UNCHANGED <<at, held, closed, main, cfgVars, inserted, stateVars, slices, ghostVars>>

\* The operation runs under the write lock and its result is sent; nobody may
\* be waiting for it any more.
RunTask ==
  /\ Up /\ pc = "task"
  /\ Enters(Dispatcher)
  /\ waiting' = Tail(waiting)
  /\ executed' = Append(executed, cur)
  /\ at' = [at EXCEPT ![cur] = IF @ = "wait" THEN "answered" ELSE @]
  /\ pc' = IF closed THEN "drain" ELSE "select"
  /\ cur' = Dispatcher
  /\ UNCHANGED <<held, queue, closed, main, cfgVars, inserted, damaged, slices, ghostVars>>

\* Mutant: the dispatcher survives.
TaskPanics_Survives ==
  /\ Up /\ pc = "task" /\ Request[cur].panics
  /\ Enters(Dispatcher)
  /\ waiting' = Tail(waiting)
  /\ damaged' = TRUE
  /\ pc' = IF closed THEN "drain" ELSE "select"
  /\ cur' = Dispatcher
  /\ UNCHANGED <<at, held, queue, closed, main, cfgVars, inserted, executed, slices, ghostVars>>

\* Mutant: the receiver outlives the dispatcher.
TaskPanics_KeepsChannel ==
  /\ Up /\ pc = "task" /\ Request[cur].panics
  /\ Enters(Dispatcher)
  /\ waiting' = Tail(waiting)
  /\ damaged' = TRUE
  /\ pc' = "dead" /\ cur' = Dispatcher
  /\ UNCHANGED <<at, held, queue, closed, main, cfgVars, inserted, executed, slices, ghostVars>>

\* A panic ends the dispatcher and drops the receiver with all its tasks; the
\* lock is not poisoned.
TaskPanics ==
  /\ Up /\ pc = "task" /\ Request[cur].panics
  /\ Enters(Dispatcher)
  /\ waiting' = Tail(waiting)
  /\ damaged' = TRUE
  /\ pc' = "dead" /\ closed' = TRUE /\ queue' = <<>>
  /\ cur' = Dispatcher
  /\ UNCHANGED <<at, held, main, cfgVars, inserted, executed, slices, ghostVars>>

PersistTick ==
  /\ Up /\ pc = "select"
  /\ slices < MaxTicks
  /\ pc' = "persist"
  /\ waiting' = Append(waiting, Dispatcher)
  /\ UNCHANGED <<at, held, queue, closed, cur, main, cfgVars, inserted, stateVars, slices,
                 ghostVars>>

\* fork_and_make_slice, under the read lock.
Fork ==
  /\ Up /\ pc = "persist"
  /\ Enters(Dispatcher)
  /\ waiting' = Tail(waiting)
  /\ slices' = slices + 1
  /\ pc' = "select"
  /\ UNCHANGED <<at, held, queue, closed, cur, main, cfgVars, inserted, stateVars, ghostVars>>

OnClose ==
  /\ Up /\ pc = "select" /\ main = "leaving"
  /\ closed' = TRUE /\ pc' = "drain"
  /\ UNCHANGED <<at, lockVars, queue, cur, main, cfgVars, inserted, stateVars, slices,
                 ghostVars>>

\* recv returns None: the channel is closed and empty.
DrainEnds ==
  /\ Up /\ pc = "drain" /\ closed /\ queue = <<>>
  /\ pc' = "exited"
  /\ UNCHANGED <<at, lockVars, queue, closed, cur, main, cfgVars, inserted, stateVars,
                 slices, ghostVars>>

(***************************************************************************)
(* main: Ctrl-C stops the listener, serve_with_shutdown returns when no    *)
(* request is in flight, leave() asks the dispatcher to close and waits    *)
(* for the channel to be closed.  Its send().unwrap() panics when the      *)
(* dispatcher is dead.                                                     *)
(***************************************************************************)
CtrlC ==
  /\ main = "serving"
  /\ main' = "shutting"
  /\ UNCHANGED <<at, lockVars, dispatchVars, cfgVars, inserted, stateVars, slices, ghostVars>>

\* Mutant: main leaves at once.
Quiet_Always == TRUE

Quiet == \A r \in Requests : ~InFlight(r)

Leave ==
  /\ main = "shutting" /\ Quiet
  /\ main' = IF pc = "dead" THEN "panicked" ELSE "leaving"
  /\ UNCHANGED <<at, lockVars, dispatchVars, cfgVars, inserted, stateVars, slices, ghostVars>>

\* The runtime is dropped: the dispatcher stops wherever it awaits something.
Ended ==
  /\ main = "leaving" /\ closed
  /\ main' = "ended"
  /\ UNCHANGED <<at, lockVars, dispatchVars, cfgVars, inserted, stateVars, slices, ghostVars>>

Handle(r) ==
  \/ Query(r) \/ CheckOrder(r) \/ Send(r) \/ Unreach(r)
  \/ ReloadMarkets(r) \/ LoadAssets(r) \/ LoadMarkets(r)

Dispatch == TakeTask \/ RunTask \/ TaskPanics \/ Fork \/ DrainEnds

Next ==
  \/ InsertRow
  \/ \E r \in Requests : Arrive(r)
  \/ \E r \in Requests : Query(r)
  \/ \E r \in Requests : CheckOrder(r)
  \/ \E r \in Requests : Send(r)
  \/ \E r \in Requests : Unreach(r)
  \/ \E r \in Requests : ReloadMarkets(r)
  \/ \E r \in Requests : LoadAssets(r)
  \/ \E r \in Requests : LoadMarkets(r)
  \/ \E r \in Requests, k \in 0..Len(DBRows), how \in {"refused", "gone"} : LoadStops(r, k, how)
  \/ \E r \in Requests : ClientGone(r)
  \/ TakeTask
  \/ RunTask
  \/ TaskPanics
  \/ PersistTick
  \/ Fork
  \/ OnClose
  \/ DrainEnds
  \/ CtrlC
  \/ Leave
  \/ Ended

Spec == Init /\ [][Next]_vars

(***************************************************************************)
(* The runtime polls a task that can go on, and tokio::select! takes a     *)
(* ready branch at random.  Clients, timers, the database and Ctrl-C owe   *)
(* nothing; a query of the database returns or fails.                      *)
(***************************************************************************)
FairSpec ==
  /\ Spec
  /\ \A r \in Requests : WF_vars(Handle(r))
  /\ WF_vars(Dispatch) /\ WF_vars(OnClose)
  /\ WF_vars(Leave) /\ WF_vars(Ended)

(***************************************************************************)
(* Type correctness.                                                       *)
(***************************************************************************)
TypeOK ==
  /\ at \in [Requests -> {"idle", "lock", "assets", "markets", "send", "wait",
                          "answered", "refused", "unreach", "gone"}]
  /\ IsInjective(waiting) /\ ToSet(waiting) \subseteq Requests \cup {Dispatcher}
  /\ held \subseteq Requests /\ Cardinality(held) <= 1
  /\ Len(queue) <= ChannelSize /\ ToSet(queue) \subseteq Writes
  /\ closed \in BOOLEAN
  /\ pc \in {"select", "task", "persist", "drain", "exited", "dead"}
  /\ cur \in Writes \cup {Dispatcher} /\ (pc = "task" <=> cur # Dispatcher)
  /\ main \in {"serving", "shutting", "leaving", "ended", "panicked"}
  /\ market_load_time \in Nat /\ inserted \in Loaded..Len(DBRows)
  /\ ToSet(executed) \subseteq Writes
  /\ damaged \in BOOLEAN

(***************************************************************************)
(* What a client has been told is what the next one sees: a query, or an   *)
(* operation, that is made after an operation was answered comes after it, *)
(* although queries do not go through the channel.                         *)
(***************************************************************************)
ReadYourWrites ==
  \A r \in Requests : at[r] = "answered" =>
    \A w \in before[r] :
      /\ r \in Queries => w \in view[r]
      /\ r \in Writes => \E i, j \in DOMAIN executed : i < j /\ executed[i] = w /\ executed[j] = r

(***************************************************************************)
(* An operation is run to its end at most once; one that was answered has  *)
(* been, and one that was refused, or whose result was lost, has not and   *)
(* will not be.  Lost is also the result of an operation that panicked: it *)
(* has half run, and executed does not hold it.                            *)
(***************************************************************************)
AnswersAreTrue ==
  /\ IsInjective(executed)
  /\ \A r \in Writes :
       /\ at[r] = "answered" => r \in ToSet(executed)
       /\ at[r] \in {"refused", "unreach"} => r \notin ToSet(executed \o queue)

(***************************************************************************)
(* The market that order_put has looked up before it queued the order is   *)
(* still there when the order is run, whatever was reloaded in between.    *)
(***************************************************************************)
OrderFindsMarket ==
  \A r \in Orders :
    at[r] \in {"send", "wait"} \/ r \in ToSet(queue) \cup {cur} => Request[r].market \in markets

(***************************************************************************)
(* A reload from scratch that succeeds leaves no market behind that was in *)
(* the database when it was made, except for one whose precisions do not   *)
(* fit its assets, although earlier reloads may have moved the load time   *)
(* past rows that they have thrown away.  So nothing else is ever refused: *)
(* the assets of a market are always known by then.                        *)
(***************************************************************************)
ScratchIsComplete ==
  \A r \in Reloads : at[r] = "answered" /\ Request[r].scratch =>
    \A i \in 1..owed[r] :
      DBRows[i].table = "market" /\ DBRows[i].precise => DBRows[i].name \in markets

(***************************************************************************)
(* An operation that panics leaves the engine's memory half changed: no    *)
(* slice is made of it.                                                    *)
(***************************************************************************)
DamageNotSaved == [][slices' # slices => ~damaged]_vars

(***************************************************************************)
(* When main has ended, no client was left without its answer, and only    *)
(* operations of clients that had gone away were not run.                  *)
(***************************************************************************)
GracefulEnd ==
  main = "ended" =>
    /\ \A r \in Requests : ~InFlight(r)
    /\ \A r \in ToSet(queue) \cup ({cur} \ {Dispatcher}) : at[r] = "gone"

(***************************************************************************)
(* Every request comes to an end, and so does a shutdown, though handlers, *)
(* the dispatcher, a reload and main wait for the lock, the channel and    *)
(* each other, and though the dispatcher may die.                          *)
(***************************************************************************)
EveryRequestEnds ==
  /\ \A r \in Requests : InFlight(r) ~> ~InFlight(r)
  /\ (main = "shutting") ~> ~Up

=============================================================================
