# Dingir exchange: models, model checking and proofs

Dingir is a spot exchange. One process, the *match engine*, keeps all balances
and order books in memory and executes requests one at a time; it logs every
request to PostgreSQL, dumps slices of its state there, and sends events to
Kafka, from which a *persistor* process fills the history tables that a REST
server reads. The code is under `src/src/`; paths below are relative to it.

## 1. Inventory

| component | source | state | operations |
|---|---|---|---|
| balances | `matchengine/asset/` | `balances: (user, type, asset) -> amount` with type AVAILABLE, FREEZE (WITHDRAW is declared and unused); a cache of recent update keys | `add`, `sub`, `frozen`, `unfrozen`, `update_user_balance` |
| order book and matching | `matchengine/market/` | `orders`, `users`, `asks`, `bids` per market, four maps over shared cells | `put_order` / `execute_order`, `cancel`, `cancel_all_for_user` |
| controller | `matchengine/controller.rs`, `sequencer.rs` | markets by name, order, trade and log ids | `order_put`, `batch_order_put`, `order_cancel`, `order_cancel_all`, `update_balance`, `market_reload`, `replay`, and `debug_dump`, `debug_reload`, `debug_reset` |
| server and dispatcher | `matchengine/server.rs`, `bin/matchengine.rs` | the request queue, a read-write lock around the controller | queue a write request, run it, answer; read requests under the read lock; shutdown |
| operation log, slices, recovery | `matchengine/persist/` | log rows, slices of orders and balances | append, fork and dump, clear old slices, load and replay |
| database writer | `storage/database.rs`, `storage/sqlxextend.rs` | a bounded channel, task queues, insert tasks in flight, a stack of open positions per tag | append, schedule, insert, retry, report progress, finish |
| message producer | `message/mod.rs`, `message/producer.rs`, `matchengine/persist/persistor.rs` | per message manager: a bounded channel, the lists of a message scheme, delivery counters | push, absorb, send, poll, retry, flush |
| message consumer, persistor | `message/consumer.rs`, `message/persist.rs`, `bin/persistor.rs` | the position in the stream, per table a writer, a tree of offset trackers, the committed offsets | receive, write rows, merge reports, commit, resubscribe, shut down |
| market configuration | `config.rs`, `storage/config.rs` | assets, markets, the load time | load, reload |
| REST server | `restapi/`, `bin/restapi.rs` | none of its own | read-only queries |

**How they interact.** A write request is queued by the gRPC handler and taken
by the single dispatcher task, which holds the write lock while the controller
runs it. The controller calls the market, which changes the balances through
`BalanceUpdateController` and pushes order, trade and balance messages to the
producer's channel with `try_send`; after the operation the controller appends
it to the operation log's `DatabaseWriter`, again with `try_send`. A thread per
message manager carries the messages to Kafka; the persistor process reads them
back, hands rows to the writers of several tables and commits an offset when
all of them have reported it. A timer forks the engine; the child dumps a
slice. At start `init_from_db` loads the newest slice and replays the log after
it.

**What is hard.** Within an operation: four maps and two balance tables that
must move together over a loop of many trades, with balance checks made once
before it, `unwrap()` on every update, and signs checked by `debug_assert` only.
Between processes: log batches inserted by concurrent tasks (gaps after a
crash), dropped log entries when a channel is full, slices published by slow
children, progress reported in the order tasks happen to finish, offsets
committed against several writers. `PROJECT.json` lists these hazards at their
lines, with the properties that cover them or the reason why none does. Around
the engine: handlers that look at a market before they queue an order for it, a
dispatcher that may die, a reload that holds the lock over database queries, a
shutdown in which everyone waits for everyone.

**What makes it correct.**
 - *balances*: never negative; nothing created or lost; what is frozen is what
   open orders tie up.
 - *matching*: an uncrossed book, price-time priority, no trade outside a limit
   price or a quote limit, indexes agree, events tell the truth.
 - *controller*: limits hold over all markets; nobody's request makes the balance
   updates of somebody else's sound order fail.
 - *log and recovery*: the recovered state is a state the engine was in, and
   includes everything it durably logged.
 - *database writer*: a reported position means that every row up to it is in
   the table; nothing accepted is lost by a graceful end; retries duplicate nothing.
 - *producer, persistor*: the unified stream is in the engine's order, nothing is
   dropped on the way, an operation that is let in does not overrun the channel,
   an offset is committed only after its rows, and the commits catch up.
 - *server*: an answer is true and visible to whoever asks next, a refused
   operation never runs (one that panicked has half run, and its client gets an
   error too), every request and every shutdown ends, nobody saves the
   state of an operation that panicked halfway.

## 2. Plan

 1. **Done** - `Balances`, `Orders`, `Market`: the engine's operations.
    `Ledger`, `MarketLedger`: the abstract promise about money and the refinement.
    `BookProofs`: types, indexes, order arithmetic, funds, uncrossed book, limit
    prices, price-time priority.
    `MoneyProofs`: frozen balances, signs, causes of a panic, order limit, events, the
    refinement of `Ledger`.
 2. **Done** - `Progress`, `DatabaseWriter`: channel, scheduler, tasks, retries,
    progress stacks, exit. `RowStore`: what a writer promises.
    `WriterProofs`: counters, single insertion, complete reports, the refinement of
    `RowStore`.
 3. **Done** - `Recovery`: operation log, slices, crash, load, batch orders.
    `RecoveryProofs`: types, fresh log ids, the whole last slice, orders and
    balances that belong together, nothing logged forgotten.
 4. **Done** - `Producer`: the engine's messages on their way to Kafka.
    `ProducerProofs`: order of the unified stream, survival of the engine, every
    message in one place.
    `Persistor`: from Kafka to the tables, over the progress stacks of `Progress`.
    `PersistorProofs`: types, that a committed offset has its rows stored, and that
    the commits catch up.
 5. **Done** - `Server`: handlers, lock, dispatcher, reload, shutdown.
    `ServerProofs`: all its safety properties.
 6. Every invariant and action property of the passing runs is proved; what is left
    is liveness, which stays with TLC.
 7. Left to model: order ids across restarts (a composition of `Recovery` and
    `Producer`), the expiry of the duplicate cache.

## 3. Modules

`Balances` - the table and its changes. `balance[type][user][asset]` is an
integer number of smallest units. `Covered` is `update_user_balance`'s test
for "balance not enough", `Applied` its effect, `CacheKey` the part of the
duplicate-cache key that can differ between two updates of one trade (they share
the business and the trade id).

`Orders` - the order record, the requests, the two sort keys, fees, fills, and
the freeze that happens when an order comes to rest (`Resting`). The numbers of a
request are integers of either sign, as `dto.rs` parses them. Prices, amounts and
balances are in the smallest units `Market::new` admits; fee rates and quote
limits, whose digits the engine rounds away, are in units of `1/Scale`, so a rate
of one is `Scale` and a quote limit of less than `Scale` rounds to zero.
`Truncate` is `RoundingStrategy::ToZero`; `Charged` is the test of the sign of a
fee: a negative fee is recorded in the order and not paid out.

`Faults` names the requests that no check refuses although the arithmetic is not
made for them: "PRICE", a negative price (`put_order` refuses only zero, and
`batch_order_put` asks no `commit_order`); "LIMIT", a market bid with a negative
quote limit, of which the smaller with the balance is taken without a look at its
sign (`market/mod.rs:237`), so that the rest of it buys a negative amount (`:363`) and
the assertion at `:375` fails in a debug build; "FEE", a fee rate above one, which
makes what a side receives negative and its update, as a rule, refused. `Market` collects the faults it has
accepted in the history variable `faults`, which no action reads, and each property
says which of them it depends on.

`Market` - the engine.

| action | code |
|---|---|
| `OrderPut` | `Controller::put_order` up to the matching loop; a refused request changes nothing and is no step |
| `Trade` | one iteration of `execute_order`'s loop that trades: four balance updates, both orders, the maker's event |
| `Panic` | the same iteration when an update is refused and `unwrap()` panics |
| `CancelTaker` | the loop is left with `need_cancel` (post-only, own order) and the taker is finished |
| `EndTaker` | the loop is left otherwise; filled makers are finished; the taker is finished or inserted into the book |
| `OrderCancel` | `order_cancel` |
| `OrderCancelAll`, `CancelNext` | `order_cancel_all`: the ids are collected, then finished one by one |
| `UpdateBalance` | a deposit or withdrawal |

The loops run one iteration per step so that the properties also hold in the
middle of an operation, where a panic would leave the engine. The markets' maps
are merged because order ids are global; a market is a field of the order.

`Ledger` - the abstract specification: totals per user and asset that only
deposits, withdrawals and exchanges between two different users change, an
exchange by what one side gives and the other gets, less the fees. That nothing
is created or lost is therefore part of the refinement. After a faulty request
(`AcceptFault`) the amounts exchanged may be negative; totals still change by
exchanges only, in which neither side receives more than the other pays. `sound` says that none
was accepted yet.
`MarketLedger` maps the engine to it: a total is available plus frozen.

`MCMarket` (one market) and `MCTwoMarkets` (two markets, one asset shared as
base and quote) hold the instances.

**Abstractions of the engine.** Numbers are integers without bound: the 96 bits of
`rust_decimal`, and the panic of an operation that overflows them, are left out. The
configuration of a market is a sound one (`min_amount >= 0`). `market.price`,
`trade_count` and timestamps feed reports only and are left out. A panic leaves
the state as it was before the trade. `debug_assert`s are properties of the
model, not guards. The cache of recent updates is modelled inside one trade id:
trade ids are unique, so only updates of one trade can collide with each other;
deposits that repeat a business id are refused and are no step.
`batch_order_put` is a sequence of cancel-alls and puts under one lock, so the
states it passes through are among those checked; its log entry and its early
return belong to `Recovery`.

`Progress` - how a writer knows how far it has come: `add_to` (the flag of a
task), `push_top` and `pop_top` (the stack of open positions of one tag),
`update_from` and `finish_from` (all tags).

`DatabaseWriter` - the writer every table is filled by.

| action | code (`storage/database.rs`, `storage/sqlxextend.rs`) |
|---|---|
| `AppendWithNotify` | `append_with_notify`: `try_send`; the row is dropped if the channel is full or closed |
| `Finish` | `finish`: `Exit(true)` is sent, waiting for room |
| `ReceiveData`, `ReceiveDone`, `ReceiveFail`, `ReceiveExit` | the branch of `schedule`'s `select!` that receives |
| `SpawnError`, `SpawnNext` | the branch that has acquired a connection: a failed task first, else the oldest waiting one within `spawn_limit` |
| `SchedulerExit` | the third branch: `grace_down` and nothing left to wait for |
| `InsertOk`, `InsertFail` | one statement of `sql_query_fine`; a failed one may have been committed before the connection broke |
| `SendBack` | the end of `execute`: `Done` or `Fail`, waiting for room |

`RowStore` - the abstract specification: rows are taken, stored in any order, and
a reported position means that every row taken up to it is stored. `taken` is
what `append_with_notify` has accepted, `stored` what is in the table.

**Abstractions of the writer.** Rows are offered in a fixed order, ascending in
position for each tag, as a Kafka partition is read; redelivery after a rebalance
is in `Persistor`. A full statement has a size of `Chunks` instead of
8 .. 1024. `table` counts inserts: a table with a key ignores the second
(`ON CONFLICT DO NOTHING`), one without keeps it. A client's `try_send` may take a
slot that a task waits for. A failed `acquire` is no step, and neither is the
pause before a retry. `Exit(false)`, which no code sends, the benchmark and the
status channel are left out.

`Recovery` - how the engine outlives its process. The engine's state is the set
of the operations that made it, once for the orders and once for the balances:
the two are dumped, deleted and loaded one after the other, and the properties
ask whether they still belong together and what they contain.

| action | code (`matchengine/controller.rs`, `matchengine/persist/state_save_load.rs`) |
|---|---|
| `Operation` | an operation and its `append_operation_log`; the row is lost if the writer's channel is full |
| `UnloggedBatch` | `batch_order_put` when a later order names another market: an early return before the log |
| `StoreLog` | the log's writer inserts one of its rows, in any order |
| `Fork` | `fork_and_make_slice` |
| `Connect`, `DumpOrders`, `DumpBalances`, `UpdateSliceHistory` | `make_slice` and `dump_to_db` in the child |
| `ClearSlice`, `DeleteBalances`, `DeleteOrders`, `DeleteHistory` | `clear_slice` and `delete_slice` |
| `ChildExit` | a child ends, or stops anywhere |
| `Crash` | the engine's process ends; a shutdown does not wait for the log's writer either, so it is the same step |
| `Start`, `LoadBalances`, `LoadOrders`, `LoadLog`, `LoadLogPanics` | `init_from_db` |

**Abstractions of recovery.** The rows of one dump are inserted, and loaded, in
one step each; a child that stops half-way has published nothing, and
half of a dump only ever meets another dump of the same second. What decimals lose
in the columns of a slice is left out, as are `debug_dump`, `debug_reload` and
`debug_reset`. A statement of the old process that commits after the new one has
read the log is left out too. `replay` is not modelled because no row reaches it
(see the findings). `process`, `pid` and the `engine` kept in a row of
`slice_history` are ghosts.

Three things the code does not exclude break what is said about an engine that
has started, and `sound` says that none has happened: a slice is loaded after
one that is `SLICE_KEEP_TIME` younger was published before it (its rows may be
deleted meanwhile); two children took the same second for their slice; a child
published after the process that forked it was replaced. Each one is listed as
a hazard or in the comment above `TheSlice`.

`Producer` - from the engine to Kafka. Messages are numbered in the order the
engine makes them; an operation is the sequence of their topics.

| action | code (`message/mod.rs`, `message/producer.rs`) |
|---|---|
| `Operation` | an operation is let in: `check_service_available` asks every manager's `is_block`, once |
| `Push` | `push_message_and_topic` to the next manager: `try_send().unwrap()` |
| `Close` | the controller is dropped at the end of `main`, and the senders with it |
| `Absorb` | `run_loop` receives a message, unless a list is full, and `on_message` |
| `SendNothing`, `SendOne`, `SendError` | `pop_up`, `send`, `commit` (with and without the message) |
| `Poll` | the client's callbacks run: `deliver_commit` for every report |
| `FlushOne`, `FlushError`, `FlushEnd` | the end of `run_loop`: what is left in the lists, then the client's `flush` |
| `ProcessExit` | `main` does not join the threads |
| `Deliver`, `DeliverError`, `DeliverTwice` | external: the Kafka client and the broker |

The simple scheme keeps a list per topic, takes from the longest and puts a
message that could not be sent behind the others; the full-order scheme keeps one
list and leaves the message at its front. The broker is as good as a scheme's
settings: `enable.idempotence` with one request in flight for the full scheme
gives order and no repetition, the simple scheme may be reordered and repeated.
`repeated` counts the copies that retries have written, by message.

`Persistor` - from Kafka to the tables. `Chain` is the topic's chain of handlers:
the trades topic writes an ask row and a bid row to one table and a row to
another, and the trackers that wait for the writers form a chain of the same
shape.

| action | code (`message/persist.rs`, `message/consumer.rs`, `bin/persistor.rs`) |
|---|---|
| `OnMessage` | `run_stream` and the handlers: a row per handler, all with the message's offset |
| `Resubscribe` | the stream ends with an error and `main` subscribes again; a rebalance |
| `SpawnTask`, `TaskDone` | a writer, reduced to what `DatabaseWriter` shows: a task takes the first rows, ends in any order, and the value of the watch channel is replaced |
| `Changed` | a tracker sees its watch channel; `merge` and `resolve` up the chain; the outermost level commits |
| `CtrlC`, `Finish`, `FinalCommit` | shutdown: writers finish, trackers end from the bottom, the last status is committed |
| `Restart` | the process is killed or started again |

`exposed` names the messages `CommittedIsStored` makes an exception for, of two kinds.

 - Those of a task that was cut between the two rows of one message for the same
   table (`Torn`). The next task then has the same position as an earlier open one,
   and `finish_from` reports it when the first of the two is done. Without the
   exception TLC finds a commit of an offset one of whose rows is still in an open
   task; a crash at that point loses the row.
 - Those that waited in a writer when their partition was read again (`Waiting`).
   The writer then holds later offsets before earlier ones, and a position no
   longer stands for all below it. With one table, offsets 0, 1 and 2, tasks of at
   most two rows and three tasks at a time: a first task holds 0 and 1, the partition
   is read again, a second task holds 2 and the second copy of 0, a third the
   second copy of 1. The third ends first and 1 is reported, because the first
   task's entry for 1 is taken for its own and has nothing below it; if the
   process stops now, 0 is in no table and below the committed offset. The run's
   instance is too small for this (it needs three tasks with a queue of three), and
   TLC found it on a larger one while the invariant of the proof was being looked for.

`reread` names partitions that were read again before everything was written and every
report seen (`Unsettled`). A late report can then be merged with a newer one, or a commit
can move the offset back; `CommitsCatchUp` excepts them.
`overwritten` names partitions whose report was replaced in a watch channel,
before all trackers saw it, by one that does not mention them.

`Server` - the process around the engine (`matchengine/server.rs`,
`bin/matchengine.rs`, and the reload of `matchengine/controller.rs` and
`storage/config.rs`). What an operation does is `Market`; here it is its place
in the order of execution.

| action | code |
|---|---|
| `Arrive` | a handler starts: role guards and the checks that need no lock |
| `Query` | a handler that reads under the read lock |
| `CheckOrder` | `order_put` looks up its market under the read lock and gives it back |
| `Send`, `Unreach` | a task is put into the channel, waiting for room; the result never comes because the task is gone |
| `ReloadMarkets`, `LoadAssets`, `LoadMarkets`, `LoadStops` | `reload_markets` holds the write lock over two queries; either may fail, or the client may go, after some rows |
| `ClientGone` | the handler's future is dropped; its task stays in the channel |
| `TakeTask`, `RunTask`, `TaskPanics` | the dispatcher |
| `PersistTick`, `Fork` | its timer; `fork_and_make_slice` under the read lock |
| `OnClose`, `DrainEnds` | the channel is closed, what is in it is run |
| `CtrlC`, `Leave`, `Ended` | `main`: `serve_with_shutdown`, `leave`, the end |
| `InsertRow` | external to the engine: a row of `asset` or `market` is inserted (by `restapi/manage.rs` or by hand) |

The rows of the tables `asset` and `market` are numbered in the order of their
insertion; a query returns the set of the numbers younger than the load time.
The lock is tokio's: first come, first served. A section that awaits nothing is
one step; two readers that hold the lock at once are two steps in either order.
A market row that is not `precise` has more digits than its assets have:
`Market::new` refuses it, `market_reload` logs that and goes on, and the reload is
answered OK all the same. At the start of the process the same refusal is
`unwrap()`ped, so the rows loaded then are precise.

## 4. Runs

| run | instance | shows |
|---|---|---|
| `market_book` | 2 users, 1 market, 5 orders, amounts and prices 1..2, post-only, market orders with and without quote limit, three faulty requests, at most 2 open orders per user | types, indexes, arithmetic, uncrossed book, limits, events, price-time priority |
| `two_markets` | 2 users, 2 markets over 3 assets, deposits and withdrawals, 3 orders, three of the requests faulty | frozen = tied up over both markets, the limit over both markets; negative balances, overdrawn takers, panics and exchanges of negative amounts come after a faulty request only; refinement of `Ledger` |
| `self_trade_panic` | self trades allowed | **violated**: a self trade ends the engine |
| `market_debt` | 2 orders, faulty requests | **violated**: a balance is negative after a bid with a negative price |
| `writer` | 4 rows of 2 tags, tasks of 2 rows, a channel of 2, 2 tasks, statements of 1 row, 2 failures, `finish` at any time | counters and types, nothing needlessly written twice, reports complete, refinement of `RowStore` (no report too far), accepted rows are stored and `finish` returns |
| `writer_drop` | 5 rows, one of them without a notification, 3 tasks | **violated**: progress is reported past a dropped row |
| `recovery` | 2 operations, 2 children, 3 processes, 2 instants, `SLICE_KEEP_TIME` 1 | the last slice is whole, orders and balances belong together, logged operations are remembered, log ids are fresh |
| `recovery_start` | 1 operation | **violated**: an engine that has logged an operation starts again |
| `producer` | both managers, 2 operations of 2 messages, a channel of 2 with 1 kept free, lists of 2, a client queue of 1, 2 errors | the engine survives, the unified stream is in order, every message is in one place, managers catch up |
| `producer_burst` | 1 operation of 3 messages, the same channel | **violated**: an operation with more messages than the reserve ends the engine |
| `persistor` | the trades chain, 3 messages of which one cannot be decoded, tasks of up to 2 rows, 2 tasks per writer, 1 resubscription or restart, 1 refused commit | an offset is committed only when its rows are stored, the two named exceptions aside; the commits catch up |
| `server` | a query, a deposit, an order that may panic, a reload from scratch; a channel of 1, 1 slice, 1 client that goes away, 2 rows inserted meanwhile | answers are true and visible, the order's market is there, a reload from scratch has every valid market, a shutdown is graceful, no damaged state is saved, every request and the shutdown end |

**Bounds.** Amounts 1..2 and prices 1..2 give full and partial fills, equal and
different prices, and fees that round to zero and that do not. Five orders
suffice for two makers on a side, a taker that walks both, and orders placed
before and after. The open-order limit of 2 is reached. A quote limit of 3 (6 halves) with
prices 1 and 2 ends a market bid by rounding. Balances of 2 and 4 run out. The
faulty requests are a bid at -1, a market bid with a limit of -3 and an ask with a
taker fee of 1.5 and a negative maker fee, beside a limit of one half, which rounds to
zero. `self_trade_panic` leaves them out, so that a self trade is all that can end
the engine. User
symmetry is sound: the specification treats users alike, and no liveness is
checked with it. Deadlock is not checked: an engine whose bounded order ids are used up,
or that has panicked, stops.

For the writer, four rows and tasks of one or two give two or three tasks, two of
them in flight at once and ending in either order, one of them possibly filled
across two tags, so that the stack of a tag is left from the top and from below.
The channel of two fills up. Two failures split a task between two statements,
fail a retry again, or put every task the limit admits into the retry queue at
once. A writer with nothing to do waits, so deadlock is not checked.

For recovery, two children at two instants give a slice that is old enough to be
deleted and the child that deletes it, children that overtake each other, and
children of the same second; two operations fall before, between and after the
forks, logged, lost or unlogged; three processes give a start from no slice, from
a first and from a second one, with children of an earlier process alive. A
process that has stopped need not be started, so deadlock is not checked.

For the producer, a channel of two with one place kept free lets an operation of
two messages just fit, so that `is_block` decides; a client queue of one is full
at the second message; the four topics differ in which scheme passes them on. An
error is a failed send, a failed delivery or, for the simple scheme, a repeated
one; two of them repeat the same message twice, or repeat one and lose it. For
the persistor, two messages with rows and tasks of up to two rows are enough to cut
a task between the rows of one message, to let a later task end first, to have a
report overwritten and to read the stream again from an offset committed in
between. For the server, one place in the channel makes a
handler wait for room while the dispatcher waits for the lock behind a reload,
and the four requests meet in every order with the tick, the panic and the
shutdown; a market row of the same second as the last one loaded is skipped by
the load time, and the row before it is refused by `Market::new`.
These processes may stop for good, so deadlock is not checked; that nobody
waits for ever is `CatchesUp` and `EveryRequestEnds`.

**Fairness.** `Market` needs none: its loops run over finite maps and end by
themselves. `DatabaseWriter!FairSpec` asks weak fairness of the three branches of `select!`,
which polls the ready ones in random order, and of the spawned tasks; statements
fail at most `MaxFails` times, which stands for a database that is back in the end.
`Producer!FairSpec` asks it of a manager's thread, which loops without blocking
for good, of the pushes of an operation that has begun, and of the broker, which
accepts a message in the end because errors are bounded; requests and the
shutdown owe nothing, and a process that has exited satisfies it.
`Server!FairSpec` asks it of each handler, of the dispatcher and its branch that
closes the channel (`select!` again), and of `main` after Ctrl-C: the runtime
polls a task that can go on, and a query of the database returns or fails.

**What was merged.** Conservation of money is part of `ImplementsLedger`; that no row
is lost and no report goes too far is part of `ImplementsRowStore` and
`AcceptedIsStored`; the
types of `Producer` are a conjunct of `InOnePlace`.

### Findings

 - *Self trade panics.* With `disable_self_trade = false`, the two updates of a
   trade that hit the same balance of the same user and asset share a cache key;
   the second is refused as a duplicate and `unwrap()`ped. (`market/mod.rs:457..520`,
   `asset/update_controller.rs:93`.)
 - *Negative price.* `put_order` refuses a limit order only if its price is zero
   (`market/mod.rs:193`), and a bid of amount times a negative price is covered by
   any balance (`:208`). Through `batch_order_put` it reaches the book with a
   negative amount frozen. The assertions of `balance_manager.rs` (`:98`, `:121`, `:134`)
   say that this cannot be; in a release build AVAILABLE grows and FREEZE is negative.
 - *Silent drop.* `storage/database.rs:601` says that messages never pile up in
   the channel and that the code should rather die fast. A row that finds the
   channel full is handed back, and the callers ignore that with `.ok()`
   (`message/persist.rs:33`, `matchengine/controller.rs:704`,
   `matchengine/history.rs:83`); the writer then reports positions beyond it.
 - *Unreadable log.* The README promises an operation log beside the slices, and
   `controller.rs:645` that it is replayed. The rows are inserted without the
   `user_id` they are read with (`storage/models.rs:329`, and the table has no
   such column), so `init_from_db` panics on the first row after the last slice:
   the engine starts only if a slice covers everything that was logged.
 - *Burst.* `message/mod.rs:159` calls the channel large enough for the pulse of one
   request, and `is_block` keeps 1000 places free. A request pushes several
   messages for every maker it meets and asks `is_block` once, so one that meets
   enough makers while the producer's thread is slow fails `try_send().unwrap()`
   in the middle of a match. `EngineSurvivesBursts` says exactly how many messages
   are safe: one more than the reserve.

## 5. Proofs

Checked by TLAPS for all users, assets, markets, requests (with numbers of either
sign and fees of any size), limits and either value of the settings, from the assumptions `MarketAssumption` (in
`Orders`) and `EngineAssumption` (in `Market`); for recovery, for any number of
operations, children, processes and instants, from `RecoveryAssumption` and
`NoSliceAssumption` (the value that stands for "no slice" is no history); for the
producer, for any managers, operations, errors and sizes of the queues, from
`ProducerAssumption`; for the server, for any requests, rows and size of the channel,
from `ServerAssumption` (rows have ascending creation times, and a market's assets
come before it); for the database writer, for any rows, sizes of tasks, channel and
statements and any number of failures, from `WriterAssumption` (the rows of a tag
come in ascending order of position); for the persistor, for any topic, any chain of
handlers that is not empty and any sizes, from `PersistorAssumption`. TLC evaluates these assumptions in every run of the modules.

| theorem | states |
|---|---|
| `BookProofs!TypesHold` | `Spec => []TypeOK` |
| `BookProofs!IndexesAgree` | `Spec => []BookIndexes` |
| `BookProofs!ArithmeticHolds` | `Spec => []OrderArithmetic` |
| `BookProofs!FundsSuffice` | `Spec => []TakerFunds` |
| `BookProofs!BookNotCrossed` | `Spec => []NotCrossed` |
| `BookProofs!LimitsHold` | `Spec => []LimitRespected` |
| `BookProofs!PriorityHolds` | `Spec => PriceTimePriority` |
| `MoneyProofs!FrozenMatches` | `Spec => []FrozenMatchesOrders` |
| `MoneyProofs!BalancesNonNegative` | `Spec => []NonNegative` |
| `MoneyProofs!DeathExplained` | `Spec => []DeathHasACause` |
| `MoneyProofs!OrderNumLimited` | `Spec => []OrderNumLimit` |
| `MoneyProofs!MessagesTellTheBook` | `Spec => []OpenUnlessFinished` |
| `MoneyProofs!MessagesInOrder` | `Spec => EventsInOrder` |
| `MoneyProofs!EngineImplementsLedger` | `Spec => ImplementsLedger` |
| `RecoveryProofs!RecoveryTypes` | `Spec => []TypeOK` |
| `RecoveryProofs!LogIdsStayFresh` | `Spec => []LogIdsFresh` |
| `RecoveryProofs!LastSliceStaysWhole` | `Spec => []LastSliceWhole` |
| `RecoveryProofs!OrdersKeepBalances` | `Spec => []OrdersMatchBalances` |
| `RecoveryProofs!LoggedStaysRemembered` | `Spec => []LoggedIsRemembered` |
| `ProducerProofs!UnifiedInOrder` | `Spec => []UnifyInOrder` |
| `ProducerProofs!EngineSurvivesBursts` | `BurstsFit => (Spec => []EngineSurvives)` |
| `ProducerProofs!EveryMessageInOnePlace` | `Spec => []InOnePlace` |
| `WriterProofs!WriterTypes` | `Spec => []TypeOK`, the counters included |
| `WriterProofs!WrittenOnce` | `Spec => []TwiceOnlyIfDoubtful` |
| `WriterProofs!ReportsEverything` | `Spec => []ReportComplete` |
| `WriterProofs!WriterImplementsRowStore` | `Spec => ImplementsRowStore` |
| `PersistorProofs!PersistorTypes` | `Spec => []TypeOK` |
| `PersistorProofs!CommitsAreStored` | `Spec => []CommittedIsStored` |
| `PersistorProofs!CommitsCatchUpHolds` | `Spec => []CommitsCatchUp` |
| `ServerProofs!ServerTypes` | `Spec => []TypeOK` |
| `ServerProofs!AnswersTrue` | `Spec => []AnswersAreTrue` |
| `ServerProofs!OrderFinds` | `Spec => []OrderFindsMarket` |
| `ServerProofs!ReadsOwnWrites` | `Spec => []ReadYourWrites` |
| `ServerProofs!ScratchCompletes` | `Spec => []ScratchIsComplete` |
| `ServerProofs!EndsGracefully` | `Spec => []GracefulEnd` |
| `ServerProofs!DamageStaysOut` | `Spec => DamageNotSaved` |

*Shape.* Types and indexes are inductive only together: `OrderFinish` removes an
id from one user's map, which keeps `users` inside `DOMAIN orders` because an
order is in its own user's map only, and `Trade` writes through ids that the
indexes say are open. `ShapeInvariant` is their conjunction with what the
running operation holds.

*Which requests a property depends on.* Frozen amounts, the indexes, the uncrossed
book, the limit on open orders, the events and the sum of what an order has left and
has traded hold for every request. Signs of resting amounts, `NonNegative`,
`LimitRespected` and `PriceTimePriority` need that no negative price was accepted: one
such order has a negative amount frozen, and what it trades moves money the wrong
way. They do not need sound quote limits or fees: a market bid with a negative limit
can trade a negative amount, which takes back from what both orders have traded
(`finished_base` may become negative, and the maker has more left and frozen) at the
maker's own price, and an update that a fee turns negative is refused unless the
balance covers it.

*Arithmetic and funds.* `OrderArithmetic` is needed for the sign of every
traded amount (`SoundTrade`), and `TakerFunds` for the balance that remains: a trade takes
`price * base` with `price` at most the taker's limit (or, for a market bid,
at most what is left of the quote limit), so what is left covers what is left to
trade; what the taker receives only adds, if the updates before it were not
refused. `BookInvariant` proves both together, with the sign of prices and limits
that `faults` allows.

*Uncrossed book.* The only step that adds an order is `RestTaker`, and the loop
that precedes it ended because nothing was left on the other side or the best
price left does not match. `LoopStopsAtPrice` says that then no price left matches,
by the book order; filled makers leave in the same step.

*Limit prices.* A fill adds `price * base` at the maker's price, which is the
maker's limit and, by the loop's test, no worse than the taker's; the totals
keep the inequality because the fills add up (`FillKeepsPrice`).

*Priority.* `PriceTimePriority` is a property of steps, and the step that could
break it is a trade behind a better order that still has something left. The
loop walks the book in key order, so such an order has been visited; that it
is filled by then is not inductive, because a market bid may leave a maker
partly filled when its quote limit runs out. `Walk` says what then holds: what
is left of the limit does not pay for one unit at that maker's price
(`TradeSpends`, the remainder of a division), and the prices behind are no
better, so no further trade follows (`PassedAreFilled`).

*Frozen money.* `FrozenMatchesOrders` compares a balance with a sum over all order
ids, which the model writes as a recursive function. `RunningSumExists` gets from
the function's definition what it computes up to any id, and the sums before and
after a step are compared at the first id where they would differ from what they
should be (`SetInduction`: a set of naturals without a least counterexample is all
of them; an induction stated about a set, which the provers can instantiate). Each
step changes the summands of one or two ids (`FrozenMoves`), and by what it
adds to `FREEZE`. `Money` is this with `BookInvariant`. `NonNegative` follows: a
frozen balance is a sum of what orders have frozen, an available one is only
lowered after a check or within what `TakerFunds` guarantees.

*Survival of the engine.* A trade is `Safe` when no negative price was accepted, the
taker's limit is not negative and neither fee rate is above one. The balance then
covers all four updates by `Money`, and each fee is at most what it is taken from
(`FeeBounds`); four updates have two equal keys only if taker and maker are the same
user, and the loop trades with an own order only if self trades are allowed. A
refused update therefore has a cause (`PanicHasACause`), and the maker at hand stays
the same after it (`DeathExplained`).

*Ledger.* For each action, the sum of available and frozen of every user and asset
before and after: a rest, a cancellation and a finish move an amount between the
two, a trade between two different users is `Exchange` with the amounts and fees of
the code, a trade with oneself panics before any update. While no fault was accepted
every rate in the book is at most one (`RatesInvariant`), so a trade is safe and
what is received is not negative (`SoundIsSafe`).

*Events.* `Story` relates the last event of every order to the book and to the
running operation: an order has sent FINISH exactly when it is neither open nor
being executed, and the one being executed has sent its PUT only.

*Log ids.* A running engine is past every row of the log and of its writer
(`PastTheLog`). A start keeps that although it takes its id from a slice that may be
old: it succeeds only if no row follows the slice.

*Last slice.* A published slice may lose rows only to a child that deletes, and
such a child has published a slice of its own before (`ChildOK`), `SLICE_KEEP_TIME`
younger than all it deletes; the youngest time in `slice_history` is therefore
never deleted (`YoungStays`), and what made a time deletable stays
(`GoneStays`). `SliceInv` says of every row of `slice_history`, and of every child that
has dumped and not yet published, that its rows are there or its time is `Gone`.

*Orders and balances.* What a start has loaded so far are the rows of the slice it has
chosen, if they are the rows of one child alone and the slice is not `Gone`
(`LoadInv`); the two halves of whatever an engine, a child or a row of
`slice_history` stands for are the same operations (`TwinsInv`). The ghost `sound`
names the hazards under which the premises fail.

*Logged operations.* That the last slice remembers the logged rows below its end is not
inductive: it says nothing of the slices that become the last one when it is
deleted. `MemoryInv` names a base, the slice the running process has started from: every
slice since then is `Faithful`, and no slice before it can become the last one
again, because deleting the base takes a younger slice that stays.

*Unified stream.* The written log, the client's queue, the list and the channel of
a full-order manager form one line: each ascends, each lies before the next,
nothing in them is beyond the last message pushed, and every message of the scheme
up to that one is somewhere in it or lost (`Line`). The four steps that move
a message move the head of one part to the end of the part before it
(`PassOn`), and the rest of the model leaves the line alone. `UnifyInOrder`
by itself is not inductive: that a delivery keeps the order depends on all that is
still on its way.

*Survival.* `Room` says that what an operation still has to push fits into every
channel; it holds when the operation is let in because the reserve, and the place
that made `is_block` false, cover it, and pushes and receptions keep it. That
the receiver lives on needs the threads: they end only once the engine is closed,
and the full scheme's assertion holds because the reports unread, the client's
messages and the next number continue the count of the last commit (`Numbered`),
as long as the thread has not begun to flush.

*One place.* For every manager and message, the copies in the channel, the lists, the
client, the topic and among the lost ones are counted (`Hits`, the number of
indexes of a sequence whose element is in a set), and `Balanced` says that they are one
and the repetitions, or none before the push. Every step takes one copy from a place and
adds it to another, or turns a list around; lemmas of `SequenceFacts` say how
`Append`, `Tail` and `RemoveAt` change a count. `Queues` says which messages a
place may hold, which the topics' lists need for `DOMAIN`s and limits, and that the
messages of the operations begun are the first `target` ones is a fact about
`FlattenSeq`, obtained like the sums above (`FlattenGathers`). This
proof changed the model: `repeated` was a set, and with a second error a message
can be repeated twice.

*Server.* `Serving` ties each handler's place to the queue of the lock, the
reload that holds it, the channel, the dispatcher and the operations that have run:
each request is in at most one of them. From it follow types, answers and order
markets (markets are only added: `MarketsStay`). `Drained` says that nobody is in flight once
`serve_with_shutdown` has returned. For reads, `Earlier` says that what had been
answered when a request was made stands before it in the order of execution. For
a reload from scratch, `Scratching` says that its load time stays 0 while it holds
the lock, so both of its queries return everything it owes, and that the assets a
market needs are inserted before the market; what `Market::new` then refuses is
imprecise, and not owed.

*Database writer.* A row is in the channel, in a task that waits (`Line`), or in a task
that was spawned and whose end the scheduler has not seen (`Holds`, which counts
running, failed and returning tasks of a set); `Where` adds these up, and
`Places` says that it is at most one, and one for every accepted row that is not
stored while the scheduler runs. `Holds` of all tasks is `spawning_tasks`, of the
tasks with a given flag it is the number of entries for that position on the stack,
so one lemma for each step, about any set of tasks, serves all three
(`DoneEffect`, `NextEffect`, `InsertFailEffect`). `InLine` says that rows and tasks
wait in the order the rows were offered, which makes a spawned task's position higher
than everything on the stack: `push_top` appends, and no two tasks share a position.

`ImplementsRowStore` is not inductive by itself: that a position may be reported depends
on what is left on the stack. `Stack` relates the entries to the open tasks, and
three bounds relate the rows to the entries and marks: a row of an open task lies
above every entry below its task's own, and above the marks of these (`OpenLag`);
a row in line lies beyond the whole stack (`LineLag`); a row that is neither
is not (`PastLag`), which gives `ReportComplete`. `PopTop` says what `pop_top` does
to an ascending stack: the entry leaves, and its mark, or its own position, moves to the
entry below it or is reported. `Once` follows a row through the retries: as long
as it is still to be inserted it is not in the table, unless it is `doubtful`.

*Persistor.* Two tasks may here have the same position, rows may be held twice, and a
position is committed only after it has passed writers and trackers, so the argument is
about *live* rows: rows that are not stored, of messages that no exception is made
for. `Coverage` says that up to the position, and up to everything held, the live
rows are held by their writers; no step but the message that brings a row makes
one live. `Order` says how a live row lies among the others of its
partition: the queue ascends from it on, what is in tasks comes before the queue, and a
task with a live row stands between the tasks before and after it, so that of two
such tasks the flags tell which has the lower rows (`TaskFlags`). A torn task would
break that, and exposes its messages when it is spawned; a second reading would
break it, and exposes what waits. `Balanced` says that a stack has as many entries
in any set of positions as there are open tasks with such flags, and `Marked` that
a mark, as far as it goes, has only live rows above it, except in tasks at or below its
entry. When a task ends, its entry leaves from the lowest place with that position: with
an open entry below, what it stood for becomes that one's mark (`TakenAbove`), and
with none, it is reported and written (`ToldIsWritten`). `Reports` says that of
every watch channel; `Trackers` says that an item of the left side is written by the
level's own writer and one of the right side by all below, so what is resolved is
written by both (`OutReaches`, down the levels), and what level 1 makes known by all:
`Committed`. At the end of a shutdown the highest offset any side has seen
may be committed because nothing is held any more. The sets of positions in
`Balanced` range over all subsets of `Nat`, which TLC cannot enumerate; it was
checked with single positions.

That the commits catch up is about what may not be lost on the way, and about one offset
of every partition, the newest that was read and has rows (`Newest`). `Following`
is the inductive invariant, for partitions that were not read again while they were
written. `Ends` says where that offset is in a writer: no row of the partition
in the queue is without one of it behind; when none is in the queue, the highest entry
of the stack, or its mark, is that offset, because a task takes the rows in the order
of the queue (`PushLast`) and an entry that leaves hands on what it stands for
(`PopLast`); and a report that empties the stack is that offset. A level is
`UpToDate` when its writer holds nothing of the partition and its last report was seen. What
the trackers then know cannot be said level by level: a level that waits for the left
side may have been told the offset by the right, and only its own report resolves it.
`Settled` therefore names a whole prefix of the chain: the levels wait for the
right side, down to one that waits for no other. `Kept` says that a level that has
heard of the offset from either side remembers it, and `Followed` that once the outermost
level is settled, the offset is committed. A report may settle several levels at once;
`AllResolve` goes up the chain from the level that sees it: each level that it
settles passes an offset on that has reached the newest one. The trackers of a process
that starts know nothing of what the one before it has committed: `Idle` is that case,
and the case of a partition that is read again when all of it was written and
seen. TLC checked `Following` on chains of one to three levels and one or two
partitions, with refused commits and readings again, before it was proved.

*Only model-checked.* `AcceptedIsStored`, `CatchesUp` and `EveryRequestEnds`, which are liveness under fairness and out of reach of TLAPS.

## 6. Not modelled

 - The REST server (`restapi/`): read-only queries over the history tables, among
   them the chart data of `tradingview.rs`. The rows `manage.rs` inserts are
   `Server!InsertRow`.
 - Conversions between protocol and engine records (`dto.rs`), authentication,
   logging, the layers of configuration files, and the test doubles.
 - `debug_dump`, `debug_reload` and `debug_reset`, which a release build refuses.
 - The persistors of `matchengine/persist/persistor.rs` for files, memory and the
   database, which are for tests or switched off; `DatabaseHistoryWriter` is a set of
   writers, each a `DatabaseWriter`.
 - The expiry of the duplicate cache and its loss at a restart, and the reuse of
   order and trade ids after a restart: both are listed as hazards.
 - The overflow of `rust_decimal` numbers, and market rows at the start of a process (an
   imprecise one keeps it from starting).
 - Depth and status queries, which only read.
