------------------------------ MODULE Producer ------------------------------
(***************************************************************************)
(* How the engine's events reach Kafka (message/mod.rs, message/producer.rs *)
(* and the persistors of matchengine/persist/persistor.rs).  An operation  *)
(* of the engine is let in only when no message manager is blocked; it     *)
(* then pushes its messages, one by one, into the channel of every         *)
(* manager.  A thread per manager moves them from the channel into the     *)
(* lists of its message scheme, from there into the Kafka client, and      *)
(* reads the delivery reports.                                             *)
(*                                                                         *)
(* Messages are numbered in the order the engine makes them; message i has *)
(* topic Topic[i], the topic tip it is pushed with.                        *)
(***************************************************************************)
EXTENDS Integers, SequencesExt

CONSTANTS
  persistors,   \* the schemes of CompositePersistor's managers, in its order
  Operations,   \* the topics of the messages of each operation, in order
  Capacity,     \* of the channel (2048)
  Reserve,      \* what is_block keeps free for one operation (1000)
  ListLimit,    \* of a scheme's list (100)
  KafkaLimit,   \* messages the Kafka client queues
  MaxErrors     \* bound: sends that fail, deliveries that fail or are repeated

Managers == DOMAIN persistors
Topic == FlattenSeq(Operations)
Messages == 1..Len(Topic)

SimpleTopics == <<"balances", "orders", "trades", "registeruser">>
FullTopics == {"deposits", "orders", "trades", "registeruser", "withdraws"}

ASSUME ProducerAssumption ==
  /\ persistors \in Seq({"simple", "full"})
  /\ Operations \in Seq(Seq(ToSet(SimpleTopics) \cup FullTopics))
  /\ Capacity \in Nat /\ Reserve \in 0..Capacity
  /\ {ListLimit, KafkaLimit} \subseteq Nat \ {0}
  /\ MaxErrors \in Nat

VARIABLES
  engine,       \* "up", "panicked" in a push, or "closed": the sender is dropped
  op,           \* operations begun
  target,       \* the last message of the last of them
  sent,         \* the last message pushed to each manager
  chan,         \* the managers' channels
  pc,           \* where each manager's thread is in its loop
  lists,        \* the lists of its scheme, by the Kafka topic they go to
  deliver_cnt, commited_cnt,
  queue_full,   \* producer_queue_full
  outbox,       \* what the Kafka client has accepted and not yet delivered
  reports,      \* delivery reports the thread has not polled
  log,          \* the Kafka topics
  lost,         \* messages whose delivery failed
  repeated,     \* how often a retry has written a message once more
  errors

engineVars == <<engine, op, target, sent>>
threadVars == <<pc, lists, deliver_cnt, commited_cnt, queue_full>>
kafkaVars == <<outbox, reports, log, lost, repeated>>
vars == <<engineVars, chan, threadVars, kafkaVars, errors>>

(***************************************************************************)
(* The message schemes.  SimpleMessageScheme keeps one list per topic and  *)
(* sends to that topic; FullOrderMessageScheme keeps one list and sends    *)
(* everything to "unifyevents".                                            *)
(***************************************************************************)
Simple(m) == persistors[m] = "simple"

Lists(m) == IF Simple(m) THEN SimpleTopics ELSE <<"unifyevents">>

ListOf(m, t) == IF Simple(m) THEN t ELSE "unifyevents"

Relevant(m, t) == IF Simple(m) THEN t \in ToSet(SimpleTopics) ELSE t \in FullTopics

\* The messages a manager passes on.
Concerns(m) == {i \in Messages : Relevant(m, Topic[i])}

Init ==
  /\ engine = "up" /\ op = 0 /\ target = 0
  /\ sent = [m \in Managers |-> 0]
  /\ chan = [m \in Managers |-> <<>>]
  /\ pc = [m \in Managers |-> "absorb"]
  /\ lists = [m \in Managers |-> [t \in ToSet(Lists(m)) |-> <<>>]]
  /\ deliver_cnt = [m \in Managers |-> 0] /\ commited_cnt = [m \in Managers |-> 0]
  /\ queue_full = [m \in Managers |-> FALSE]
  /\ outbox = [m \in Managers |-> <<>>] /\ reports = [m \in Managers |-> <<>>]
  /\ log = [m \in Managers |-> [t \in ToSet(Lists(m)) |-> <<>>]]
  /\ lost = [m \in Managers |-> {}]
  /\ repeated = [m \in Managers |-> [i \in Messages |-> 0]]
  /\ errors = 0

\* Mutant: only a full channel blocks.
is_block_Full(m) == Len(chan[m]) >= Capacity

is_block(m) == Len(chan[m]) >= Capacity - Reserve

is_full(m) == \E t \in DOMAIN lists[m] : Len(lists[m][t]) >= ListLimit

\* The list pop_up takes from: the first of the longest ones.
Longest(m) ==
  LET L == Lists(m)
      first(i) == /\ \A j \in 1..i - 1 : Len(lists[m][L[j]]) < Len(lists[m][L[i]])
                  /\ \A j \in i..Len(L) : Len(lists[m][L[j]]) <= Len(lists[m][L[i]])
  IN  L[CHOOSE i \in DOMAIN L : first(i)]

Empty(m) == \A t \in DOMAIN lists[m] : lists[m][t] = <<>>

(***************************************************************************)
(* The engine.  check_service_available asks every manager once, at the    *)
(* start of an operation; a blocked one refuses the request.               *)
(***************************************************************************)
Idle == \A m \in Managers : sent[m] = target

Operation ==
  /\ engine = "up" /\ Idle
  /\ op < Len(Operations)
  /\ \A m \in Managers : ~is_block(m)
  /\ op' = op + 1
  /\ target' = target + Len(Operations[op + 1])
  /\ UNCHANGED <<engine, sent, chan, threadVars, kafkaVars, errors>>

\* CompositePersistor gives a message to all managers before the next one.
Turn(m) ==
  /\ sent[m] < target
  /\ \A n \in Managers : sent[n] = IF n < m THEN sent[m] + 1 ELSE sent[m]

Alive(m) == pc[m] \notin {"ended", "panicked"}

\* try_send().unwrap(): a channel that is full or has lost its receiver
\* ends the engine.
Push(m) ==
  /\ engine = "up"
  /\ Turn(m)
  /\ IF Len(chan[m]) < Capacity /\ Alive(m)
     THEN /\ chan' = [chan EXCEPT ![m] = Append(@, sent[m] + 1)]
          /\ sent' = [sent EXCEPT ![m] = @ + 1]
          /\ UNCHANGED engine
     ELSE engine' = "panicked" /\ UNCHANGED <<chan, sent>>
  /\ UNCHANGED <<op, target, threadVars, kafkaVars, errors>>

\* The controller is dropped at the end of main, and the senders with it.
Close ==
  /\ engine = "up" /\ Idle
  /\ engine' = "closed"
  /\ UNCHANGED <<op, target, sent, chan, threadVars, kafkaVars, errors>>

(***************************************************************************)
(* The thread of a manager, run_loop: absorb a message, send one, poll.    *)
(***************************************************************************)
Step(m, from, to) == pc[m] = from /\ pc' = [pc EXCEPT ![m] = to]

on_message(m, i) ==
  lists' = IF Relevant(m, Topic[i])
           THEN [lists EXCEPT ![m][ListOf(m, Topic[i])] = Append(@, i)]
           ELSE lists

Absorb(m) ==
  /\ IF is_full(m) \/ chan[m] = <<>>
     THEN UNCHANGED <<chan, lists>>
     ELSE chan' = [chan EXCEPT ![m] = Tail(@)] /\ on_message(m, Head(chan[m]))
  /\ Step(m, "absorb",
          IF ~is_full(m) /\ chan[m] = <<>> /\ engine = "closed" THEN "flush" ELSE "send")
  /\ UNCHANGED <<engineVars, deliver_cnt, commited_cnt, queue_full, kafkaVars, errors>>

\* Mutant: the front of the list goes to its back in both schemes.
Failed_ToBack(m, t) == lists' = [lists EXCEPT ![m][t] = Append(Tail(@), Head(@))]

\* Mutant: a message that could not be sent is dropped.
Failed_Drops(m, t) == lists' = [lists EXCEPT ![m][t] = Tail(@)]

(***************************************************************************)
(* commit(Some): SimpleMessageScheme pushes the message it popped back,    *)
(* behind the others; FullOrderMessageScheme has left it at the front.     *)
(***************************************************************************)
Failed(m, t) ==
  lists' = IF Simple(m) THEN [lists EXCEPT ![m][t] = Append(Tail(@), Head(@))] ELSE lists

\* producer.send succeeds, and commit(None).
Sent(m, t) ==
  /\ outbox' = [outbox EXCEPT ![m] = Append(@, [topic |-> t, msg |-> Head(lists[m][t]),
                                                opaque |-> deliver_cnt[m]])]
  /\ lists' = [lists EXCEPT ![m][t] = Tail(@)]
  /\ deliver_cnt' = [deliver_cnt EXCEPT ![m] = IF Simple(m) THEN 0 ELSE @ + 1]

ClientFull(m) == Len(outbox[m]) >= KafkaLimit

\* Nothing to send, or the client's queue has been full since the last poll.
SendNothing(m) ==
  /\ queue_full[m] \/ Empty(m)
  /\ Step(m, "send", "poll")
  /\ UNCHANGED <<engineVars, chan, lists, deliver_cnt, commited_cnt, queue_full, kafkaVars,
                 errors>>

SendOne(m) ==
  /\ ~queue_full[m] /\ ~Empty(m)
  /\ Step(m, "send", "poll")
  /\ IF ClientFull(m)
     THEN /\ queue_full' = [queue_full EXCEPT ![m] = TRUE]
          /\ Failed(m, Longest(m))
          /\ UNCHANGED <<deliver_cnt, outbox>>
     ELSE Sent(m, Longest(m)) /\ UNCHANGED queue_full
  /\ UNCHANGED <<engineVars, chan, commited_cnt, reports, log, lost, repeated, errors>>

\* Any other error of send().
SendError(m) ==
  /\ ~queue_full[m] /\ ~Empty(m)
  /\ errors < MaxErrors /\ errors' = errors + 1
  /\ Step(m, "send", "poll")
  /\ Failed(m, Longest(m))
  /\ UNCHANGED <<engineVars, chan, deliver_cnt, commited_cnt, queue_full, kafkaVars>>

\* deliver_commit for every report polled; the full scheme asserts their order.
InSequence(m) ==
  Simple(m) \/ \A i \in DOMAIN reports[m] : reports[m][i] = commited_cnt[m] + i - 1

\* Mutant: the flag that the client is full is never cleared.
Poll_KeepsFlag(m) ==
  /\ Step(m, "poll", IF InSequence(m) THEN "absorb" ELSE "panicked")
  /\ commited_cnt' = [commited_cnt EXCEPT ![m] =
                        IF Simple(m) THEN 0 ELSE @ + Len(reports[m])]
  /\ reports' = [reports EXCEPT ![m] = <<>>]
  /\ UNCHANGED <<engineVars, chan, queue_full, lists, deliver_cnt, outbox, log, lost,
                 repeated, errors>>

Poll(m) ==
  /\ Step(m, "poll", IF InSequence(m) THEN "absorb" ELSE "panicked")
  /\ queue_full' = [queue_full EXCEPT ![m] = @ /\ reports[m] = <<>>]
  /\ commited_cnt' = [commited_cnt EXCEPT ![m] =
                        IF Simple(m) THEN 0 ELSE @ + Len(reports[m])]
  /\ reports' = [reports EXCEPT ![m] = <<>>]
  /\ UNCHANGED <<engineVars, chan, lists, deliver_cnt, outbox, log, lost, repeated, errors>>

(***************************************************************************)
(* After the sender is gone: send what the lists hold, then flush the      *)
(* client.  A send that fails for another reason than a full queue ends    *)
(* the thread with what is left.                                           *)
(***************************************************************************)
FlushOne(m) ==
  /\ ~Empty(m)
  /\ Step(m, "flush", "flush")
  /\ IF ClientFull(m)
     THEN /\ Failed(m, Longest(m))
          /\ reports' = [reports EXCEPT ![m] = <<>>]
          /\ UNCHANGED <<deliver_cnt, outbox>>
     ELSE Sent(m, Longest(m)) /\ UNCHANGED reports
  /\ UNCHANGED <<engineVars, chan, commited_cnt, queue_full, log, lost, repeated, errors>>

FlushError(m) ==
  /\ ~Empty(m)
  /\ errors < MaxErrors /\ errors' = errors + 1
  /\ Step(m, "flush", "ended")
  /\ UNCHANGED <<engineVars, chan, lists, deliver_cnt, commited_cnt, queue_full, kafkaVars>>

FlushEnd(m) ==
  /\ Empty(m) /\ outbox[m] = <<>>
  /\ Step(m, "flush", "ended")
  /\ UNCHANGED <<engineVars, chan, lists, deliver_cnt, commited_cnt, queue_full, kafkaVars,
                 errors>>

\* main does not join the threads: the process ends while they flush.
ProcessExit ==
  /\ engine = "closed"
  /\ \E m \in Managers : Alive(m)
  /\ pc' = [m \in Managers |-> "ended"]
  /\ UNCHANGED <<engineVars, chan, lists, deliver_cnt, commited_cnt, queue_full, kafkaVars,
                 errors>>

(***************************************************************************)
(* The Kafka client and the broker, as far as the settings of a scheme     *)
(* promise.  "enable.idempotence" with one request in flight writes each   *)
(* message once and in order; without it a retry may overtake or repeat a  *)
(* message.                                                                *)
(***************************************************************************)
InFlight(m) == IF Simple(m) THEN DOMAIN outbox[m] ELSE DOMAIN outbox[m] \cap {1}

Running(m) == pc[m] # "ended"

Written(m, i) ==
  log' = [log EXCEPT ![m][outbox[m][i].topic] = Append(@, outbox[m][i].msg)]

Reported(m, i) ==
  /\ reports' = [reports EXCEPT ![m] = Append(@, outbox[m][i].opaque)]
  /\ outbox' = [outbox EXCEPT ![m] = RemoveAt(@, i)]

Deliver(m, i) ==
  /\ Running(m)
  /\ Written(m, i) /\ Reported(m, i)
  /\ UNCHANGED <<engineVars, chan, threadVars, lost, repeated, errors>>

DeliverError(m, i) ==
  /\ Running(m)
  /\ errors < MaxErrors /\ errors' = errors + 1
  /\ lost' = [lost EXCEPT ![m] = @ \cup {outbox[m][i].msg}]
  /\ Reported(m, i)
  /\ UNCHANGED <<engineVars, chan, threadVars, log, repeated>>

DeliverTwice(m, i) ==
  /\ Running(m) /\ Simple(m)
  /\ errors < MaxErrors /\ errors' = errors + 1
  /\ Written(m, i)
  /\ repeated' = [repeated EXCEPT ![m][outbox[m][i].msg] = @ + 1]
  /\ UNCHANGED <<engineVars, chan, threadVars, outbox, reports, lost>>

Loop(m) == Absorb(m) \/ SendNothing(m) \/ SendOne(m) \/ Poll(m) \/ FlushOne(m) \/ FlushEnd(m)

Next ==
  \/ Operation
  \/ Close
  \/ ProcessExit
  \/ \E m \in Managers : Push(m)
  \/ \E m \in Managers : Absorb(m)
  \/ \E m \in Managers : SendNothing(m)
  \/ \E m \in Managers : SendOne(m)
  \/ \E m \in Managers : SendError(m)
  \/ \E m \in Managers : Poll(m)
  \/ \E m \in Managers : FlushOne(m)
  \/ \E m \in Managers : FlushError(m)
  \/ \E m \in Managers : FlushEnd(m)
  \/ \E m \in Managers : \E i \in InFlight(m) : Deliver(m, i)
  \/ \E m \in Managers : \E i \in InFlight(m) : DeliverError(m, i)
  \/ \E m \in Managers : \E i \in InFlight(m) : DeliverTwice(m, i)

Spec == Init /\ [][Next]_vars

(***************************************************************************)
(* A thread never stops on its own, an operation that has begun pushes its *)
(* messages, and the broker accepts a message in the end (errors are       *)
(* bounded).  Requests and the shutdown owe nothing.                       *)
(***************************************************************************)
FairSpec ==
  /\ Spec
  /\ \A m \in Managers : WF_vars(Push(m)) /\ WF_vars(Loop(m))
  /\ \A m \in Managers : WF_vars(\E i \in InFlight(m) : Deliver(m, i))

(***************************************************************************)
(* Type correctness.                                                       *)
(***************************************************************************)
TypeOK ==
  /\ engine \in {"up", "panicked", "closed"}
  /\ op \in 0..Len(Operations) /\ target \in 0..Len(Topic)
  /\ \A m \in Managers :
       /\ sent[m] \in 0..target
       /\ Len(chan[m]) <= Capacity /\ ToSet(chan[m]) \subseteq Messages
       /\ pc[m] \in {"absorb", "send", "poll", "flush", "ended", "panicked"}
       /\ DOMAIN lists[m] = ToSet(Lists(m)) /\ DOMAIN log[m] = ToSet(Lists(m))
       /\ \A t \in DOMAIN lists[m] :
            /\ Len(lists[m][t]) <= ListLimit
            /\ ToSet(lists[m][t]) \cup ToSet(log[m][t])
                 \subseteq {i \in Concerns(m) : ListOf(m, Topic[i]) = t}
       /\ {deliver_cnt[m], commited_cnt[m]} \subseteq Nat
       /\ queue_full[m] \in BOOLEAN
       /\ Len(outbox[m]) <= KafkaLimit
       /\ lost[m] \subseteq Messages /\ repeated[m] \in [Messages -> 0..errors]
  /\ errors \in 0..MaxErrors

(***************************************************************************)
(* No push finds its channel full, and no assertion of a thread fails: an  *)
(* engine that lets an operation in can push all its messages.             *)
(***************************************************************************)
EngineSurvives ==
  /\ engine # "panicked"
  /\ \A m \in Managers : pc[m] # "panicked"

(***************************************************************************)
(* The full-order scheme writes its messages in the order the engine       *)
(* pushed them, each once, and without a gap: what is missing below the    *)
(* last one is a message whose delivery has failed and was reported lost.  *)
(***************************************************************************)
Ascending(s) == \A i, j \in DOMAIN s : i < j => s[i] < s[j]

UnifyInOrder ==
  \A m \in Managers : ~Simple(m) =>
    LET s == log[m]["unifyevents"]
    IN  /\ Ascending(s)
        /\ \A i \in Concerns(m) : s # <<>> /\ i < Last(s) => i \in ToSet(s) \cup lost[m]

(***************************************************************************)
(* While a manager runs, every message pushed to it that concerns its      *)
(* scheme is in exactly one place: the channel, its list, the client, its  *)
(* topic, or it was reported lost.  Only a retry adds a copy, and one.     *)
(* Every list keeps to its limit and to the messages of its topic.         *)
(***************************************************************************)
Count(s, i) == Cardinality({j \in DOMAIN s : s[j] = i})

Copies(m, i) ==
  LET t == ListOf(m, Topic[i])
  IN  Count(chan[m], i) + Count(lists[m][t], i) + Count(log[m][t], i)
        + Cardinality({j \in DOMAIN outbox[m] : outbox[m][j].msg = i})
        + (IF i \in lost[m] THEN 1 ELSE 0)

InOnePlace ==
  /\ TypeOK
  /\ \A m \in Managers : \A i \in Concerns(m) :
       Copies(m, i) = IF i > sent[m] THEN 0 ELSE 1 + repeated[m][i]

(***************************************************************************)
(* A manager catches up, whatever it is given: it lets the engine in again *)
(* and everything pushed so far is in its topic or was reported lost,      *)
(* unless the engine is shut down.                                         *)
(***************************************************************************)
Arrived(m) ==
  \A i \in Concerns(m) :
    i <= sent[m] => i \in lost[m] \cup ToSet(log[m][ListOf(m, Topic[i])])

CatchesUp ==
  \A m \in Managers : []<>(engine = "closed" \/ (~is_block(m) /\ Arrived(m)))

=============================================================================
