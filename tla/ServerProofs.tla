---------------------------- MODULE ServerProofs ----------------------------
(***************************************************************************)
(* The gRPC server, for any requests, any rows of the database and any     *)
(* size of the task channel: what a client is told is true, in whatever    *)
(* order handlers, dispatcher, reload and shutdown run.                    *)
(***************************************************************************)
EXTENDS Server, SequenceFacts, FiniteSetTheorems

Places == {"idle", "lock", "assets", "markets", "send", "wait",
           "answered", "refused", "unreach", "gone"}

\* Nothing of such a request is in the channel, and nothing of it has run.
Unsent == {"idle", "lock", "send", "refused", "unreach"}

Users == Requests \cup {Dispatcher}

(***************************************************************************)
(* The lock: its queue holds whoever waits for it, once; at most one       *)
(* reload holds it between two steps.                                      *)
(***************************************************************************)
LockQueue ==
  /\ waiting \in Seq(Users) /\ IsInjective(waiting)
  /\ \A r \in Requests : r \in ToSet(waiting) <=> at[r] = "lock"
  /\ Dispatcher \in ToSet(waiting) <=> pc \in {"task", "persist"}

LockHeld ==
  /\ held \subseteq Reloads
  /\ \A r \in Requests : r \in held <=> at[r] \in {"assets", "markets"}
  /\ \A r, s \in held : r = s

(***************************************************************************)
(* The channel: an operation is in it, with the dispatcher, or has run,    *)
(* never two of them, and where its handler is tells which are possible.   *)
(***************************************************************************)
Channel ==
  /\ queue \in Seq(Writes) /\ IsInjective(queue) /\ Len(queue) <= ChannelSize
  /\ executed \in Seq(Writes) /\ IsInjective(executed)
  /\ cur \in Writes \cup {Dispatcher} /\ (pc = "task" <=> cur # Dispatcher)
  /\ cur \notin ToSet(queue) /\ cur \notin ToSet(executed)
  /\ ToSet(queue) \cap ToSet(executed) = {}

Honest ==
  \A r \in Requests :
    /\ at[r] \in {"send", "wait", "unreach"} => r \in Writes
    /\ at[r] \in Unsent => r \notin ToSet(queue) \cup {cur} \cup ToSet(executed)
    /\ at[r] = "wait" => r \notin ToSet(executed)
    /\ at[r] = "answered" /\ r \in Writes => r \in ToSet(executed)

Control ==
  /\ at \in [Requests -> Places]
  /\ closed \in BOOLEAN /\ damaged \in BOOLEAN
  /\ pc \in {"select", "task", "persist", "drain", "exited", "dead"}
  /\ main \in {"serving", "shutting", "leaving", "ended", "panicked"}
  /\ inserted \in Loaded..Len(DBRows)
  /\ market_load_time \in Nat

Serving == Control /\ LockQueue /\ LockHeld /\ Channel /\ Honest

LEMMA Sorts ==
  /\ Dispatcher \notin Requests /\ Writes \subseteq Requests
  /\ Orders \subseteq Writes /\ Reloads \subseteq Requests /\ Queries \subseteq Requests
  /\ Reloads \cap Writes = {} /\ Queries \cap Writes = {} /\ Queries \cap Reloads = {}
  /\ \A r \in Requests : ~NeedsLock(r) => r \in Writes
  /\ \A r \in Requests : r \in Queries \/ r \in Reloads \/ r \in Writes
BY ServerAssumption DEF Queries, Reloads, Orders, Writes, NeedsLock, Kind

(***************************************************************************)
(* The rows of the database.                                               *)
(***************************************************************************)
LEMMA RowFacts ==
  ASSUME NEW i \in DOMAIN DBRows
  PROVE  /\ i \in Nat \ {0} /\ DBRows[i].create_time \in Nat \ {0}
         /\ DBRows[i].needs \subseteq STRING
<1>1. DBRows[i] \in RowType
  BY ServerAssumption
<1>2. i \in Nat \ {0}
  BY ServerAssumption
<1> QED BY <1>1, <1>2 DEF RowType

LEMMA LatestType ==
  ASSUME NEW rows \in SUBSET DOMAIN DBRows, NEW t \in Nat
  PROVE  Latest(rows, t) \in Nat
<1>1. DOMAIN DBRows = 1..Len(DBRows) /\ Len(DBRows) \in Nat
  BY ServerAssumption
<1>2. \A i \in DOMAIN DBRows : DBRows[i].create_time \in Nat
  BY RowFacts
<1>3. CASE rows = {}
  BY <1>3 DEF Latest
<1>4. CASE rows # {}
  <2>1. Max(rows) \in rows
    BY <1>1, <1>4, MaxIsLargest
  <2> QED BY <1>2, <1>4, <2>1 DEF Latest
<1> QED BY <1>3, <1>4

LEMMA RowsType ==
  ASSUME inserted \in Loaded..Len(DBRows), NEW table, NEW t
  PROVE  RowsAfter(table, t) \subseteq DOMAIN DBRows
<1>1. DOMAIN DBRows = 1..Len(DBRows) /\ Len(DBRows) \in Nat /\ Loaded \in Nat
  BY ServerAssumption
<1> QED BY <1>1 DEF RowsAfter

LEMMA ServingInit == Init => Serving
<1> SUFFICES ASSUME Init PROVE Serving
  OBVIOUS
<1>1. Control
  <2>1. inserted \in Loaded..Len(DBRows)
    BY ServerAssumption DEF Init
  <2>2. market_load_time \in Nat
    BY <2>1, RowsType, LatestType DEF Init
  <2> QED BY <2>1, <2>2 DEF Init, Control, Places
<1>2. \A S : <<>> \in Seq(S) /\ Len(<<>>) = 0
  OBVIOUS
<1>3. ToSet(<<>>) = {} /\ IsInjective(<<>>)
  BY DEF ToSet, IsInjective
<1>4. LockQueue /\ LockHeld
  BY <1>2, <1>3 DEF Init, LockQueue, LockHeld
<1>5. Channel
  BY <1>2, <1>3, ServerAssumption DEF Init, Channel
<1>6. Honest
  BY <1>3, Sorts DEF Init, Honest, Unsent
<1> QED BY <1>1, <1>4, <1>5, <1>6 DEF Serving

(***************************************************************************)
(* Entering and leaving the two queues.                                    *)
(***************************************************************************)
LEMMA QueueUp ==
  ASSUME LockQueue, NEW x \in Users, x \notin ToSet(waiting), waiting' = Append(waiting, x)
  PROVE  /\ waiting' \in Seq(Users) /\ IsInjective(waiting')
         /\ ToSet(waiting') = ToSet(waiting) \cup {x}
<1>1. waiting \in Seq(Users) /\ IsInjective(waiting)
  BY DEF LockQueue
<1> QED BY <1>1, AppendElements, AppendInjects

LEMMA EnterLock ==
  ASSUME LockQueue, NEW x \in Users, Enters(x), waiting' = Tail(waiting)
  PROVE  /\ waiting' \in Seq(Users) /\ IsInjective(waiting')
         /\ ToSet(waiting') = ToSet(waiting) \ {x} /\ x \in ToSet(waiting)
<1>1. /\ waiting \in Seq(Users) /\ IsInjective(waiting)
      /\ waiting # <<>> /\ x = Head(waiting)
  BY DEF LockQueue, Enters
<1>2. Tail(waiting) \in Seq(Users)
  BY <1>1, TailElements
<1> QED BY <1>1, <1>2, TailInjects

LEMMA InsertRowServes == ASSUME Serving, InsertRow PROVE Serving'
<1> USE DEF InsertRow, Serving, lockVars, dispatchVars, cfgVars, stateVars, ghostVars
<1>1. Control'
  BY ServerAssumption DEF Control
<1>2. LockQueue' /\ LockHeld'
  BY DEF LockQueue, LockHeld
<1>3. Channel' /\ Honest'
  BY DEF Channel, Honest
<1> QED BY <1>1, <1>2, <1>3

LEMMA ArriveServes ==
  ASSUME Serving, NEW r \in Requests, Arrive(r)
  PROVE  Serving'
<1> USE DEF Serving, lockVars, dispatchVars, cfgVars, stateVars, ghostVars
<1>1. /\ at[r] = "idle" /\ at \in [Requests -> Places]
      /\ at' = [at EXCEPT ![r] = IF Refused(r) THEN "refused"
                                 ELSE IF NeedsLock(r) THEN "lock" ELSE "send"]
      /\ r \notin ToSet(waiting) /\ r \in Users
  BY DEF Arrive, Control, LockQueue, Users
<1>2. Control'
  BY <1>1 DEF Arrive, Control, Places
<1>3. LockQueue'
  <2>1. CASE ~Refused(r) /\ NeedsLock(r)
    <3>1. /\ waiting' \in Seq(Users) /\ IsInjective(waiting')
          /\ ToSet(waiting') = ToSet(waiting) \cup {r}
      BY <1>1, <2>1, QueueUp DEF Arrive
    <3>2. at' = [at EXCEPT ![r] = "lock"] /\ pc' = pc
      BY <1>1, <2>1 DEF Arrive
    <3> QED BY <1>1, <3>1, <3>2, Sorts DEF LockQueue
  <2>2. CASE Refused(r) \/ ~NeedsLock(r)
    BY <1>1, <2>2 DEF LockQueue, Arrive
  <2> QED BY <2>1, <2>2
<1>4. LockHeld'
  BY <1>1 DEF LockHeld, Arrive
<1>5. Channel'
  BY DEF Channel, Arrive
<1>6. Honest'
  BY <1>1, Sorts DEF Honest, Unsent, Arrive
<1> QED BY <1>2, <1>3, <1>4, <1>5, <1>6

LEMMA QueryServes ==
  ASSUME Serving, NEW r \in Requests, Query(r)
  PROVE  Serving'
<1> USE DEF Serving, lockVars, dispatchVars, cfgVars, stateVars, ghostVars
<1>1. /\ at[r] = "lock" /\ at \in [Requests -> Places] /\ at' = [at EXCEPT ![r] = "answered"]
      /\ r \in Queries /\ r \in Users
  BY DEF Query, Control, Users
<1>2. Control'
  BY <1>1 DEF Query, Control, Places
<1>3. LockQueue'
  <2>1. /\ waiting' \in Seq(Users) /\ IsInjective(waiting')
        /\ ToSet(waiting') = ToSet(waiting) \ {r}
    BY <1>1, EnterLock DEF Query
  <2> QED BY <1>1, <2>1, Sorts DEF LockQueue, Query
<1>4. LockHeld'
  BY <1>1 DEF LockHeld, Query
<1>5. Channel'
  BY DEF Channel, Query
<1>6. Honest'
  BY <1>1, Sorts DEF Honest, Unsent, Query
<1> QED BY <1>2, <1>3, <1>4, <1>5, <1>6

LEMMA CheckOrderServes ==
  ASSUME Serving, NEW r \in Requests, CheckOrder(r)
  PROVE  Serving'
<1> USE DEF Serving, lockVars, dispatchVars, cfgVars, stateVars, ghostVars
<1>1. /\ at[r] = "lock" /\ at \in [Requests -> Places]
      /\ at' = [at EXCEPT ![r] = IF Passes(r) THEN "send" ELSE "refused"]
      /\ r \in Orders /\ r \in Users
  BY DEF CheckOrder, Control, Users
<1>2. Control'
  BY <1>1 DEF CheckOrder, Control, Places
<1>3. LockQueue'
  <2>1. /\ waiting' \in Seq(Users) /\ IsInjective(waiting')
        /\ ToSet(waiting') = ToSet(waiting) \ {r}
    BY <1>1, EnterLock DEF CheckOrder
  <2> QED BY <1>1, <2>1, Sorts DEF LockQueue, CheckOrder
<1>4. LockHeld'
  BY <1>1 DEF LockHeld, CheckOrder
<1>5. Channel'
  BY DEF Channel, CheckOrder
<1>6. Honest'
  BY <1>1, Sorts DEF Honest, Unsent, CheckOrder
<1> QED BY <1>2, <1>3, <1>4, <1>5, <1>6

LEMMA SendServes ==
  ASSUME Serving, NEW r \in Requests, Send(r)
  PROVE  Serving'
<1> USE DEF Serving, lockVars, dispatchVars, cfgVars, stateVars, ghostVars
<1>1. /\ at[r] = "send" /\ at \in [Requests -> Places] /\ r \in Writes
      /\ at' = [at EXCEPT ![r] = IF closed THEN "refused" ELSE "wait"]
      /\ r \notin ToSet(queue) \cup {cur} \cup ToSet(executed)
  BY DEF Send, Control, Honest, Unsent, Accepted
<1>2. Control'
  BY <1>1 DEF Send, Control, Places
<1>3. LockQueue' /\ LockHeld'
  BY <1>1 DEF LockQueue, LockHeld, Send
<1>4. CASE closed
  <2>1. Channel'
    BY <1>4 DEF Channel, Send
  <2>2. Honest'
    BY <1>1, <1>4 DEF Honest, Unsent, Send
  <2> QED BY <1>2, <1>3, <2>1, <2>2
<1>5. CASE ~closed
  <2>1. /\ queue' \in Seq(Writes) /\ IsInjective(queue') /\ Len(queue') <= ChannelSize
        /\ ToSet(queue') = ToSet(queue) \cup {r}
    <3>1. queue \in Seq(Writes) /\ IsInjective(queue) /\ queue' = Append(queue, r)
      BY <1>5 DEF Send, Channel
    <3>2. Len(Append(queue, r)) = Len(queue) + 1 /\ Len(queue) \in Nat /\ Len(queue) < ChannelSize
      BY <1>1, <1>5, <3>1 DEF Send, HasRoom
    <3>3. Len(queue') <= ChannelSize
      BY <3>1, <3>2, ServerAssumption
    <3> QED BY <1>1, <3>1, <3>3, AppendElements, AppendInjects
  <2>2. Channel'
    BY <1>1, <2>1 DEF Channel, Send
  <2>3. Honest'
    BY <1>1, <1>5, <2>1 DEF Honest, Unsent, Send
  <2> QED BY <1>2, <1>3, <2>2, <2>3
<1> QED BY <1>4, <1>5

LEMMA UnreachServes ==
  ASSUME Serving, NEW r \in Requests, Unreach(r)
  PROVE  Serving'
<1> USE DEF Serving, lockVars, dispatchVars, cfgVars, stateVars, ghostVars
<1>1. /\ at[r] = "wait" /\ at \in [Requests -> Places] /\ at' = [at EXCEPT ![r] = "unreach"]
      /\ r \notin ToSet(queue) /\ cur # r
  BY DEF Unreach, Control
<1>2. Control'
  BY <1>1 DEF Unreach, Control, Places
<1>3. LockQueue' /\ LockHeld'
  BY <1>1 DEF LockQueue, LockHeld, Unreach
<1>4. Channel' /\ Honest'
  BY <1>1 DEF Channel, Honest, Unsent, Unreach
<1> QED BY <1>2, <1>3, <1>4

LEMMA ReloadMarketsServes ==
  ASSUME Serving, NEW r \in Requests, ReloadMarkets(r)
  PROVE  Serving'
<1> USE DEF Serving, lockVars, dispatchVars, cfgVars, stateVars, ghostVars
<1>1. /\ at[r] = "lock" /\ at \in [Requests -> Places] /\ at' = [at EXCEPT ![r] = "assets"]
      /\ r \in Reloads /\ r \in Users /\ held = {} /\ held' = {r}
  BY DEF ReloadMarkets, Control, Users, Enters
<1>2. Control'
  <2>1. market_load_time' \in Nat
    BY DEF ReloadMarkets, ResetLoadTime, Control
  <2> QED BY <1>1, <2>1 DEF ReloadMarkets, Control, Places
<1>3. LockQueue'
  <2>1. /\ waiting' \in Seq(Users) /\ IsInjective(waiting')
        /\ ToSet(waiting') = ToSet(waiting) \ {r}
    BY <1>1, EnterLock DEF ReloadMarkets
  <2> QED BY <1>1, <2>1, Sorts DEF LockQueue, ReloadMarkets
<1>4. LockHeld'
  BY <1>1 DEF LockHeld
<1>5. Channel'
  BY DEF Channel, ReloadMarkets
<1>6. Honest'
  BY <1>1, Sorts DEF Honest, Unsent, ReloadMarkets
<1> QED BY <1>2, <1>3, <1>4, <1>5, <1>6

LEMMA LoadAssetsServes ==
  ASSUME Serving, NEW r \in Requests, LoadAssets(r)
  PROVE  Serving'
<1> USE DEF Serving, lockVars, dispatchVars, cfgVars, stateVars, ghostVars
<1>1. /\ at[r] = "assets" /\ at \in [Requests -> Places] /\ at' = [at EXCEPT ![r] = "markets"]
  BY DEF LoadAssets, Control
<1>2. Control'
  BY <1>1 DEF LoadAssets, Control, Places
<1>3. LockQueue' /\ LockHeld'
  BY <1>1 DEF LockQueue, LockHeld, LoadAssets
<1>4. Channel' /\ Honest'
  BY <1>1 DEF Channel, Honest, Unsent, LoadAssets
<1> QED BY <1>2, <1>3, <1>4

\* A reload gives the lock back, with or without success.
LEMMA ReleaseServes ==
  ASSUME Serving, NEW r \in Requests, NEW how \in {"answered", "refused", "gone"},
         at[r] \in {"assets", "markets"}, Release(r, how), market_load_time' \in Nat,
         UNCHANGED <<waiting, dispatchVars, main, inserted, stateVars>>
  PROVE  Serving'
<1> USE DEF Serving, dispatchVars, stateVars
<1>1. /\ at \in [Requests -> Places] /\ at' = [at EXCEPT ![r] = how] /\ held' = {}
      /\ r \in held
  BY DEF Release, Control, LockHeld
<1>2. Control'
  BY <1>1 DEF Control, Places
<1>3. LockQueue'
  BY <1>1 DEF LockQueue
<1>4. LockHeld'
  BY <1>1 DEF LockHeld
<1>5. Channel'
  BY DEF Channel
<1>6. r \in Reloads /\ r \notin Writes /\ r \notin ToSet(queue) \cup {cur} \cup ToSet(executed)
  <2>1. r \in Reloads /\ r \notin Writes
    BY <1>1, Sorts DEF LockHeld
  <2>2. queue \in Seq(Writes) /\ executed \in Seq(Writes) /\ cur \in Writes \cup {Dispatcher}
    BY DEF Channel
  <2>3. ToSet(queue) \subseteq Writes /\ ToSet(executed) \subseteq Writes
    BY <2>2 DEF ToSet
  <2> QED BY <2>1, <2>2, <2>3, Sorts
<1>7. Honest'
  BY <1>1, <1>6 DEF Honest, Unsent
<1> QED BY <1>2, <1>3, <1>4, <1>5, <1>7

LEMMA LoadMarketsServes ==
  ASSUME Serving, NEW r \in Requests, LoadMarkets(r)
  PROVE  Serving'
<1>1. market_load_time' \in Nat
  <2>1. inserted \in Loaded..Len(DBRows) /\ market_load_time \in Nat
    BY DEF Serving, Control
  <2> QED BY <2>1, RowsType, LatestType DEF LoadMarkets
<1> QED BY <1>1, ReleaseServes DEF LoadMarkets, dispatchVars, stateVars

LEMMA LoadStopsServes ==
  ASSUME Serving, NEW r \in Requests, NEW k \in 0..Len(DBRows), NEW how \in {"refused", "gone"},
         LoadStops(r, k, how)
  PROVE  Serving'
<1>1. market_load_time' \in Nat
  <2> DEFINE rows == IF at[r] = "assets" THEN {} ELSE RowsAfter("market", market_load_time)
  <2>1. inserted \in Loaded..Len(DBRows) /\ market_load_time \in Nat
    BY DEF Serving, Control
  <2>2. {i \in rows : i <= k} \subseteq DOMAIN DBRows
    BY <2>1, RowsType
  <2>3. market_load_time' = Latest({i \in rows : i <= k}, market_load_time)
    BY DEF LoadStops
  <2> QED BY <2>1, <2>2, <2>3, LatestType
<1> QED BY <1>1, ReleaseServes DEF LoadStops, dispatchVars, stateVars

LEMMA ClientGoneServes ==
  ASSUME Serving, NEW r \in Requests, ClientGone(r)
  PROVE  Serving'
<1> USE DEF Serving, lockVars, dispatchVars, cfgVars, stateVars, ghostVars
<1>1. /\ at[r] \in {"lock", "send", "wait"} /\ at \in [Requests -> Places]
      /\ at' = [at EXCEPT ![r] = "gone"]
  BY DEF ClientGone, Control, InFlight, LockHeld
<1>2. Control'
  BY <1>1 DEF ClientGone, Control, Places
<1>3. LockQueue'
  <2>1. CASE at[r] = "lock"
    <3>1. PICK i \in DOMAIN waiting : waiting[i] = r /\ waiting' = RemoveAt(waiting, i)
      BY <2>1 DEF ClientGone
    <3>2. waiting \in Seq(Users) /\ IsInjective(waiting)
      BY DEF LockQueue
    <3>3. /\ waiting' \in Seq(Users) /\ IsInjective(waiting')
          /\ ToSet(waiting') = ToSet(waiting) \ {r}
      BY <3>1, <3>2, RemoveInjects
    <3> QED BY <1>1, <3>3, Sorts DEF LockQueue, ClientGone
  <2>2. CASE at[r] # "lock"
    BY <1>1, <2>2 DEF LockQueue, ClientGone
  <2> QED BY <2>1, <2>2
<1>4. LockHeld'
  BY <1>1 DEF LockHeld, ClientGone
<1>5. Channel' /\ Honest'
  BY <1>1 DEF Channel, Honest, Unsent, ClientGone
<1> QED BY <1>2, <1>3, <1>4, <1>5

LEMMA TakeTaskServes == ASSUME Serving, TakeTask PROVE Serving'
<1> USE DEF Serving, lockVars, dispatchVars, cfgVars, stateVars, ghostVars
<1>1. /\ pc \in {"select", "drain"} /\ pc' = "task" /\ cur = Dispatcher
      /\ Dispatcher \in Users /\ Dispatcher \notin ToSet(waiting)
  BY DEF TakeTask, Users, LockQueue, Channel
<1>2. Control'
  BY <1>1 DEF TakeTask, Control
<1>3. LockQueue'
  <2>1. /\ waiting' \in Seq(Users) /\ IsInjective(waiting')
        /\ ToSet(waiting') = ToSet(waiting) \cup {Dispatcher}
    BY <1>1, QueueUp DEF TakeTask
  <2> QED BY <1>1, <2>1, Sorts DEF LockQueue, TakeTask
<1>4. LockHeld'
  BY DEF LockHeld, TakeTask
<1>5. /\ queue' \in Seq(Writes) /\ IsInjective(queue') /\ Len(queue') <= ChannelSize
      /\ cur' \in ToSet(queue) /\ cur' \in Writes /\ ToSet(queue') = ToSet(queue) \ {cur'}
  <2>1. /\ queue \in Seq(Writes) /\ queue # <<>> /\ IsInjective(queue)
        /\ Len(queue) <= ChannelSize /\ queue' = Tail(queue) /\ cur' = Head(queue)
    BY DEF TakeTask, Rest, Channel
  <2>2. /\ Tail(queue) \in Seq(Writes) /\ Head(queue) \in Writes /\ Len(queue) \in Nat
        /\ Len(Tail(queue)) = Len(queue) - 1
    BY <2>1, TailElements
  <2>3. Len(queue') <= ChannelSize
    BY <2>1, <2>2, ServerAssumption
  <2> QED BY <2>1, <2>2, <2>3, TailInjects
<1>6. Channel'
  BY <1>1, <1>5, Sorts DEF Channel, TakeTask
<1>7. Honest'
  BY <1>1, <1>5, Sorts DEF Honest, Unsent, TakeTask
<1> QED BY <1>2, <1>3, <1>4, <1>6, <1>7

\* The handler of the operation that is to run waits for it, or has gone away.
LEMMA CurrentTask ==
  ASSUME Serving, NEW r \in ToSet(queue) \cup ({cur} \ {Dispatcher})
  PROVE  r \in Writes /\ at[r] \in {"wait", "gone"}
<1> USE DEF Serving
<1>1. r \in Writes
  <2>1. queue \in Seq(Writes) /\ cur \in Writes \cup {Dispatcher}
    BY DEF Channel
  <2>2. ToSet(queue) \subseteq Writes
    BY <2>1 DEF ToSet
  <2> QED BY <2>1, <2>2
<1>2. r \in Requests /\ r \notin Reloads /\ at[r] \in Places
  BY <1>1, Sorts DEF Control
<1>3. r \notin ToSet(executed)
  BY DEF Channel
<1>4. at[r] \notin Unsent /\ at[r] # "answered" /\ at[r] \notin {"assets", "markets"}
  BY <1>1, <1>2, <1>3 DEF Honest, LockHeld
<1> QED BY <1>1, <1>2, <1>4 DEF Places, Unsent

LEMMA RunTaskServes == ASSUME Serving, RunTask PROVE Serving'
<1> USE DEF Serving, lockVars, dispatchVars, cfgVars, stateVars, ghostVars
<1>1. /\ pc = "task" /\ pc' \in {"drain", "select"} /\ cur # Dispatcher /\ cur' = Dispatcher
      /\ Dispatcher \in Users
  BY DEF RunTask, Users, Channel
<1>2. cur \in Writes /\ cur \in Requests /\ at[cur] \in {"wait", "gone"}
  BY <1>1, CurrentTask, Sorts
<1>3. /\ at \in [Requests -> Places]
      /\ at' = [at EXCEPT ![cur] = IF at[cur] = "wait" THEN "answered" ELSE at[cur]]
  BY DEF Control, RunTask
<1>4. Control'
  BY <1>1, <1>2, <1>3 DEF RunTask, Control, Places
<1>5. LockQueue'
  <2>1. /\ waiting' \in Seq(Users) /\ IsInjective(waiting')
        /\ ToSet(waiting') = ToSet(waiting) \ {Dispatcher}
    BY <1>1, EnterLock DEF RunTask
  <2> QED BY <1>1, <1>2, <1>3, <2>1, Sorts DEF LockQueue
<1>6. LockHeld'
  BY <1>2, <1>3 DEF LockHeld, RunTask
<1>7. /\ executed' \in Seq(Writes) /\ IsInjective(executed')
      /\ ToSet(executed') = ToSet(executed) \cup {cur}
  <2>1. executed \in Seq(Writes) /\ IsInjective(executed) /\ cur \notin ToSet(executed)
    BY DEF Channel
  <2>2. executed' = Append(executed, cur)
    BY DEF RunTask
  <2> QED BY <1>2, <2>1, <2>2, AppendElements, AppendInjects
<1>8. Channel'
  <2>1. queue' = queue /\ cur \notin ToSet(queue) /\ ToSet(queue) \cap ToSet(executed) = {}
    BY DEF Channel, RunTask
  <2>2. Dispatcher \notin Writes
    BY Sorts
  <2>3. ToSet(queue) \subseteq Writes /\ ToSet(executed') \subseteq Writes
    BY <1>7 DEF ToSet, Channel
  <2> QED BY <1>1, <1>7, <2>1, <2>2, <2>3 DEF Channel
<1>9. Honest'
  BY <1>1, <1>2, <1>3, <1>7, Sorts DEF Honest, Unsent, RunTask
<1> QED BY <1>4, <1>5, <1>6, <1>8, <1>9

LEMMA TaskPanicsServes == ASSUME Serving, TaskPanics PROVE Serving'
<1> USE DEF Serving, lockVars, dispatchVars, cfgVars, stateVars, ghostVars
<1>1. /\ pc = "task" /\ pc' = "dead" /\ cur' = Dispatcher /\ Dispatcher \in Users
  BY DEF TaskPanics, Users
<1>2. Control'
  BY <1>1 DEF TaskPanics, Control
<1>3. LockQueue'
  <2>1. /\ waiting' \in Seq(Users) /\ IsInjective(waiting')
        /\ ToSet(waiting') = ToSet(waiting) \ {Dispatcher}
    BY <1>1, EnterLock DEF TaskPanics
  <2> QED BY <1>1, <2>1, Sorts DEF LockQueue, TaskPanics
<1>4. LockHeld'
  BY DEF LockHeld, TaskPanics
<1>5. queue' = <<>> /\ ToSet(<<>>) = {} /\ IsInjective(<<>>) /\ Len(<<>>) = 0
  BY DEF TaskPanics, ToSet, IsInjective
<1>6. Dispatcher \notin ToSet(executed) /\ executed' = executed
  <2>1. executed \in Seq(Writes)
    BY DEF Channel
  <2>2. ToSet(executed) \subseteq Writes
    BY <2>1 DEF ToSet
  <2> QED BY <2>2, Sorts DEF TaskPanics
<1>7. Channel'
  <2>1. <<>> \in Seq(Writes) /\ 0 <= ChannelSize
    BY ServerAssumption
  <2>2. executed \in Seq(Writes) /\ IsInjective(executed)
    BY DEF Channel
  <2> QED BY <1>1, <1>5, <1>6, <2>1, <2>2 DEF Channel
<1>8. Honest'
  BY <1>1, <1>5, <1>6, Sorts DEF Honest, Unsent, TaskPanics
<1> QED BY <1>2, <1>3, <1>4, <1>7, <1>8

LEMMA PersistTickServes == ASSUME Serving, PersistTick PROVE Serving'
<1> USE DEF Serving, lockVars, dispatchVars, cfgVars, stateVars, ghostVars
<1>1. /\ pc = "select" /\ pc' = "persist"
      /\ Dispatcher \in Users /\ Dispatcher \notin ToSet(waiting)
  BY DEF PersistTick, Users, LockQueue
<1>2. LockQueue'
  <2>1. /\ waiting' \in Seq(Users) /\ IsInjective(waiting')
        /\ ToSet(waiting') = ToSet(waiting) \cup {Dispatcher}
    BY <1>1, QueueUp DEF PersistTick
  <2> QED BY <1>1, <2>1, Sorts DEF LockQueue, PersistTick
<1>3. Control' /\ LockHeld'
  BY <1>1 DEF Control, LockHeld, PersistTick
<1>4. Channel' /\ Honest'
  BY <1>1 DEF Channel, Honest, PersistTick
<1> QED BY <1>2, <1>3, <1>4

LEMMA ForkServes == ASSUME Serving, Fork PROVE Serving'
<1> USE DEF Serving, lockVars, dispatchVars, cfgVars, stateVars, ghostVars
<1>1. pc = "persist" /\ pc' = "select" /\ Dispatcher \in Users
  BY DEF Fork, Users
<1>2. LockQueue'
  <2>1. /\ waiting' \in Seq(Users) /\ IsInjective(waiting')
        /\ ToSet(waiting') = ToSet(waiting) \ {Dispatcher}
    BY <1>1, EnterLock DEF Fork
  <2> QED BY <1>1, <2>1, Sorts DEF LockQueue, Fork
<1>3. Control' /\ LockHeld'
  BY <1>1 DEF Control, LockHeld, Fork
<1>4. Channel' /\ Honest'
  BY <1>1 DEF Channel, Honest, Fork
<1> QED BY <1>2, <1>3, <1>4

\* The steps of the shutdown move nothing but the dispatcher and main.
LEMMA ShutdownServes ==
  ASSUME Serving, OnClose \/ DrainEnds \/ CtrlC \/ Leave \/ Ended \/ UNCHANGED vars
  PROVE  Serving'
<1> USE DEF Serving, vars, lockVars, dispatchVars, cfgVars, stateVars, ghostVars
<1>1. /\ UNCHANGED <<at, lockVars, queue, cur, cfgVars, inserted, stateVars>>
      /\ pc' = pc \/ (pc = "select" /\ pc' = "drain") \/ (pc = "drain" /\ pc' = "exited")
      /\ main' \in {main, "shutting", "leaving", "panicked", "ended"}
  <2>1. CASE OnClose
    BY <2>1 DEF OnClose
  <2>2. CASE DrainEnds
    BY <2>2 DEF DrainEnds
  <2>3. CASE CtrlC \/ Leave \/ Ended
    BY <2>3 DEF CtrlC, Leave, Ended
  <2>4. CASE UNCHANGED vars
    BY <2>4
  <2> QED BY <2>1, <2>2, <2>3, <2>4
<1>2. Control'
  <2>1. closed' \in BOOLEAN
    BY DEF Control, OnClose, DrainEnds, CtrlC, Leave, Ended
  <2> QED BY <1>1, <2>1 DEF Control
<1>3. LockQueue' /\ LockHeld'
  BY <1>1 DEF LockQueue, LockHeld
<1>4. Channel' /\ Honest'
  BY <1>1 DEF Channel, Honest
<1> QED BY <1>2, <1>3, <1>4

LEMMA ServingNext == Serving /\ [Next]_vars => Serving'
<1> SUFFICES ASSUME Serving, [Next]_vars PROVE Serving'
  OBVIOUS
<1>1. CASE InsertRow
  BY <1>1, InsertRowServes
<1>2. CASE \E r \in Requests : Arrive(r) \/ Query(r) \/ CheckOrder(r) \/ Send(r) \/ Unreach(r)
  BY <1>2, ArriveServes, QueryServes, CheckOrderServes, SendServes, UnreachServes
<1>3. CASE \E r \in Requests : ReloadMarkets(r) \/ LoadAssets(r) \/ LoadMarkets(r)
  BY <1>3, ReloadMarketsServes, LoadAssetsServes, LoadMarketsServes
<1>4. CASE \E r \in Requests, k \in 0..Len(DBRows), how \in {"refused", "gone"} :
              LoadStops(r, k, how)
  BY <1>4, LoadStopsServes
<1>5. CASE \E r \in Requests : ClientGone(r)
  BY <1>5, ClientGoneServes
<1>6. CASE TakeTask \/ RunTask \/ TaskPanics
  BY <1>6, TakeTaskServes, RunTaskServes, TaskPanicsServes
<1>7. CASE PersistTick \/ Fork
  BY <1>7, PersistTickServes, ForkServes
<1>8. CASE OnClose \/ DrainEnds \/ CtrlC \/ Leave \/ Ended \/ UNCHANGED vars
  BY <1>8, ShutdownServes
<1> QED BY <1>1, <1>2, <1>3, <1>4, <1>5, <1>6, <1>7, <1>8 DEF Next

(***************************************************************************)
(* Whoever waits for the lock is in its queue once, and only a reload      *)
(* holds it across a step; an operation is in the channel, with the        *)
(* dispatcher or has run, never two of them, and where its handler is      *)
(* tells which (the lock and the channel of GrpcHandler::new, the          *)
(* handlers, and market_reload).                                           *)
(***************************************************************************)
THEOREM ServingInvariant == Spec => []Serving
BY ServingInit, ServingNext, PTL DEF Spec

(***************************************************************************)
(* The server's state is well formed whatever the handlers do: nobody is   *)
(* twice in the queue of the lock, at most one reload holds it, and the    *)
(* channel keeps its size (server.rs, GrpcHandler::new and its async_task  *)
(* loop).                                                                  *)
(***************************************************************************)
THEOREM ServerTypes == Spec => []TypeOK
<1>1. ASSUME Serving PROVE TypeOK
  <2> USE <1>1 DEF Serving
  <2>1. ToSet(waiting) \subseteq Requests \cup {Dispatcher} /\ IsInjective(waiting)
    <3>1. waiting \in Seq(Users) /\ IsInjective(waiting)
      BY DEF LockQueue
    <3> QED BY <3>1 DEF ToSet, Users
  <2>2. held \subseteq Requests /\ Cardinality(held) <= 1
    <3>1. held \subseteq Requests /\ \A r, s \in held : r = s
      BY Sorts DEF LockHeld
    <3>2. CASE held = {}
      BY <3>2, FS_EmptySet
    <3>3. CASE held # {}
      <4>1. PICK r : held = {r}
        BY <3>1, <3>3
      <4> QED BY <3>1, <4>1, FS_Singleton
    <3> QED BY <3>2, <3>3
  <2>3. ToSet(queue) \subseteq Writes /\ ToSet(executed) \subseteq Writes
    <3>1. queue \in Seq(Writes) /\ executed \in Seq(Writes)
      BY DEF Channel
    <3> QED BY <3>1 DEF ToSet
  <2> QED BY <2>1, <2>2, <2>3 DEF TypeOK, Control, Channel, Places
<1> QED BY <1>1, ServingInvariant, PTL

(***************************************************************************)
(* An operation runs at most once, an answered one has run, and one whose  *)
(* client was told that it failed before it ran neither has run nor will:  *)
(* the channel, its closing and the death of the dispatcher lose no truth  *)
(* (server.rs, the handlers' send and rx.await and the dispatcher).        *)
(***************************************************************************)
THEOREM AnswersTrue == Spec => []AnswersAreTrue
<1>1. ASSUME Serving PROVE AnswersAreTrue
  <2> USE <1>1 DEF Serving
  <2>1. IsInjective(executed) /\ executed \in Seq(Writes) /\ queue \in Seq(Writes)
    BY DEF Channel
  <2>2. ToSet(executed \o queue) \subseteq ToSet(executed) \cup ToSet(queue)
    <3>1. DOMAIN (executed \o queue) = 1..Len(executed) + Len(queue)
          /\ Len(executed) \in Nat /\ Len(queue) \in Nat
          /\ DOMAIN executed = 1..Len(executed) /\ DOMAIN queue = 1..Len(queue)
      BY <2>1
    <3>2. ASSUME NEW i \in DOMAIN (executed \o queue)
          PROVE  (executed \o queue)[i] \in ToSet(executed) \cup ToSet(queue)
      <4>1. CASE i <= Len(executed)
        <5>1. (executed \o queue)[i] = executed[i] /\ i \in DOMAIN executed
          BY <2>1, <3>1, <4>1
        <5> QED BY <5>1 DEF ToSet
      <4>2. CASE i > Len(executed)
        <5>1. /\ (executed \o queue)[i] = queue[i - Len(executed)]
              /\ i - Len(executed) \in DOMAIN queue
          BY <2>1, <3>1, <4>2
        <5> QED BY <5>1 DEF ToSet
      <4>3. i <= Len(executed) \/ i > Len(executed)
        BY <3>1
      <4> QED BY <4>1, <4>2, <4>3
    <3> QED BY <3>2 DEF ToSet
  <2>3. ASSUME NEW r \in Writes, at[r] \in {"refused", "unreach"}
        PROVE  r \notin ToSet(executed \o queue)
    <3>1. r \notin ToSet(queue) \cup ToSet(executed)
      BY <2>3, Sorts DEF Honest, Unsent
    <3> QED BY <2>2, <3>1
  <2>4. ASSUME NEW r \in Writes, at[r] = "answered" PROVE r \in ToSet(executed)
    BY <2>4, Sorts DEF Honest
  <2> QED BY <2>1, <2>3, <2>4 DEF AnswersAreTrue
<1> QED BY <1>1, ServingInvariant, PTL

(***************************************************************************)
(* The market of a queued order.                                           *)
(***************************************************************************)
LEMMA MarketsStay ==
  ASSUME Serving, [Next]_vars
  PROVE  markets \subseteq markets'
BY DEF Next, vars, InsertRow, Arrive, Query, CheckOrder, Send, Unreach, ReloadMarkets, KeptMarkets,
       LoadAssets, LoadMarkets, WithMarkets, LoadStops, ClientGone, TakeTask, RunTask, TaskPanics,
       PersistTick, Fork, OnClose, DrainEnds, CtrlC, Leave, Ended, cfgVars

\* The orders whose market has been looked up and that have not run.
Bound(r) == at[r] \in {"send", "wait"} \/ r \in ToSet(queue) \cup {cur}

LEMMA TasksCome ==
  ASSUME Serving, [Next]_vars
  PROVE  \A r \in ToSet(queue') \cup {cur'} :
           r = Dispatcher \/ r \in ToSet(queue) \cup {cur} \/ at[r] = "send"
<1>1. CASE UNCHANGED <<queue, cur>>
  BY <1>1
<1>2. ASSUME NEW r \in Requests, Send(r)
      PROVE  ToSet(queue') \subseteq ToSet(queue) \cup {r} /\ at[r] = "send" /\ cur' = cur
  <2>1. queue \in Seq(Writes) /\ r \in Writes /\ at[r] = "send" /\ cur' = cur
    BY <1>2 DEF Serving, Channel, Honest, Send
  <2>2. ToSet(Append(queue, r)) = ToSet(queue) \cup {r}
    BY <2>1, AppendElements
  <2> QED BY <1>2, <2>1, <2>2 DEF Send
<1>3. CASE TakeTask
  <2>1. queue \in Seq(Writes) /\ queue # <<>>
    BY <1>3 DEF TakeTask, Serving, Channel
  <2>2. ToSet(queue) = {Head(queue)} \cup ToSet(Tail(queue))
    BY <2>1, TailElements
  <2> QED BY <1>3, <2>2 DEF TakeTask, Rest
<1>4. CASE RunTask
  BY <1>4 DEF RunTask
<1>5. CASE TaskPanics
  BY <1>5 DEF TaskPanics, ToSet
<1>6. \/ UNCHANGED <<queue, cur>>
      \/ TakeTask \/ RunTask \/ TaskPanics
      \/ \E r \in Requests : Send(r)
  BY DEF Next, vars, InsertRow, Arrive, Query, CheckOrder, Unreach, ReloadMarkets, LoadAssets,
         LoadMarkets, LoadStops, ClientGone, PersistTick, Fork, OnClose, DrainEnds, CtrlC, Leave,
         Ended, dispatchVars
<1> QED BY <1>1, <1>2, <1>3, <1>4, <1>5, <1>6

(***************************************************************************)
(* What a step may do to the place of a request: what brought it there.    *)
(***************************************************************************)
Came(r) ==
  \/ at'[r] = at[r]
  \/ Arrive(r)
  \/ Query(r)
  \/ CheckOrder(r)
  \/ Send(r)
  \/ ReloadMarkets(r)
  \/ LoadAssets(r)
  \/ LoadMarkets(r)
  \/ at'[r] \in {"unreach", "refused", "gone"} /\ InFlight(r)
  \/ RunTask /\ r = cur /\ at[r] = "wait" /\ at'[r] = "answered"

LEMMA Comings ==
  ASSUME Serving, [Next]_vars, NEW r \in Requests
  PROVE  Came(r)
<1>1. at \in [Requests -> Places]
  BY DEF Serving, Control
<1>2. CASE \E s \in Requests :
              \/ Arrive(s) \/ Query(s) \/ CheckOrder(s) \/ Send(s)
              \/ ReloadMarkets(s) \/ LoadAssets(s)
  <2>1. PICK s \in Requests : \/ Arrive(s) \/ Query(s) \/ CheckOrder(s) \/ Send(s)
                              \/ ReloadMarkets(s) \/ LoadAssets(s)
    BY <1>2
  <2>2. CASE r = s
    BY <2>1, <2>2 DEF Came
  <2>3. CASE r # s
    BY <1>1, <2>1, <2>3 DEF Came, Arrive, Query, CheckOrder, Send, ReloadMarkets, LoadAssets
  <2> QED BY <2>2, <2>3
<1>3. CASE \E s \in Requests : LoadMarkets(s)
  BY <1>1, <1>3 DEF Came, LoadMarkets, Release
<1>4. CASE \E s \in Requests : Unreach(s) \/ ClientGone(s)
  BY <1>1, <1>4 DEF Came, Unreach, ClientGone, InFlight
<1>5. CASE \E s \in Requests, k \in 0..Len(DBRows), how \in {"refused", "gone"} :
              LoadStops(s, k, how)
  BY <1>1, <1>5 DEF Came, LoadStops, Release, InFlight
<1>6. CASE RunTask
  <2>1. at' = [at EXCEPT ![cur] = IF at[cur] = "wait" THEN "answered" ELSE at[cur]]
    BY <1>6 DEF RunTask
  <2> QED BY <1>1, <1>6, <2>1 DEF Came
<1>7. CASE \/ InsertRow \/ TakeTask \/ TaskPanics \/ PersistTick \/ Fork \/ OnClose \/ DrainEnds
           \/ CtrlC \/ Leave \/ Ended \/ UNCHANGED vars
  BY <1>7 DEF Came, InsertRow, TakeTask, TaskPanics, PersistTick, Fork, OnClose, DrainEnds, CtrlC,
              Leave, Ended, vars
<1> QED BY <1>2, <1>3, <1>4, <1>5, <1>6, <1>7 DEF Next

(***************************************************************************)
(* Between the look at the market, under the read lock, and the operation  *)
(* under the write lock any number of reloads may run; none takes a market *)
(* away (server.rs, order_put; controller.rs, market_reload).              *)
(***************************************************************************)
THEOREM OrderFinds == Spec => []OrderFindsMarket
<1>1. Init => OrderFindsMarket
  <2> SUFFICES ASSUME Init, NEW r \in Orders PROVE ~Bound(r)
    BY DEF OrderFindsMarket, Bound
  <2>1. r \in Requests /\ r # Dispatcher
    BY Sorts
  <2>2. ToSet(<<>>) = {}
    BY DEF ToSet
  <2> QED BY <2>1, <2>2 DEF Init, Bound
<1>2. ASSUME Serving, OrderFindsMarket, [Next]_vars PROVE OrderFindsMarket'
  <2>1. ASSUME NEW r \in Orders,
               at'[r] \in {"send", "wait"} \/ r \in ToSet(queue') \cup {cur'}
        PROVE  Request[r].market \in markets'
    <3>1. r \in Requests /\ r # Dispatcher /\ r \in Writes
      BY Sorts
    <3>2. CASE Bound(r)
      BY <1>2, <3>2, MarketsStay DEF OrderFindsMarket, Bound
    <3>3. CASE ~Bound(r)
      <4>1. at'[r] \in {"send", "wait"}
        BY <1>2, <2>1, <3>1, <3>3, TasksCome DEF Bound
      <4>2. Came(r) /\ at \in [Requests -> Places]
        BY <1>2, <3>1, Comings DEF Serving, Control
      <4>3. CheckOrder(r) /\ Passes(r)
        <5>1. ~Arrive(r)
          BY <3>1, <4>1, <4>2 DEF Arrive, NeedsLock
        <5>2. r \notin Queries /\ r \notin Reloads
          BY <3>1, Sorts
        <5>3. ~Query(r) /\ ~ReloadMarkets(r)
          BY <5>2 DEF Query, ReloadMarkets
        <5>4. ~Send(r)
          BY <3>3 DEF Send, Bound
        <5>5. ~LoadAssets(r) /\ ~LoadMarkets(r)
          BY <1>2, <3>1, <5>2 DEF LoadAssets, LoadMarkets, Serving, LockHeld
        <5>6. CheckOrder(r)
          BY <3>3, <4>1, <4>2, <5>1, <5>3, <5>4, <5>5 DEF Came, Bound
        <5> QED BY <3>1, <4>1, <4>2, <5>6 DEF CheckOrder
      <4> QED BY <1>2, <4>3, MarketsStay DEF Passes
    <3> QED BY <3>2, <3>3
  <2> QED BY <2>1 DEF OrderFindsMarket
<1> QED BY <1>1, <1>2, ServingInvariant, PTL DEF Spec

(***************************************************************************)
(* The shutdown.  Once serve_with_shutdown has returned nobody is in       *)
(* flight, and nobody new arrives.                                         *)
(***************************************************************************)
Drained == main \in {"leaving", "ended"} => Quiet

LEMMA DrainedNext == ASSUME Serving, Drained, [Next]_vars PROVE Drained'
<1> SUFFICES ASSUME main' \in {"leaving", "ended"}, NEW r \in Requests PROVE ~InFlight(r)'
  BY DEF Drained, Quiet
<1>1. CASE Leave
  BY <1>1 DEF Leave, Quiet, InFlight
<1>2. CASE ~Leave
  <2>1. main \in {"leaving", "ended"}
    BY <1>2 DEF Next, vars, InsertRow, Arrive, Query, CheckOrder, Send, Unreach, ReloadMarkets,
         LoadAssets, LoadMarkets, LoadStops, ClientGone, TakeTask, RunTask, TaskPanics,
         PersistTick, Fork, OnClose, DrainEnds, CtrlC, Ended
  <2>2. ~InFlight(r)
    BY <2>1 DEF Drained, Quiet
  <2>3. Came(r)
    BY Comings
  <2>4. at'[r] = at[r]
    BY <2>1, <2>2, <2>3 DEF Came, InFlight, Arrive, Query, CheckOrder, Send, ReloadMarkets,
         LoadAssets, LoadMarkets
  <2> QED BY <2>2, <2>4 DEF InFlight
<1> QED BY <1>1, <1>2

(***************************************************************************)
(* A graceful end leaves no client without an answer, although main does   *)
(* not wait for the dispatcher to run what is left in the channel: only    *)
(* operations whose client has gone away are lost (bin/matchengine.rs;     *)
(* server.rs, ServerLeave::leave).                                         *)
(***************************************************************************)
THEOREM EndsGracefully == Spec => []GracefulEnd
<1>1. Init => Drained
  BY DEF Init, Drained
<1>2. Spec => []Drained
  BY <1>1, DrainedNext, ServingInvariant, PTL DEF Spec
<1>3. ASSUME Serving, Drained PROVE GracefulEnd
  <2> SUFFICES ASSUME main = "ended"
               PROVE  /\ \A r \in Requests : ~InFlight(r)
                      /\ \A r \in ToSet(queue) \cup ({cur} \ {Dispatcher}) : at[r] = "gone"
    BY DEF GracefulEnd
  <2>1. \A r \in Requests : ~InFlight(r)
    BY <1>3 DEF Drained, Quiet
  <2>2. ASSUME NEW r \in ToSet(queue) \cup ({cur} \ {Dispatcher}) PROVE at[r] = "gone"
    <3>1. r \in Requests /\ at[r] \in {"wait", "gone"}
      BY <1>3, <2>2, CurrentTask, Sorts
    <3> QED BY <2>1, <3>1 DEF InFlight
  <2> QED BY <2>1, <2>2
<1> QED BY <1>2, <1>3, ServingInvariant, PTL

(***************************************************************************)
(* An operation that panics halfway ends the dispatcher, and only the      *)
(* dispatcher makes slices: what it has left half changed is never saved   *)
(* (server.rs, the task loop and its timer).                               *)
(***************************************************************************)
THEOREM DamageStaysOut == Spec => DamageNotSaved
<1> DEFINE Dead == damaged => pc = "dead"
<1>1. Init => Dead
  BY DEF Init
<1>2. ASSUME Dead, [Next]_vars PROVE Dead'
  BY <1>2 DEF Next, vars, InsertRow, Arrive, Query, CheckOrder, Send, Unreach, ReloadMarkets,
         LoadAssets, LoadMarkets, LoadStops, ClientGone, TakeTask, RunTask, TaskPanics,
         PersistTick, Fork, OnClose, DrainEnds, CtrlC, Leave, Ended, dispatchVars, stateVars
<1>3. ASSUME Dead, [Next]_vars PROVE [slices' # slices => ~damaged]_vars
  <2>1. slices' = slices \/ Fork
    BY <1>3 DEF Next, vars, InsertRow, Arrive, Query, CheckOrder, Send, Unreach, ReloadMarkets,
         LoadAssets, LoadMarkets, LoadStops, ClientGone, TakeTask, RunTask, TaskPanics,
         PersistTick, OnClose, DrainEnds, CtrlC, Leave, Ended
  <2>2. Fork => ~damaged
    BY <1>3 DEF Fork
  <2> QED BY <2>1, <2>2
<1> QED BY <1>1, <1>2, <1>3, PTL DEF Spec, DamageNotSaved

(***************************************************************************)
(* What was answered before a request was made.  It has run, and it stands *)
(* before the request in the order of execution.                           *)
(***************************************************************************)
Answered ==
  /\ before \in [Requests -> SUBSET Writes] /\ view \in [Requests -> SUBSET Writes]
  /\ \A r \in Requests : before[r] \subseteq ToSet(executed)
  /\ \A r \in Queries : at[r] = "answered" => before[r] \subseteq view[r]

Earlier ==
  \A j \in DOMAIN executed : \A w \in before[executed[j]] :
    \E i \in DOMAIN executed : i < j /\ executed[i] = w

LEMMA Histories ==
  ASSUME Serving, [Next]_vars
  PROVE  /\ \/ executed' = executed
            \/ RunTask
         /\ \/ before' = before
            \/ \E r \in Requests : Arrive(r)
         /\ \/ view' = view
            \/ \E r \in Requests : Query(r)
BY DEF Next, vars, InsertRow, Arrive, Query, CheckOrder, Send, Unreach, ReloadMarkets,
       LoadAssets, LoadMarkets, LoadStops, ClientGone, TakeTask, RunTask, TaskPanics,
       PersistTick, Fork, OnClose, DrainEnds, CtrlC, Leave, Ended, stateVars, ghostVars

LEMMA Grows ==
  ASSUME Serving, RunTask
  PROVE  /\ executed \in Seq(Writes) /\ executed' = Append(executed, cur) /\ cur \in Writes
         /\ DOMAIN executed' = 1..Len(executed) + 1 /\ DOMAIN executed = 1..Len(executed)
         /\ Len(executed) \in Nat
         /\ \A i \in DOMAIN executed : i \in DOMAIN executed' /\ executed'[i] = executed[i]
         /\ executed'[Len(executed) + 1] = cur
         /\ ToSet(executed') = ToSet(executed) \cup {cur}
<1>1. executed \in Seq(Writes) /\ executed' = Append(executed, cur) /\ cur \in Writes
  BY DEF Serving, Channel, RunTask
<1>2. ToSet(executed') = ToSet(executed) \cup {cur}
  BY <1>1, AppendElements
<1>3. /\ DOMAIN executed' = 1..Len(executed) + 1 /\ DOMAIN executed = 1..Len(executed)
      /\ Len(executed) \in Nat
      /\ \A i \in 1..Len(executed) : executed'[i] = executed[i]
      /\ executed'[Len(executed) + 1] = cur
  BY <1>1
<1>4. \A i \in DOMAIN executed : i \in DOMAIN executed'
  BY <1>3
<1> QED BY <1>1, <1>2, <1>3, <1>4

LEMMA ArriveHistory ==
  ASSUME Serving, Answered, Earlier, NEW r \in Requests, Arrive(r)
  PROVE  Answered' /\ Earlier'
<1>1. /\ executed' = executed /\ view' = view /\ at[r] = "idle"
      /\ at' = [at EXCEPT ![r] = IF Refused(r) THEN "refused"
                                 ELSE IF NeedsLock(r) THEN "lock" ELSE "send"]
  BY DEF Arrive, stateVars
<1>2. PICK B \in SUBSET Writes : /\ before' = [before EXCEPT ![r] = B]
                                 /\ \A w \in B : at[w] = "answered"
  <2> DEFINE B == IF r \in Reloads THEN {} ELSE {w \in Writes : at[w] = "answered"}
  <2>1. B \in SUBSET Writes /\ before' = [before EXCEPT ![r] = B] /\ \A w \in B : at[w] = "answered"
    BY DEF Arrive
  <2> QED BY <2>1
<1>3. B \subseteq ToSet(executed)
  BY <1>2, Sorts DEF Serving, Honest
<1>4. r \notin ToSet(executed)
  BY <1>1 DEF Serving, Honest, Unsent
<1>5. Answered'
  <2>1. at \in [Requests -> Places]
    BY DEF Serving, Control
  <2>2. before' \in [Requests -> SUBSET Writes] /\ view' \in [Requests -> SUBSET Writes]
    BY <1>1, <1>2 DEF Answered
  <2>3. \A s \in Requests : before'[s] \subseteq ToSet(executed')
    BY <1>1, <1>2, <1>3 DEF Answered
  <2>4. \A s \in Queries : at'[s] = "answered" => before'[s] \subseteq view'[s]
    BY <1>1, <1>2, <2>1, Sorts DEF Answered
  <2> QED BY <2>2, <2>3, <2>4 DEF Answered
<1>6. Earlier'
  <2>1. ASSUME NEW j \in DOMAIN executed PROVE before'[executed[j]] = before[executed[j]]
    <3>1. executed[j] \in ToSet(executed) /\ executed[j] \in Requests
      <4>1. executed \in Seq(Writes)
        BY DEF Serving, Channel
      <4>2. executed[j] \in Writes
        BY <4>1
      <4> QED BY <4>2, Sorts DEF ToSet
    <3> QED BY <1>2, <1>4, <3>1 DEF Answered
  <2> QED BY <1>1, <2>1 DEF Earlier
<1> QED BY <1>5, <1>6

LEMMA QueryHistory ==
  ASSUME Serving, Answered, Earlier, NEW r \in Requests, Query(r)
  PROVE  Answered' /\ Earlier'
<1>1. /\ executed' = executed /\ before' = before /\ at' = [at EXCEPT ![r] = "answered"]
      /\ view' = [view EXCEPT ![r] = ToSet(executed)] /\ at \in [Requests -> Places]
  BY DEF Query, stateVars, Serving, Control
<1>2. ToSet(executed) \in SUBSET Writes
  <2>1. executed \in Seq(Writes)
    BY DEF Serving, Channel
  <2> QED BY <2>1 DEF ToSet
<1>3. Answered'
  BY <1>1, <1>2, Sorts DEF Answered
<1>4. Earlier'
  BY <1>1 DEF Earlier
<1> QED BY <1>3, <1>4

LEMMA RunHistory ==
  ASSUME Serving, Answered, Earlier, RunTask
  PROVE  Answered' /\ Earlier'
<1>1. before' = before /\ view' = view
  BY DEF RunTask, ghostVars
<1>2. /\ DOMAIN executed' = 1..Len(executed) + 1 /\ DOMAIN executed = 1..Len(executed)
      /\ Len(executed) \in Nat /\ cur \in Writes /\ cur \in Requests
      /\ \A i \in DOMAIN executed : i \in DOMAIN executed' /\ executed'[i] = executed[i]
      /\ executed'[Len(executed) + 1] = cur
      /\ ToSet(executed') = ToSet(executed) \cup {cur}
  BY Grows, Sorts
<1>3. Answered'
  <2>1. \A r \in Queries : at'[r] = at[r]
    BY <1>2, Sorts DEF RunTask, Serving, Control
  <2> QED BY <1>1, <1>2, <2>1 DEF Answered
<1>4. Earlier'
  <2> SUFFICES ASSUME NEW j \in DOMAIN executed', NEW w \in before[executed'[j]]
               PROVE  \E i \in DOMAIN executed' : i < j /\ executed'[i] = w
    BY <1>1 DEF Earlier
  <2>1. CASE j \in DOMAIN executed
    <3>1. PICK i \in DOMAIN executed : i < j /\ executed[i] = w
      BY <1>2, <2>1 DEF Earlier
    <3> QED BY <1>2, <3>1
  <2>2. CASE j \notin DOMAIN executed
    <3>1. j = Len(executed) + 1
      BY <1>2, <2>2
    <3>2. w \in ToSet(executed)
      BY <1>2, <3>1 DEF Answered
    <3>3. PICK i \in DOMAIN executed : executed[i] = w
      BY <3>2 DEF ToSet
    <3>4. i < j
      BY <1>2, <3>1
    <3> QED BY <1>2, <3>3, <3>4
  <2> QED BY <2>1, <2>2
<1> QED BY <1>3, <1>4

LEMMA HistoryNext ==
  ASSUME Serving, Answered, Earlier, [Next]_vars
  PROVE  Answered' /\ Earlier'
<1>1. CASE RunTask
  BY <1>1, RunHistory
<1>2. CASE \E r \in Requests : Arrive(r)
  BY <1>2, ArriveHistory
<1>3. CASE \E r \in Requests : Query(r)
  BY <1>3, QueryHistory
<1>4. CASE executed' = executed /\ before' = before /\ view' = view /\ ~RunTask
           /\ \A r \in Requests : ~Arrive(r) /\ ~Query(r)
  <2>1. ASSUME NEW r \in Queries, at'[r] = "answered" PROVE at[r] = "answered"
    <3>1. r \in Requests /\ r \notin Writes /\ r \notin Reloads /\ Came(r)
      BY Comings, Sorts
    <3>2. at[r] \notin {"send", "assets", "markets"} /\ at \in [Requests -> Places]
      BY <3>1 DEF Serving, Honest, LockHeld, Control
    <3>3. ~CheckOrder(r) /\ ~Send(r) /\ ~ReloadMarkets(r) /\ ~LoadAssets(r) /\ ~LoadMarkets(r)
      BY <3>1, <3>2, Sorts DEF CheckOrder, Send, ReloadMarkets, LoadAssets, LoadMarkets
    <3> QED BY <1>4, <2>1, <3>1, <3>3 DEF Came
  <2> QED BY <1>4, <2>1 DEF Answered, Earlier
<1> QED BY <1>1, <1>2, <1>3, <1>4, Histories

(***************************************************************************)
(* A client that has its answer, and asks again, finds its operation done: *)
(* a query sees it and a later operation runs after it, although queries   *)
(* pass the channel by and only the lock orders them (server.rs).          *)
(***************************************************************************)
THEOREM ReadsOwnWrites == Spec => []ReadYourWrites
<1>1. Init => Answered /\ Earlier
  <2> SUFFICES ASSUME Init PROVE Answered /\ Earlier
    OBVIOUS
  <2>1. DOMAIN executed = {}
    BY DEF Init
  <2>2. Answered
    BY Sorts DEF Init, Answered
  <2> QED BY <2>1, <2>2 DEF Earlier
<1>2. Spec => [](Answered /\ Earlier)
  BY <1>1, HistoryNext, ServingInvariant, PTL DEF Spec
<1>3. ASSUME Serving, Answered, Earlier PROVE ReadYourWrites
  <2> SUFFICES ASSUME NEW r \in Requests, at[r] = "answered", NEW w \in before[r]
               PROVE  /\ r \in Queries => w \in view[r]
                      /\ r \in Writes => \E i, j \in DOMAIN executed :
                                           i < j /\ executed[i] = w /\ executed[j] = r
    BY DEF ReadYourWrites
  <2>1. r \in Queries => w \in view[r]
    BY <1>3 DEF Answered
  <2>2. ASSUME r \in Writes
        PROVE  \E i, j \in DOMAIN executed : i < j /\ executed[i] = w /\ executed[j] = r
    <3>1. r \in ToSet(executed)
      BY <1>3, <2>2 DEF Serving, Honest
    <3>2. PICK j \in DOMAIN executed : executed[j] = r
      BY <3>1 DEF ToSet
    <3> QED BY <1>3, <3>2 DEF Earlier
  <2> QED BY <2>1, <2>2
<1> QED BY <1>2, <1>3, ServingInvariant, PTL

(***************************************************************************)
(* A reload from scratch.  Its load time is 0 as long as it holds the      *)
(* lock, and once it has read the assets every market that it owes finds   *)
(* its own.                                                                *)
(***************************************************************************)
AssetsUpTo(n) == \A i \in 1..n : DBRows[i].table = "asset" => DBRows[i].name \in assets
MarketsUpTo(n) ==
  \A i \in 1..n :
    DBRows[i].table = "market" /\ DBRows[i].precise => DBRows[i].name \in markets

Scratching ==
  /\ owed \in [Requests -> 0..Len(DBRows)] /\ \A r \in Requests : owed[r] <= inserted
  /\ \A r \in Reloads : Request[r].scratch =>
       /\ at[r] \in {"assets", "markets"} => market_load_time = 0
       /\ at[r] = "markets" => AssetsUpTo(owed[r])
       /\ at[r] = "answered" => MarketsUpTo(owed[r])

LEMMA AllRows ==
  ASSUME Serving, NEW n \in 0..Len(DBRows), n <= inserted, NEW i \in 1..n
  PROVE  /\ i \in DOMAIN DBRows /\ i \in 1..inserted
         /\ i \in RowsAfter(DBRows[i].table, 0)
<1>1. /\ DOMAIN DBRows = 1..Len(DBRows) /\ Len(DBRows) \in Nat /\ Loaded \in Nat
      /\ inserted \in Loaded..Len(DBRows)
  BY ServerAssumption DEF Serving, Control
<1>2. i \in DOMAIN DBRows /\ i \in 1..inserted
  BY <1>1
<1>3. DBRows[i].create_time \in Nat /\ DBRows[i].create_time > 0
  BY <1>2, RowFacts
<1> QED BY <1>2, <1>3 DEF RowsAfter

LEMMA AloneAtWork ==
  ASSUME Serving, NEW s \in Requests, at[s] \in {"assets", "markets"}, NEW r \in Requests, r # s
  PROVE  at[r] \notin {"assets", "markets"}
BY DEF Serving, LockHeld

LEMMA ReloadScratches ==
  ASSUME Serving, Scratching, NEW s \in Requests, ReloadMarkets(s)
  PROVE  Scratching'
<1>1. /\ at \in [Requests -> Places] /\ at' = [at EXCEPT ![s] = "assets"] /\ held = {}
      /\ markets' = markets /\ owed' = owed /\ inserted' = inserted
      /\ market_load_time' = ResetLoadTime(s)
  BY DEF ReloadMarkets, Enters, KeptMarkets, ghostVars, Serving, Control
<1>2. ASSUME NEW r \in Reloads, Request[r].scratch
      PROVE  /\ at'[r] \in {"assets", "markets"} => market_load_time' = 0
             /\ at'[r] # "markets"
             /\ at'[r] = "answered" => MarketsUpTo(owed[r])'
  <2>1. r \in Requests
    BY Sorts
  <2>2. at[r] \notin {"assets", "markets"}
    BY <1>1, <2>1 DEF Serving, LockHeld
  <2>3. CASE r = s
    BY <1>1, <1>2, <2>1, <2>3 DEF ResetLoadTime
  <2>4. CASE r # s
    BY <1>1, <1>2, <2>1, <2>2, <2>4 DEF Scratching, MarketsUpTo
  <2> QED BY <2>3, <2>4
<1> QED BY <1>1, <1>2 DEF Scratching

LEMMA AssetsScratches ==
  ASSUME Serving, Scratching, NEW s \in Requests, LoadAssets(s)
  PROVE  Scratching'
<1>1. /\ at \in [Requests -> Places] /\ at' = [at EXCEPT ![s] = "markets"] /\ at[s] = "assets"
      /\ markets' = markets /\ owed' = owed /\ inserted' = inserted
      /\ market_load_time' = market_load_time
      /\ assets' = assets \cup Names(RowsAfter("asset", market_load_time))
  BY DEF LoadAssets, ghostVars, Serving, Control
<1>2. ASSUME NEW r \in Reloads, Request[r].scratch
      PROVE  /\ at'[r] \in {"assets", "markets"} => market_load_time' = 0
             /\ at'[r] = "markets" => AssetsUpTo(owed[r])'
             /\ at'[r] = "answered" => MarketsUpTo(owed[r])'
  <2>1. r \in Requests
    BY Sorts
  <2>2. CASE r = s
    <3>1. market_load_time = 0
      BY <1>1, <1>2, <2>2 DEF Scratching
    <3>2. AssetsUpTo(owed[r])'
      <4> SUFFICES ASSUME NEW i \in 1..owed[r], DBRows[i].table = "asset"
                   PROVE  DBRows[i].name \in assets'
        BY <1>1 DEF AssetsUpTo
      <4>1. owed[r] \in 0..Len(DBRows) /\ owed[r] <= inserted
        BY <2>1 DEF Scratching
      <4>2. i \in RowsAfter("asset", 0)
        BY <4>1, AllRows
      <4> QED BY <1>1, <3>1, <4>2 DEF Names
    <3> QED BY <1>1, <2>1, <2>2, <3>1, <3>2
  <2>3. CASE r # s
    <3>1. at[r] \notin {"assets", "markets"} /\ at'[r] = at[r]
      BY <1>1, <2>1, <2>3, AloneAtWork
    <3> QED BY <1>1, <1>2, <3>1 DEF Scratching, MarketsUpTo
  <2> QED BY <2>2, <2>3
<1> QED BY <1>1, <1>2 DEF Scratching

LEMMA MarketsScratches ==
  ASSUME Serving, Scratching, NEW s \in Requests, LoadMarkets(s)
  PROVE  Scratching'
<1>1. /\ at \in [Requests -> Places] /\ at' = [at EXCEPT ![s] = "answered"] /\ at[s] = "markets"
      /\ owed' = owed /\ inserted' = inserted
      /\ markets' = WithMarkets(RowsAfter("market", market_load_time))
      /\ markets \subseteq markets'
  BY DEF LoadMarkets, WithMarkets, Release, ghostVars, Serving, Control
<1>2. ASSUME NEW r \in Reloads, Request[r].scratch
      PROVE  /\ at'[r] \notin {"assets", "markets"}
             /\ at'[r] = "answered" => MarketsUpTo(owed[r])'
  <2>1. r \in Requests
    BY Sorts
  <2>2. CASE r = s
    <3>1. market_load_time = 0 /\ AssetsUpTo(owed[r])
      BY <1>1, <1>2, <2>2 DEF Scratching
    <3>2. MarketsUpTo(owed[r])'
      <4> SUFFICES ASSUME NEW i \in 1..owed[r], DBRows[i].table = "market", DBRows[i].precise
                   PROVE  DBRows[i].name \in markets'
        BY <1>1 DEF MarketsUpTo
      <4>1. owed[r] \in 0..Len(DBRows) /\ owed[r] <= inserted
        BY <2>1 DEF Scratching
      <4>2. i \in RowsAfter("market", 0) /\ i \in DOMAIN DBRows
        BY <4>1, AllRows
      <4>3. ASSUME NEW a \in DBRows[i].needs PROVE a \in assets
        <5>1. PICK j \in 1..i - 1 : DBRows[j].table = "asset" /\ DBRows[j].name = a
          BY <4>2, <4>3, ServerAssumption
        <5>2. j \in 1..owed[r]
          BY <4>1
        <5> QED BY <3>1, <5>1, <5>2 DEF AssetsUpTo
      <4> QED BY <1>1, <3>1, <4>2, <4>3 DEF WithMarkets, Names
    <3> QED BY <1>1, <2>1, <2>2, <3>2
  <2>3. CASE r # s
    <3>1. at[r] \notin {"assets", "markets"} /\ at'[r] = at[r]
      BY <1>1, <2>1, <2>3, AloneAtWork
    <3> QED BY <1>1, <1>2, <3>1 DEF Scratching, MarketsUpTo
  <2> QED BY <2>2, <2>3
<1> QED BY <1>1, <1>2 DEF Scratching

LEMMA StopScratches ==
  ASSUME Serving, Scratching, NEW s \in Requests, NEW k \in 0..Len(DBRows),
         NEW how \in {"refused", "gone"}, LoadStops(s, k, how)
  PROVE  Scratching'
<1>1. /\ at \in [Requests -> Places] /\ at' = [at EXCEPT ![s] = how]
      /\ at[s] \in {"assets", "markets"}
      /\ markets' = markets /\ owed' = owed /\ inserted' = inserted
  BY DEF LoadStops, Release, ghostVars, Serving, Control
<1>2. ASSUME NEW r \in Reloads, Request[r].scratch
      PROVE  /\ at'[r] \notin {"assets", "markets"}
             /\ at'[r] = "answered" => MarketsUpTo(owed[r])'
  <2>1. r \in Requests
    BY Sorts
  <2>2. CASE r = s
    BY <1>1, <2>1, <2>2
  <2>3. CASE r # s
    <3>1. at[r] \notin {"assets", "markets"} /\ at'[r] = at[r]
      BY <1>1, <2>1, <2>3, AloneAtWork
    <3> QED BY <1>1, <1>2, <3>1 DEF Scratching, MarketsUpTo
  <2> QED BY <2>2, <2>3
<1> QED BY <1>1, <1>2 DEF Scratching

\* Every other step leaves the configuration alone.
LEMMA RestScratches ==
  ASSUME Serving, Scratching, [Next]_vars, UNCHANGED cfgVars,
         \A r \in Requests : ~ReloadMarkets(r) /\ ~LoadAssets(r) /\ ~LoadMarkets(r)
  PROVE  Scratching'
<1>1. inserted \in Loaded..Len(DBRows) /\ Loaded \in Nat /\ Len(DBRows) \in Nat
  BY ServerAssumption DEF Serving, Control
<1>2. inserted' \in Nat /\ inserted <= inserted'
  <2>1. inserted' = inserted \/ inserted' = inserted + 1
    BY DEF Next, vars, InsertRow, Arrive, Query, CheckOrder, Send, Unreach, ReloadMarkets,
         LoadAssets, LoadMarkets, LoadStops, ClientGone, TakeTask, RunTask, TaskPanics,
         PersistTick, Fork, OnClose, DrainEnds, CtrlC, Leave, Ended
  <2> QED BY <1>1, <2>1
<1>3. owed' = owed \/ \E r \in Requests : Arrive(r)
  BY DEF Next, vars, InsertRow, Arrive, Query, CheckOrder, Send, Unreach, ReloadMarkets,
         LoadAssets, LoadMarkets, LoadStops, ClientGone, TakeTask, RunTask, TaskPanics,
         PersistTick, Fork, OnClose, DrainEnds, CtrlC, Leave, Ended, ghostVars
<1>4. owed' \in [Requests -> 0..Len(DBRows)] /\ \A r \in Requests : owed'[r] <= inserted'
  <2>1. CASE owed' = owed
    BY <1>1, <1>2, <2>1 DEF Scratching
  <2>2. CASE \E r \in Requests : Arrive(r)
    <3>1. PICK s \in Requests : Arrive(s)
      BY <2>2
    <3>2. PICK n \in 0..inserted : owed' = [owed EXCEPT ![s] = n]
      <4>1. owed' = [owed EXCEPT ![s] = IF s \in Reloads THEN inserted ELSE 0]
        BY <3>1 DEF Arrive
      <4>2. (IF s \in Reloads THEN inserted ELSE 0) \in 0..inserted
        BY <1>1
      <4> QED BY <4>1, <4>2
    <3>3. inserted' = inserted
      BY <3>1 DEF Arrive
    <3> QED BY <1>1, <3>2, <3>3 DEF Scratching
  <2> QED BY <1>3, <2>1, <2>2
<1>5. ASSUME NEW r \in Reloads, at'[r] \in {"assets", "markets", "answered"}
      PROVE  at'[r] = at[r] /\ owed'[r] = owed[r]
  <2>1. r \in Requests /\ r \notin Queries /\ r \notin Writes /\ r \notin Orders
    BY Sorts
  <2>2. Came(r) /\ at \in [Requests -> Places]
    BY <2>1, Comings DEF Serving, Control
  <2>3. ~Arrive(r)
    BY <1>5, <2>1, <2>2 DEF Arrive
  <2>4. ~Query(r) /\ ~CheckOrder(r) /\ ~Send(r) /\ at[r] # "wait"
    BY <2>1 DEF Query, CheckOrder, Send, Serving, Honest
  <2>5. at'[r] = at[r]
    BY <1>5, <2>1, <2>2, <2>3, <2>4 DEF Came
  <2>6. owed'[r] = owed[r]
    BY <1>3, <2>1, <2>3 DEF Arrive, Scratching
  <2> QED BY <2>5, <2>6
<1>6. ASSUME NEW r \in Reloads, Request[r].scratch
      PROVE  /\ at'[r] \in {"assets", "markets"} => market_load_time' = 0
             /\ at'[r] = "markets" => AssetsUpTo(owed[r])'
             /\ at'[r] = "answered" => MarketsUpTo(owed[r])'
  BY <1>5, <1>6 DEF Scratching, AssetsUpTo, MarketsUpTo, cfgVars
<1> QED BY <1>4, <1>6 DEF Scratching

LEMMA ScratchingNext == ASSUME Serving, Scratching, [Next]_vars PROVE Scratching'
<1>1. CASE \E r \in Requests : ReloadMarkets(r) \/ LoadAssets(r) \/ LoadMarkets(r)
  BY <1>1, ReloadScratches, AssetsScratches, MarketsScratches
<1>2. CASE \E r \in Requests, k \in 0..Len(DBRows), how \in {"refused", "gone"} :
              LoadStops(r, k, how)
  BY <1>2, StopScratches
<1>3. CASE ~\E r \in Requests : ReloadMarkets(r) \/ LoadAssets(r) \/ LoadMarkets(r)
  <2>1. CASE UNCHANGED cfgVars
    BY <1>3, <2>1, RestScratches
  <2>2. \/ UNCHANGED cfgVars
        \/ \E r \in Requests, k \in 0..Len(DBRows), how \in {"refused", "gone"} :
              LoadStops(r, k, how)
    BY <1>3 DEF Next, vars, InsertRow, Arrive, Query, CheckOrder, Send, Unreach, ClientGone,
         TakeTask, RunTask, TaskPanics, PersistTick, Fork, OnClose, DrainEnds, CtrlC, Leave, Ended
  <2> QED BY <1>2, <2>1, <2>2
<1> QED BY <1>1, <1>3

(***************************************************************************)
(* A reload from scratch that succeeds has every market that was in the    *)
(* database when it was asked for and whose precisions fit its assets,     *)
(* whatever earlier reloads have skipped and however the rows share their  *)
(* creation times (config.rs, reset_load_time; storage/config.rs).         *)
(***************************************************************************)
THEOREM ScratchCompletes == Spec => []ScratchIsComplete
<1>1. Init => Scratching
  <2> SUFFICES ASSUME Init PROVE Scratching
    OBVIOUS
  <2>1. owed = [r \in Requests |-> 0] /\ at = [r \in Requests |-> "idle"] /\ inserted = Loaded
    BY DEF Init
  <2>2. Loaded \in Nat /\ Len(DBRows) \in Nat
    BY ServerAssumption
  <2> QED BY <2>1, <2>2, Sorts DEF Scratching
<1>2. Scratching => ScratchIsComplete
  BY DEF Scratching, ScratchIsComplete, MarketsUpTo
<1> QED BY <1>1, <1>2, ScratchingNext, ServingInvariant, PTL DEF Spec

=============================================================================
