---------------------------- MODULE WriterProofs ----------------------------
(***************************************************************************)
(* The database writer, for any rows, any sizes of tasks, channel and      *)
(* statements and any number of failures: its counters are right, nothing  *)
(* is needlessly written twice, and what it reports is stored.             *)
(***************************************************************************)
EXTENDS DatabaseWriter, SequenceFacts

(***************************************************************************)
(* Types.                                                                  *)
(***************************************************************************)
Flags == UNION {[T -> Nat] : T \in SUBSET Tags}
Task == [data : Seq(Rows), flag : Flags]
Return == [kind : {"Done", "Fail"}, task : Task]
Message == [kind : {"Data"}, row : Rows] \cup Return \cup {Exit}
Runner == [task : Task, left : Seq(Rows), outcome : {"running", "Done", "Fail"}]
Entry == [n : Nat, mark : Nat \cup {NoMark}]

Types ==
  /\ chan \in Seq(Message) /\ Len(chan) <= CHANNEL_LIMIT
  /\ next_task \in Seq(Task) /\ error_task \in Seq(Task)
  /\ running \subseteq Runner /\ IsFiniteSet(running)
  /\ tracing \in [Tags -> Seq(Entry)]
  /\ pending_count \in Int /\ spawning_tasks \in Int /\ spawning_tasks <= spawn_limit
  /\ table \in [Rows -> Nat]
  /\ offered \in 0..Len(Input) /\ dropped \subseteq 1..offered
  /\ reported \in [Tags -> Nat \cup {NoMark}]
  /\ doubtful \subseteq Rows /\ fails \in 0..MaxFails
  /\ grace_down \in BOOLEAN /\ exited \in BOOLEAN /\ finishing \in BOOLEAN

(***************************************************************************)
(* Who has a task.  Holds(P) counts the tasks of P that were spawned and   *)
(* whose end the scheduler has not seen: those that run, wait for a retry  *)
(* or are on their way back.  Open is the set of all of them.              *)
(***************************************************************************)
BackOf(P) == {m \in Return : m.task \in P}
Runs(R, P) == {u \in R : u.task \in P}
Holds(P) == Hits(error_task, P) + Hits(chan, BackOf(P)) + Cardinality(Runs(running, P))

Open ==
  {x \in Task : \/ x \in ToSet(error_task)
                \/ \E m \in ToSet(chan) : m \in BackOf({x})
                \/ \E u \in running : u.task = x}

With(r) == {x \in Task : r \in ToSet(x.data)}
OfRow(r) == {Data(r)}
Flagged(t, p) == {x \in Task : t \in DOMAIN x.flag /\ x.flag[t] = p}

\* In how many places a row waits for its task to be spawned, and in how many
\* it is at all, up to the end of its task.
Line(r) == Hits(chan, OfRow(r)) + Hits(next_task, With(r))
Where(r) == Line(r) + Holds(With(r))

(***************************************************************************)
(* The tasks.                                                              *)
(***************************************************************************)
Of(r, t) == Carries(r) /\ Input[r].tag = t
Ascends(s) == \A i, j \in DOMAIN s : i < j => s[i] < s[j]

GoodTask(x) ==
  /\ x.data # <<>> /\ Ascends(x.data)
  /\ \A r \in ToSet(x.data) : Carries(r) => Input[r].tag \in DOMAIN x.flag

\* A task that was not spawned yet: its flag says what is in it.
NewTask(x) ==
  /\ GoodTask(x) /\ Len(x.data) <= INSERT_LIMIT
  /\ \A t \in DOMAIN x.flag :
       /\ \E r \in ToSet(x.data) : Of(r, t) /\ Input[r].pos = x.flag[t]
       /\ \A r \in ToSet(x.data) : Of(r, t) => Input[r].pos <= x.flag[t]

GoodRunner(u) ==
  /\ Ascends(u.left) /\ ToSet(u.left) \subseteq ToSet(u.task.data)
  /\ ToSet(u.task.data) \subseteq ToSet(u.left) \cup Stored
  /\ u.outcome = "running" => u.left # <<>>
  /\ u.outcome = "Done" => u.left = <<>>
  /\ u.outcome = "Fail" => u.left = u.task.data

Tasks ==
  /\ \A x \in ToSet(next_task) : NewTask(x)
  /\ \A x \in Open : GoodTask(x)
  /\ \A u \in running : GoodRunner(u)
  /\ \A m \in ToSet(chan) : m.kind = "Done" => ToSet(m.task.data) \subseteq Stored

(***************************************************************************)
(* The rows: a row is in one place at most, and one that is nowhere has    *)
(* been stored, or was never accepted, or was lost with the channel.       *)
(***************************************************************************)
Places ==
  /\ \A r \in Rows : Where(r) \in {0, 1}
  /\ \A r \in Rows : Where(r) = 1 => r \in Accepted
  /\ \A r \in Accepted : ~exited /\ r \notin Stored => Where(r) = 1
  /\ Stored \subseteq Accepted

\* Rows that are still to be inserted.
Todo(r) ==
  \/ Line(r) # 0
  \/ \E x \in ToSet(error_task) : r \in ToSet(x.data)
  \/ \E m \in ToSet(chan) : m.kind = "Fail" /\ r \in ToSet(m.task.data)
  \/ \E u \in running : r \in ToSet(u.left)

Once ==
  \A r \in Rows : r \notin doubtful => table[r] <= 1 /\ (Todo(r) => table[r] = 0)

(***************************************************************************)
(* The rows that wait stand in line.                                       *)
(***************************************************************************)
Before(x, y) == \A q \in ToSet(x.data), r \in ToSet(y.data) : q < r

Ordered(s) == \A i, j \in DOMAIN s : i < j => Before(s[i], s[j])

RowsAscend(c) ==
  \A k, l \in DOMAIN c : k < l /\ c[k].kind = "Data" /\ c[l].kind = "Data" => c[k].row < c[l].row

InLine ==
  /\ Ordered(next_task) /\ RowsAscend(chan)
  /\ \A x \in ToSet(next_task), m \in ToSet(chan) : m.kind = "Data" =>
       \A q \in ToSet(x.data) : q < m.row

(***************************************************************************)
(* The counters and the way to the exit.                                   *)
(***************************************************************************)
Queued(s) == UNION {ToSet(s[i].data) : i \in DOMAIN s}

Counters ==
  /\ pending_count = Cardinality(Queued(next_task))
  /\ spawning_tasks = Holds(Task)
  /\ exited => grace_down
  /\ grace_down => finishing
  /\ Exit \in ToSet(chan) => finishing

(***************************************************************************)
(* The stacks: their entries ascend, and each is the position of one open  *)
(* task.  What is reported or finished was accepted.                       *)
(***************************************************************************)
Sorted(s) ==
  /\ \A i, j \in DOMAIN s : i < j => s[i].n < s[j].n /\ s[i].mark < s[j].n
  /\ \A i \in DOMAIN s : s[i].mark = NoMark \/ s[i].mark > s[i].n

At(p) == {e \in Entry : e.n = p}

Given(t, p) == \E r \in Accepted : Of(r, t) /\ Input[r].pos = p

Stack(t) ==
  /\ Sorted(tracing[t])
  /\ \A e \in ToSet(tracing[t]) :
       /\ reported[t] < e.n /\ Given(t, e.n)
       /\ e.mark # NoMark => Given(t, e.mark)
  /\ reported[t] # NoMark => Given(t, reported[t])
  /\ \A p \in Nat : Holds(Flagged(t, p)) = Hits(tracing[t], At(p))

(***************************************************************************)
(* What p stands for is neither reported nor finished before the entries   *)
(* from f on, or at all.                                                   *)
(***************************************************************************)
Above(p, t, f) ==
  /\ p > reported[t]
  /\ \A e \in ToSet(tracing[t]) : e.n < f => p > e.n /\ p > e.mark

Beyond(p, t) ==
  /\ p > reported[t]
  /\ \A e \in ToSet(tracing[t]) : p > e.n /\ p > e.mark

OpenLag(t) ==
  \A x \in Open : \A r \in ToSet(x.data) : Of(r, t) => Above(Input[r].pos, t, x.flag[t])

LineLag(t) == \A r \in Rows : Line(r) # 0 /\ Of(r, t) => Beyond(Input[r].pos, t)

PastLag(t) ==
  \A r \in Accepted : ~exited /\ Of(r, t) /\ Line(r) = 0 => ~Beyond(Input[r].pos, t)

Stacks == \A t \in Tags : Stack(t) /\ OpenLag(t) /\ LineLag(t) /\ PastLag(t)

(***************************************************************************)
(* The inductive invariant.                                                *)
(***************************************************************************)
Inv == Types /\ Tasks /\ Places /\ Once /\ InLine /\ Counters /\ Stacks

(***************************************************************************)
(* The rows.                                                               *)
(***************************************************************************)
LEMMA RowFacts ==
  /\ Len(Input) \in Nat /\ Rows \subseteq Nat /\ IsFiniteSet(Rows)
  /\ \A r \in Rows : Carries(r) => Input[r].tag \in Tags /\ Input[r].pos \in Nat
  /\ \A r \in Rows, t \in Tags : Of(r, t) => Input[r].pos \in Nat
  /\ \A r, q \in Rows, t \in Tags : Of(r, t) /\ Of(q, t) /\ r < q => Input[r].pos < Input[q].pos
<1>1. Len(Input) \in Nat /\ \A r \in Rows : Input[r] \in [tag : Tags, pos : Nat] \cup {NoNotify}
  BY WriterAssumption DEF Rows
<1>2. IsFiniteSet(Rows) /\ Rows \subseteq Nat
  BY <1>1, FS_Interval DEF Rows
<1>3. \A r \in Rows : Carries(r) => Input[r].tag \in Tags /\ Input[r].pos \in Nat
  BY <1>1 DEF Carries
<1> QED BY <1>1, <1>2, <1>3, WriterAssumption DEF Of

(***************************************************************************)
(* How the places count.                                                   *)
(***************************************************************************)
In(x, P) == IF x \in P THEN 1 ELSE 0

LEMMA RunsAdd ==
  ASSUME NEW R, IsFiniteSet(R), NEW u, u \notin R, NEW P
  PROVE  /\ IsFiniteSet(R \cup {u}) /\ Cardinality(Runs(R, P)) \in Nat
         /\ Cardinality(Runs(R \cup {u}, P)) = Cardinality(Runs(R, P)) + In(u.task, P)
<1>1. IsFiniteSet(R \cup {u})
  BY FS_AddElement
<1>2. IsFiniteSet(Runs(R, P)) /\ u \notin Runs(R, P)
  BY FS_Subset DEF Runs
<1>3. Cardinality(Runs(R, P)) \in Nat
  BY <1>2, FS_CardinalityType
<1>4. CASE u.task \in P
  <2>1. Runs(R \cup {u}, P) = Runs(R, P) \cup {u}
    BY <1>4 DEF Runs
  <2>2. Cardinality(Runs(R, P) \cup {u}) = Cardinality(Runs(R, P)) + 1
    BY <1>2, FS_AddElement
  <2> QED BY <1>1, <1>3, <1>4, <2>1, <2>2 DEF In
<1>5. CASE u.task \notin P
  <2>1. Runs(R \cup {u}, P) = Runs(R, P)
    BY <1>5 DEF Runs
  <2> QED BY <1>1, <1>3, <1>5, <2>1 DEF In
<1> QED BY <1>4, <1>5

LEMMA RunsRemove ==
  ASSUME NEW R, IsFiniteSet(R), NEW u \in R, NEW P
  PROVE  /\ IsFiniteSet(R \ {u}) /\ Cardinality(Runs(R \ {u}, P)) \in Nat
         /\ Cardinality(Runs(R \ {u}, P)) = Cardinality(Runs(R, P)) - In(u.task, P)
<1> DEFINE Q == R \ {u}
<1>1. IsFiniteSet(Q) /\ u \notin Q /\ Q \cup {u} = R
  BY FS_Subset
<1> HIDE DEF Q
<1>2. /\ Cardinality(Runs(Q, P)) \in Nat
      /\ Cardinality(Runs(Q \cup {u}, P)) = Cardinality(Runs(Q, P)) + In(u.task, P)
  BY <1>1, RunsAdd
<1>3. In(u.task, P) \in Int
  BY DEF In
<1>4. Runs(Q \cup {u}, P) = Runs(R, P)
  BY <1>1
<1>5. Cardinality(Runs(Q, P)) = Cardinality(Runs(R, P)) - In(u.task, P)
  BY <1>2, <1>3, <1>4
<1> QED BY <1>1, <1>2, <1>5 DEF Q

LEMMA HoldsType ==
  ASSUME Types, NEW P
  PROVE  /\ Hits(error_task, P) \in Nat /\ Hits(next_task, P) \in Nat
         /\ Hits(chan, BackOf(P)) \in Nat /\ Hits(chan, P) \in Nat
         /\ Cardinality(Runs(running, P)) \in Nat /\ IsFiniteSet(Runs(running, P))
         /\ Holds(P) \in Nat
<1>1. /\ error_task \in Seq(Task) /\ next_task \in Seq(Task) /\ chan \in Seq(Message)
      /\ IsFiniteSet(running)
  BY DEF Types
<1>2. IsFiniteSet(Runs(running, P))
  BY <1>1, FS_Subset DEF Runs
<1>3. Cardinality(Runs(running, P)) \in Nat
  BY <1>2, FS_CardinalityType
<1>4. /\ Hits(error_task, P) \in Nat /\ Hits(next_task, P) \in Nat
      /\ Hits(chan, BackOf(P)) \in Nat /\ Hits(chan, P) \in Nat
  BY <1>1, HitsType
<1> QED BY <1>2, <1>3, <1>4 DEF Holds

\* What is counted is there.
LEMMA OpenIsHeld ==
  ASSUME Types, NEW P \in SUBSET Task
  PROVE  Holds(P) = 0 <=> \A x \in Open : x \notin P
<1>1. /\ error_task \in Seq(Task) /\ chan \in Seq(Message) /\ running \subseteq Runner
      /\ DOMAIN error_task = 1..Len(error_task)
  BY DEF Types
<1>2. /\ Hits(error_task, P) = 0 <=> \A i \in DOMAIN error_task : error_task[i] \notin P
      /\ Hits(chan, BackOf(P)) = 0 <=> \A i \in DOMAIN chan : chan[i] \notin BackOf(P)
  BY <1>1, HitsType
<1>3. Cardinality(Runs(running, P)) = 0 <=> \A u \in running : u.task \notin P
  <2>1. IsFiniteSet(Runs(running, P))
    BY HoldsType
  <2>2. Cardinality(Runs(running, P)) = 0 <=> Runs(running, P) = {}
    BY <2>1, FS_EmptySet
  <2> QED BY <2>2 DEF Runs
<1>4. Holds(P) = 0 <=> /\ Hits(error_task, P) = 0 /\ Hits(chan, BackOf(P)) = 0
                       /\ Cardinality(Runs(running, P)) = 0
  BY HoldsType DEF Holds
<1>5. /\ \A i \in DOMAIN error_task : error_task[i] \in Task
      /\ \A u \in running : u.task \in Task
  BY <1>1 DEF Runner
<1>6. ASSUME NEW x \in Open, x \in P, Holds(P) = 0 PROVE FALSE
  <2>1. CASE x \in ToSet(error_task)
    BY <1>2, <1>4, <1>6, <2>1 DEF ToSet
  <2>2. CASE \E m \in ToSet(chan) : m \in BackOf({x})
    BY <1>2, <1>4, <1>6, <2>2 DEF BackOf, ToSet
  <2>3. CASE \E u \in running : u.task = x
    BY <1>3, <1>4, <1>6, <2>3
  <2> QED BY <1>6, <2>1, <2>2, <2>3 DEF Open
<1>7. ASSUME Holds(P) # 0 PROVE \E x \in Open : x \in P
  <2>1. CASE \E i \in DOMAIN error_task : error_task[i] \in P
    BY <1>5, <2>1 DEF Open, ToSet
  <2>2. CASE \E i \in DOMAIN chan : chan[i] \in BackOf(P)
    BY <2>2 DEF Open, BackOf, ToSet
  <2>3. CASE \E u \in running : u.task \in P
    BY <1>5, <2>3 DEF Open
  <2> QED BY <1>2, <1>3, <1>4, <1>7, <2>1, <2>2, <2>3
<1> QED BY <1>6, <1>7

(***************************************************************************)
(* What is in the channel.                                                 *)
(***************************************************************************)
LEMMA Kinds ==
  ASSUME NEW m \in Message
  PROVE  /\ m.kind = "Data" => m.row \in Rows /\ m = Data(m.row)
         /\ m.kind \in {"Done", "Fail"} => m \in Return /\ m.task \in Task
         /\ m.kind \notin {"Done", "Fail"} => m \notin Return
         /\ m.kind = "Exit" => m = Exit
         /\ m.kind \in {"Data", "Done", "Fail", "Exit"}
  BY DEF Message, Return, Data, Exit

LEMMA KindsMade ==
  /\ \A r \in Rows : Data(r) \in Message /\ Data(r).kind = "Data" /\ Data(r).row = r
  /\ Exit \in Message /\ Exit.kind = "Exit"
  /\ \A k \in {"Done", "Fail"}, x \in Task :
       Back(k, x) \in Message /\ Back(k, x).kind = k /\ Back(k, x).task = x
  BY DEF Message, Return, Data, Exit, Back

(***************************************************************************)
(* Flags.                                                                  *)
(***************************************************************************)
LEMMA FlagFacts ==
  ASSUME NEW f \in Flags
  PROVE  DOMAIN f \subseteq Tags /\ \A t \in DOMAIN f : f[t] \in Nat
  BY DEF Flags

LEMMA FlagMade ==
  ASSUME NEW T \in SUBSET Tags, NEW f \in [T -> Nat]
  PROVE  f \in Flags
  BY DEF Flags

LEMMA AddTo ==
  ASSUME NEW f \in Flags, NEW t \in Tags, NEW n \in Nat
  PROVE  /\ add_to(f, t, n) \in Flags /\ DOMAIN add_to(f, t, n) = DOMAIN f \cup {t}
         /\ \A u \in DOMAIN f : u # t => add_to(f, t, n)[u] = f[u]
         /\ add_to(f, t, n)[t] = (IF t \in DOMAIN f /\ f[t] > n THEN f[t] ELSE n)
<1> DEFINE g == add_to(f, t, n)
<1>1. DOMAIN f \subseteq Tags /\ \A u \in DOMAIN f : f[u] \in Nat
  BY FlagFacts
<1>2. g = [u \in DOMAIN f \cup {t} |-> IF u = t /\ (t \in DOMAIN f => f[t] <= n) THEN n ELSE f[u]]
  BY DEF add_to
<1>3. DOMAIN g = DOMAIN f \cup {t}
  BY <1>2
<1>4. \A u \in DOMAIN f : u # t => g[u] = f[u]
  BY <1>2
<1>5. g[t] = (IF t \in DOMAIN f /\ f[t] > n THEN f[t] ELSE n)
  BY <1>1, <1>2
<1>6. g \in [DOMAIN f \cup {t} -> Nat]
  BY <1>1, <1>2
<1>7. g \in Flags
  BY <1>1, <1>6, FlagMade
<1> QED BY <1>3, <1>4, <1>5, <1>7

LEMMA AddData ==
  ASSUME NEW x \in Task, NEW r \in Rows
  PROVE  /\ add_data(x, r) \in Task /\ add_data(x, r).data = Append(x.data, r)
         /\ ToSet(add_data(x, r).data) = ToSet(x.data) \cup {r}
         /\ Carries(r) => add_data(x, r).flag = add_to(x.flag, Input[r].tag, Input[r].pos)
         /\ ~Carries(r) => add_data(x, r).flag = x.flag
<1>1. x.data \in Seq(Rows) /\ x.flag \in Flags
  BY DEF Task
<1>2. Carries(r) => Input[r].tag \in Tags /\ Input[r].pos \in Nat
  BY RowFacts
<1>3. Carries(r) => add_to(x.flag, Input[r].tag, Input[r].pos) \in Flags
  BY <1>1, <1>2, AddTo
<1>4. Append(x.data, r) \in Seq(Rows) /\ ToSet(Append(x.data, r)) = ToSet(x.data) \cup {r}
  BY <1>1, AppendElements
<1> QED BY <1>1, <1>3, <1>4 DEF add_data, Task

LEMMA NoTask ==
  EmptyTask \in Task /\ EmptyTask.data = <<>> /\ ToSet(EmptyTask.data) = {}
    /\ DOMAIN EmptyTask.flag = {}
<1>1. NoFlag \in [{} -> Nat] /\ DOMAIN NoFlag = {}
  BY DEF NoFlag
<1>2. NoFlag \in Flags
  BY <1>1, FlagMade
<1>3. <<>> \in Seq(Rows) /\ ToSet(<<>>) = {}
  BY DEF ToSet
<1> QED BY <1>1, <1>2, <1>3 DEF EmptyTask, Task

(***************************************************************************)
(* A sequence and its last element.                                        *)
(***************************************************************************)
LEMMA FrontLast ==
  ASSUME NEW T, NEW s \in Seq(T), s # <<>>
  PROVE  Front(s) \in Seq(T) /\ Last(s) \in T /\ s = Append(Front(s), Last(s))
<1>1. PICK k : k = Len(s) /\ k \in 1..Len(s) /\ Len(s) \in Nat
  OBVIOUS
<1> DEFINE f == SubSeq(s, 1, k - 1)
           l == s[k]
<1>2. l \in T
  BY <1>1
<1>3. f \in Seq(T) /\ Len(f) = k - 1 /\ \A i \in 1..k - 1 : f[i] = s[i]
  BY <1>1
<1>4. Front(s) = f /\ Last(s) = l
  BY <1>1 DEF Front, Last
<1> HIDE DEF f
<1>5. /\ Append(f, l) \in Seq(T) /\ Len(Append(f, l)) = k
      /\ \A i \in 1..k - 1 : Append(f, l)[i] = f[i]
      /\ Append(f, l)[k] = l
  BY <1>1, <1>2, <1>3
<1>6. \A i \in 1..k : Append(f, l)[i] = s[i]
  BY <1>1, <1>3, <1>5
<1>7. Append(f, l) = s
  BY <1>1, <1>5, <1>6
<1> QED BY <1>2, <1>3, <1>4, <1>7

(***************************************************************************)
(* Statements.                                                             *)
(***************************************************************************)
LEMMA SizeFits ==
  ASSUME NEW n \in Nat \ {0}
  PROVE  StatementSize(n) \in 1..n
<1> DEFINE fits == {c \in Chunks : c <= n}
<1>1. fits \in SUBSET (1..n)
  <2>1. \A c \in Chunks : c \in Nat /\ c # 0
    BY WriterAssumption
  <2> QED BY <2>1
<1>2. CASE fits = {}
  BY <1>2 DEF StatementSize
<1>3. CASE fits # {}
  <2>1. Max(fits) \in fits /\ \A y \in fits : Max(fits) >= y
    BY <1>1, <1>3, MaxIsLargest
  <2>2. \E c \in fits : \A d \in fits : d <= c
    BY <1>1, <2>1
  <2>3. (CHOOSE c \in fits : \A d \in fits : d <= c) \in fits
    BY <2>2
  <2>4. StatementSize(n) = CHOOSE c \in fits : \A d \in fits : d <= c
    BY <1>3 DEF StatementSize
  <2> QED BY <1>1, <2>3, <2>4
<1> QED BY <1>2, <1>3

\* A statement is taken off what is left, and no row of it is left after it.
LEMMA Cut ==
  ASSUME NEW u \in Runner, u.left # <<>>, Ascends(u.left)
  PROVE  /\ Rest(u) \in Seq(Rows) /\ Ascends(Rest(u))
         /\ Statement(u) \cup ToSet(Rest(u)) = ToSet(u.left)
         /\ Statement(u) \cap ToSet(Rest(u)) = {}
         /\ Statement(u) # {}
<1> DEFINE s == u.left
           k == StatementSize(Len(u.left))
           a == SubSeq(u.left, 1, k)
           b == SubSeq(u.left, k + 1, Len(u.left))
<1>1. s \in Seq(Rows) /\ Len(s) \in Nat \ {0}
  BY DEF Runner
<1>2. k \in 1..Len(s)
  BY <1>1, SizeFits
<1> HIDE DEF k
<1>3. a \in Seq(Rows) /\ Len(a) = k /\ \A i \in 1..k : a[i] = s[i]
  BY <1>1, <1>2
<1>4. b \in Seq(Rows) /\ Len(b) = Len(s) - k /\ \A i \in 1..Len(s) - k : b[i] = s[i + k]
  BY <1>1, <1>2
<1>5. Statement(u) = ToSet(a) /\ Rest(u) = b
  BY DEF Statement, Rest, k
<1>6. Ascends(s) /\ \A r \in Rows : r \in Nat
  BY RowFacts
<1> HIDE DEF a, b, s
<1>7. /\ DOMAIN s = 1..Len(s) /\ DOMAIN a = 1..k /\ DOMAIN b = 1..Len(s) - k
      /\ \A i \in DOMAIN s : s[i] \in Nat
  BY <1>1, <1>2, <1>3, <1>4, <1>6
<1>8. Ascends(b)
  <2> SUFFICES ASSUME NEW i \in DOMAIN b, NEW j \in DOMAIN b, i < j PROVE b[i] < b[j]
    BY DEF Ascends
  <2>1. i + k \in DOMAIN s /\ j + k \in DOMAIN s /\ i + k < j + k
    BY <1>1, <1>2, <1>7
  <2>2. s[i + k] < s[j + k]
    BY <1>6, <2>1 DEF Ascends
  <2> QED BY <1>4, <1>7, <2>2
<1>9. ToSet(a) \cup ToSet(b) = ToSet(s)
  <2>1. ASSUME NEW i \in DOMAIN s PROVE s[i] \in ToSet(a) \cup ToSet(b)
    <3>1. CASE i <= k
      BY <1>1, <1>2, <1>3, <1>7, <3>1 DEF ToSet
    <3>2. CASE i > k
      <4>1. i - k \in 1..Len(s) - k /\ (i - k) + k = i
        BY <1>1, <1>2, <1>7, <3>2
      <4> QED BY <1>4, <1>7, <4>1 DEF ToSet
    <3> QED BY <1>1, <1>2, <1>7, <3>1, <3>2
  <2>2. ASSUME NEW i \in DOMAIN a PROVE a[i] \in ToSet(s)
    BY <1>1, <1>2, <1>3, <1>7 DEF ToSet
  <2>3. ASSUME NEW i \in DOMAIN b PROVE b[i] \in ToSet(s)
    <3>1. i + k \in DOMAIN s
      BY <1>1, <1>2, <1>7
    <3> QED BY <1>4, <1>7, <3>1 DEF ToSet
  <2> QED BY <2>1, <2>2, <2>3 DEF ToSet
<1>10. ASSUME NEW i \in DOMAIN a, NEW j \in DOMAIN b PROVE a[i] # b[j]
  <2>1. i \in DOMAIN s /\ j + k \in DOMAIN s /\ i < j + k
    BY <1>1, <1>2, <1>7
  <2>2. s[i] < s[j + k]
    BY <1>6, <2>1 DEF Ascends
  <2>3. s[i] \in Nat /\ s[j + k] \in Nat
    BY <1>7, <2>1
  <2> QED BY <1>3, <1>4, <1>7, <2>2, <2>3
<1>11. ToSet(a) \cap ToSet(b) = {}
  BY <1>10 DEF ToSet
<1>12. a[1] \in ToSet(a)
  BY <1>2, <1>7 DEF ToSet
<1> QED BY <1>4, <1>5, <1>8, <1>9, <1>11, <1>12 DEF s

(***************************************************************************)
(* Stacks.                                                                 *)
(***************************************************************************)
Top(e) == IF e.mark # NoMark THEN e.mark ELSE e.n

LEMMA Entries ==
  ASSUME NEW s \in Seq(Entry)
  PROVE  /\ DOMAIN s = 1..Len(s) /\ Len(s) \in Nat
         /\ \A i \in DOMAIN s : /\ s[i] \in Entry /\ s[i].n \in Nat /\ s[i].mark \in Int
                                 /\ s[i].mark \in Nat \cup {NoMark} /\ Top(s[i]) \in Nat
<1>1. DOMAIN s = 1..Len(s) /\ Len(s) \in Nat /\ \A i \in DOMAIN s : s[i] \in Entry
  OBVIOUS
<1>2. ASSUME NEW e \in Entry
      PROVE  e.n \in Nat /\ e.mark \in Int /\ e.mark \in Nat \cup {NoMark} /\ Top(e) \in Nat
  BY DEF Entry, NoMark, Top
<1> QED BY <1>1, <1>2

LEMMA PushTypes ==
  ASSUME NEW s \in Seq(Entry), NEW n \in Nat
  PROVE  push_top(s, n) \in Seq(Entry)
<1> DEFINE D == {i \in DOMAIN s : s[i].n <= n}
           k == Cardinality(D)
           e == [n |-> n, mark |-> NoMark]
<1>1. IsFiniteSet(1..Len(s)) /\ Cardinality(1..Len(s)) = Len(s) /\ DOMAIN s = 1..Len(s)
  <2>1. Len(s) \in Nat /\ DOMAIN s = 1..Len(s)
    OBVIOUS
  <2> QED BY <2>1, FS_Interval
<1>2. IsFiniteSet(D) /\ k <= Len(s) /\ k \in Nat
  BY <1>1, FS_Subset, FS_CardinalityType
<1> HIDE DEF k
<1>3. e \in Entry
  BY DEF Entry
<1> HIDE DEF e
<1>4. SubSeq(s, 1, (1 + k) - 1) \in Seq(Entry) /\ SubSeq(s, 1 + k, Len(s)) \in Seq(Entry)
  BY <1>2
<1>5. push_top(s, n) = SubSeq(s, 1, (1 + k) - 1) \o <<e>> \o SubSeq(s, 1 + k, Len(s))
  BY DEF push_top, InsertAt, k, e
<1> QED BY <1>3, <1>4, <1>5

LEMMA PopPlace ==
  ASSUME NEW s \in Seq(Entry), s # <<>>, NEW n \in Nat
  PROVE  Cardinality({i \in 1..Len(s) - 1 : s[i].n < n}) \in 0..Len(s) - 1
<1> DEFINE D == {i \in 1..Len(s) - 1 : s[i].n < n}
           z == Len(s) - 1
<1>1. z \in Nat
  OBVIOUS
<1>2. IsFiniteSet(1..z) /\ Cardinality(1..z) = z
  BY <1>1, FS_Interval
<1>3. IsFiniteSet(D) /\ Cardinality(D) <= Cardinality(1..z) /\ Cardinality(D) \in Nat
  BY <1>2, FS_Subset, FS_CardinalityType
<1> QED BY <1>1, <1>2, <1>3

LEMMA PopTypes ==
  ASSUME NEW s \in Seq(Entry), NEW n \in Nat
  PROVE  pop_top(s, n).stack \in Seq(Entry) /\ pop_top(s, n).out \in Nat \cup {NoMark}
<1> DEFINE j == Cardinality({i \in 1..Len(s) - 1 : s[i].n < n})
<1>1. CASE s = <<>>
  BY <1>1 DEF pop_top
<1>2. CASE s # <<>>
  <2>1. j \in 0..Len(s) - 1
    BY <1>2, PopPlace
  <2> DEFINE Or(m) == IF s[j + 1].mark # NoMark THEN s[j + 1].mark ELSE m
  <2>2. pop_top(s, n) =
           IF j = 0 THEN [stack |-> Tail(s), out |-> Or(s[j + 1].n)]
           ELSE [stack |-> RemoveAt([s EXCEPT ![j].mark = Or(n)], j + 1), out |-> NoMark]
    BY <1>2 DEF pop_top
  <2> HIDE DEF j
  <2>3. Or(s[j + 1].n) \in Nat /\ Or(n) \in Nat
    <3>1. j + 1 \in DOMAIN s
      BY <2>1
    <3>2. s[j + 1].n \in Nat /\ s[j + 1].mark \in Nat \cup {NoMark}
      BY <3>1, Entries
    <3> QED BY <3>2
  <2> HIDE DEF Or
  <2>4. CASE j = 0
    BY <1>2, <2>2, <2>3, <2>4, TailElements
  <2>5. CASE j # 0
    <3> DEFINE w == [s EXCEPT ![j].mark = Or(n)]
    <3>1. j \in DOMAIN s /\ j + 1 \in DOMAIN s
      BY <2>1, <2>5
    <3>2. [s[j] EXCEPT !.mark = Or(n)] \in Entry
      <4>1. s[j] \in Entry
        BY <3>1, Entries
      <4> QED BY <2>3, <4>1 DEF Entry
    <3>3. w \in Seq(Entry) /\ j + 1 \in DOMAIN w
      BY <3>1, <3>2
    <3> HIDE DEF w
    <3>4. RemoveAt(w, j + 1) \in Seq(Entry)
      BY <3>3, RemovedIndexes
    <3> QED BY <2>2, <2>5, <3>4 DEF w
  <2> QED BY <2>4, <2>5
<1> QED BY <1>1, <1>2

(***************************************************************************)
(* The parts have their types.                                             *)
(***************************************************************************)
LEMMA Received ==
  ASSUME Types, NEW kind, Receive(kind)
  PROVE  /\ chan # <<>> /\ chan' = Tail(chan) /\ chan' \in Seq(Message)
         /\ Len(chan') <= CHANNEL_LIMIT
         /\ Head(chan) \in Message /\ Head(chan).kind = kind /\ Head(chan) \in ToSet(chan)
         /\ ToSet(chan) = {Head(chan)} \cup ToSet(chan') /\ ~exited
         /\ UNCHANGED <<running, clientVars, dbVars, exited>>
<1>1. chan \in Seq(Message) /\ chan # <<>> /\ Len(chan) <= CHANNEL_LIMIT
  BY DEF Types, Receive
<1>2. /\ Tail(chan) \in Seq(Message) /\ Head(chan) \in Message /\ Len(chan) \in Nat
      /\ Len(Tail(chan)) = Len(chan) - 1 /\ ToSet(chan) = {Head(chan)} \cup ToSet(Tail(chan))
  BY <1>1, TailElements
<1>3. CHANNEL_LIMIT \in Nat
  BY WriterAssumption
<1> QED BY <1>1, <1>2, <1>3 DEF Receive

LEMMA Sent ==
  ASSUME Types, HasRoom, NEW m \in Message, chan' = Append(chan, m)
  PROVE  /\ chan' \in Seq(Message) /\ Len(chan') <= CHANNEL_LIMIT
         /\ ToSet(chan') = ToSet(chan) \cup {m}
<1>1. chan \in Seq(Message) /\ Len(chan) < CHANNEL_LIMIT /\ Len(chan) \in Nat
  BY DEF Types, HasRoom
<1>2. Append(chan, m) \in Seq(Message) /\ Len(Append(chan, m)) = Len(chan) + 1
  BY <1>1
<1>3. ToSet(Append(chan, m)) = ToSet(chan) \cup {m}
  BY <1>1, AppendElements
<1>4. CHANNEL_LIMIT \in Nat
  BY WriterAssumption
<1> QED BY <1>1, <1>2, <1>3, <1>4

LEMMA Changed ==
  ASSUME Types, NEW u \in running, NEW v \in Runner, Becomes(u, v)
  PROVE  running' \subseteq Runner /\ IsFiniteSet(running')
<1>1. running \subseteq Runner /\ IsFiniteSet(running)
  BY DEF Types
<1>2. IsFiniteSet(running \ {u})
  BY <1>1, FS_Subset
<1>3. IsFiniteSet((running \ {u}) \cup {v})
  BY <1>2, FS_AddElement
<1> QED BY <1>1, <1>3 DEF Becomes

LEMMA TableTypes ==
  ASSUME Types, NEW R
  PROVE  Inserted(R) \in [Rows -> Nat]
  BY DEF Types, Inserted

LEMMA SpawnedRunner ==
  ASSUME NEW x \in Task
  PROVE  Spawned(x) \in Runner
  BY DEF Spawned, Runner, Task

LEMMA NextRunners ==
  ASSUME NEW u \in Runner, u.left # <<>>, Ascends(u.left)
  PROVE  /\ [u EXCEPT !.left = Rest(u),
                      !.outcome = IF Rest(u) = <<>> THEN "Done" ELSE "running"] \in Runner
         /\ [u EXCEPT !.task.data = Resident(u), !.outcome = "Fail"] \in Runner
<1>1. Rest(u) \in Seq(Rows)
  BY Cut
<1>2. [u EXCEPT !.left = Rest(u),
                !.outcome = IF Rest(u) = <<>> THEN "Done" ELSE "running"] \in Runner
  BY <1>1 DEF Runner
<1>3. [u.task EXCEPT !.data = u.left] \in Task
  BY DEF Runner, Task
<1>4. [u EXCEPT !.task.data = Resident(u), !.outcome = "Fail"] \in Runner
  BY <1>3 DEF Runner, Resident
<1> QED BY <1>2, <1>4

LEMMA TypesInit ==
  ASSUME Init
  PROVE  Types
<1>1. /\ chan = <<>> /\ next_task = <<>> /\ error_task = <<>> /\ running = {}
      /\ CHANNEL_LIMIT \in Nat /\ spawn_limit \in Nat /\ MaxFails \in Nat /\ Len(Input) \in Nat
  BY WriterAssumption, RowFacts DEF Init
<1>2. IsFiniteSet(running)
  BY <1>1, FS_EmptySet
<1>3. tracing \in [Tags -> Seq(Entry)] /\ table \in [Rows -> Nat]
  BY DEF Init
<1>4. reported \in [Tags -> Nat \cup {NoMark}]
  BY DEF Init, NoMark
<1>5. /\ pending_count = 0 /\ spawning_tasks = 0 /\ offered = 0 /\ dropped = {}
      /\ doubtful = {} /\ fails = 0 /\ ~grace_down /\ ~exited /\ ~finishing
  BY DEF Init
<1>6. grace_down \in BOOLEAN /\ exited \in BOOLEAN /\ finishing \in BOOLEAN
  BY DEF Init
<1>7. chan \in Seq(Message) /\ Len(chan) <= CHANNEL_LIMIT
  BY <1>1
<1>8. next_task \in Seq(Task) /\ error_task \in Seq(Task)
  BY <1>1
<1> QED BY <1>1, <1>2, <1>3, <1>4, <1>5, <1>6, <1>7, <1>8 DEF Types

LEMMA TypesStep ==
  ASSUME Types, Tasks, [Next]_vars
  PROVE  Types'
<1> USE DEF clientVars, scheduleVars, dbVars
<1>1. CASE AppendWithNotify
  <2>1. offered + 1 \in Rows /\ offered + 1 \in 0..Len(Input)
    BY <1>1, RowFacts DEF AppendWithNotify, Types, Rows
  <2>2. offered \in Nat /\ dropped \subseteq 1..offered' /\ offered + 1 \in 1..offered'
    BY <1>1, RowFacts DEF AppendWithNotify, Types
  <2>3. offered' \in 0..Len(Input)
    BY <1>1, <2>1 DEF AppendWithNotify
  <2>4. UNCHANGED <<finishing, running, reported, scheduleVars, dbVars>>
    BY <1>1 DEF AppendWithNotify
  <2>5. CASE HasRoom /\ ~exited
    <3>1. chan' = Append(chan, Data(offered + 1)) /\ Data(offered + 1) \in Message
      BY <1>1, <2>1, <2>5, KindsMade DEF AppendWithNotify
    <3>2. chan' \in Seq(Message) /\ Len(chan') <= CHANNEL_LIMIT
      BY <2>5, <3>1, Sent
    <3>3. UNCHANGED dropped
      BY <1>1, <2>5 DEF AppendWithNotify
    <3> QED BY <2>2, <2>3, <2>4, <3>2, <3>3 DEF Types
  <2>6. CASE ~(HasRoom /\ ~exited)
    <3>1. dropped' = dropped \cup {offered + 1} /\ UNCHANGED chan
      BY <1>1, <2>6 DEF AppendWithNotify
    <3>2. dropped' \subseteq 1..offered'
      BY <2>2, <2>3, <3>1
    <3> QED BY <2>3, <2>4, <3>1, <3>2 DEF Types
  <2> QED BY <2>5, <2>6
<1>2. CASE Finish
  <2>1. chan' \in Seq(Message) /\ Len(chan') <= CHANNEL_LIMIT
    BY <1>2, KindsMade, Sent DEF Finish
  <2> QED BY <1>2, <2>1 DEF Finish, Types
<1>3. CASE ReceiveData
  <2>1. chan' \in Seq(Message) /\ Len(chan') <= CHANNEL_LIMIT /\ Head(chan).row \in Rows
    BY <1>3, Received, Kinds DEF ReceiveData
  <2> DEFINE r == Head(chan).row
  <2>2. next_task' = IF next_task = <<>> \/ is_limited(Last(next_task))
                     THEN Append(next_task, add_data(EmptyTask, r))
                     ELSE Append(Front(next_task), add_data(Last(next_task), r))
    BY <1>3 DEF ReceiveData
  <2>3. add_data(EmptyTask, r) \in Task
    BY <2>1, NoTask, AddData
  <2> HIDE DEF r
  <2>4. next_task' \in Seq(Task)
    <3>1. next_task \in Seq(Task)
      BY DEF Types
    <3>2. CASE next_task # <<>>
      <4>1. Front(next_task) \in Seq(Task) /\ Last(next_task) \in Task
        BY <3>1, <3>2, FrontLast
      <4>2. add_data(Last(next_task), r) \in Task
        BY <2>1, <4>1, AddData DEF r
      <4> QED BY <2>2, <2>3, <3>1, <4>1, <4>2
    <3>3. CASE next_task = <<>>
      BY <2>2, <2>3, <3>1, <3>3
    <3> QED BY <3>2, <3>3
  <2> QED BY <1>3, <2>1, <2>4 DEF ReceiveData, Receive, Types
<1>4. CASE ReceiveDone
  <2> DEFINE f == Head(chan).task.flag
             done == finish_from(tracing, f)
  <2>1. /\ chan' \in Seq(Message) /\ Len(chan') <= CHANNEL_LIMIT /\ f \in Flags
    <3>1. /\ chan' \in Seq(Message) /\ Len(chan') <= CHANNEL_LIMIT
          /\ Head(chan) \in Message /\ Head(chan).kind = "Done"
      BY <1>4, Received DEF ReceiveDone
    <3>2. Head(chan).task \in Task
      BY <3>1, Kinds
    <3> QED BY <3>1, <3>2 DEF Task
  <2>2. /\ tracing' = done.tracing
        /\ reported' = [t \in Tags |-> IF t \in DOMAIN done.flag THEN done.flag[t] ELSE reported[t]]
    BY <1>4 DEF ReceiveDone
  <2> HIDE DEF f
  <2>3. \A t \in DOMAIN f : /\ pop_top(tracing[t], f[t]).stack \in Seq(Entry)
                            /\ pop_top(tracing[t], f[t]).out \in Nat \cup {NoMark}
    <3>1. tracing \in [Tags -> Seq(Entry)]
      BY DEF Types
    <3> QED BY <2>1, <3>1, FlagFacts, PopTypes
  <2>4. tracing' \in [Tags -> Seq(Entry)] /\ reported' \in [Tags -> Nat \cup {NoMark}]
    <3>1. tracing \in [Tags -> Seq(Entry)] /\ reported \in [Tags -> Nat \cup {NoMark}]
      BY DEF Types
    <3>2. done.tracing \in [Tags -> Seq(Entry)]
      BY <2>3, <3>1 DEF finish_from
    <3>3. \A t \in DOMAIN done.flag : t \in DOMAIN f /\ done.flag[t] \in Nat \cup {NoMark}
      BY <2>3 DEF finish_from
    <3> HIDE DEF done
    <3> QED BY <2>2, <3>1, <3>2, <3>3
  <2>5. /\ UNCHANGED <<next_task, error_task, pending_count, grace_down>>
        /\ UNCHANGED <<running, exited, clientVars, dbVars>>
        /\ spawning_tasks' = spawning_tasks - 1
    BY <1>4 DEF ReceiveDone, Receive
  <2>6. spawning_tasks' \in Int /\ spawning_tasks' <= spawn_limit
    BY <2>5, WriterAssumption DEF Types
  <2> QED BY <2>1, <2>4, <2>5, <2>6 DEF Types
<1>5. CASE ReceiveFail
  <2>1. /\ chan' \in Seq(Message) /\ Len(chan') <= CHANNEL_LIMIT
        /\ Head(chan) \in Message /\ Head(chan).kind = "Fail"
    BY <1>5, Received DEF ReceiveFail
  <2>2. Head(chan).task \in Task
    BY <2>1, Kinds
  <2>3. error_task' \in Seq(Task)
    BY <1>5, <2>2 DEF ReceiveFail, Types
  <2> QED BY <1>5, <2>1, <2>3 DEF ReceiveFail, Receive, Types
<1>6. CASE ReceiveExit
  <2>1. chan' \in Seq(Message) /\ Len(chan') <= CHANNEL_LIMIT
    BY <1>6, Received DEF ReceiveExit
  <2> QED BY <1>6, <2>1 DEF ReceiveExit, Receive, Types
<1>7. CASE SpawnError
  <2>1. error_task \in Seq(Task) /\ error_task # <<>> /\ running \subseteq Runner
    BY <1>7 DEF SpawnError, Types
  <2>2. Tail(error_task) \in Seq(Task) /\ Head(error_task) \in Task
    BY <2>1, TailElements
  <2>3. Spawned(Head(error_task)) \in Runner
    BY <2>2, SpawnedRunner
  <2>4. IsFiniteSet(running \cup {Spawned(Head(error_task))})
    BY FS_AddElement DEF Types
  <2> QED BY <1>7, <2>1, <2>2, <2>3, <2>4 DEF SpawnError, Types
<1>8. CASE SpawnNext
  <2>1. next_task \in Seq(Task) /\ next_task # <<>> /\ running \subseteq Runner
    BY <1>8 DEF SpawnNext, Types
  <2>2. Tail(next_task) \in Seq(Task) /\ Head(next_task) \in Task
    BY <2>1, TailElements
  <2>3. Spawned(Head(next_task)) \in Runner
    BY <2>2, SpawnedRunner
  <2>4. IsFiniteSet(running \cup {Spawned(Head(next_task))})
    BY FS_AddElement DEF Types
  <2>5. tracing' \in [Tags -> Seq(Entry)]
    <3>1. tracing \in [Tags -> Seq(Entry)] /\ Head(next_task).flag \in Flags
      BY <2>2 DEF Types, Task
    <3> DEFINE f == Head(next_task).flag
    <3>2. tracing' = [t \in Tags |-> IF t \in DOMAIN f THEN push_top(tracing[t], f[t]) ELSE tracing[t]]
      BY <1>8 DEF SpawnNext, update_from
    <3> HIDE DEF f
    <3>3. \A t \in DOMAIN f : t \in Tags => push_top(tracing[t], f[t]) \in Seq(Entry)
      BY <3>1, FlagFacts, PushTypes DEF f
    <3> QED BY <3>1, <3>2, <3>3
  <2>6. Len(Head(next_task).data) \in Nat
    BY <2>2 DEF Task
  <2>7. /\ UNCHANGED <<chan, error_task, grace_down, exited, reported, clientVars, dbVars>>
        /\ next_task' = Tail(next_task)
        /\ running' = running \cup {Spawned(Head(next_task))}
        /\ spawning_tasks' = spawning_tasks + 1 /\ spawning_tasks < spawn_limit
        /\ pending_count' = pending_count - Len(Head(next_task).data)
    BY <1>8 DEF SpawnNext
  <2>8. /\ pending_count' \in Int /\ spawning_tasks' \in Int /\ spawning_tasks' <= spawn_limit
    BY <2>6, <2>7, WriterAssumption DEF Types
  <2>9. next_task' \in Seq(Task) /\ running' \subseteq Runner /\ IsFiniteSet(running')
    BY <2>1, <2>2, <2>3, <2>4, <2>7
  <2> QED BY <2>5, <2>7, <2>8, <2>9 DEF Types
<1>9. CASE SchedulerExit
  <2>1. chan' = <<>> /\ CHANNEL_LIMIT \in Nat
    BY <1>9, WriterAssumption DEF SchedulerExit
  <2>2. chan' \in Seq(Message) /\ Len(chan') <= CHANNEL_LIMIT
    BY <2>1
  <2> QED BY <1>9, <2>2 DEF SchedulerExit, Types
<1>10. ASSUME NEW u \in running, InsertOk(u)
       PROVE  Types'
  <2>1. u \in Runner /\ u.left # <<>> /\ Ascends(u.left)
    BY <1>10 DEF Types, Tasks, GoodRunner, InsertOk
  <2>2. running' \subseteq Runner /\ IsFiniteSet(running')
    BY <1>10, <2>1, NextRunners, Changed DEF InsertOk
  <2>3. table' \in [Rows -> Nat]
    BY <1>10, TableTypes DEF InsertOk
  <2> QED BY <1>10, <2>2, <2>3 DEF InsertOk, Types
<1>11. ASSUME NEW u \in running, NEW committed \in BOOLEAN, InsertFail(u, committed)
       PROVE  Types'
  <2>1. u \in Runner /\ u.left # <<>> /\ Ascends(u.left)
    BY <1>11 DEF Types, Tasks, GoodRunner, InsertFail
  <2>2. running' \subseteq Runner /\ IsFiniteSet(running')
    BY <1>11, <2>1, NextRunners, Changed DEF InsertFail
  <2>3. table' \in [Rows -> Nat]
    BY <1>11, TableTypes DEF InsertFail, Types
  <2>4. doubtful' \subseteq Rows
    <3>1. Statement(u) \subseteq ToSet(u.left)
      BY <2>1, Cut
    <3>2. ToSet(u.left) \subseteq Rows
      BY <2>1 DEF Runner, ToSet
    <3> QED BY <1>11, <3>1, <3>2 DEF InsertFail, Types
  <2>5. fails' \in 0..MaxFails
    BY <1>11, WriterAssumption DEF InsertFail, Types
  <2>6. UNCHANGED <<chan, reported, clientVars, scheduleVars>>
    BY <1>11 DEF InsertFail
  <2> QED BY <2>2, <2>3, <2>4, <2>5, <2>6 DEF Types
<1>12. ASSUME NEW u \in running, SendBack(u)
       PROVE  Types'
  <2>1. u.task \in Task /\ u.outcome \in {"Done", "Fail"}
    BY <1>12 DEF Types, Runner, SendBack
  <2>2. chan' \in Seq(Message) /\ Len(chan') <= CHANNEL_LIMIT
    BY <1>12, <2>1, KindsMade, Sent DEF SendBack
  <2>3. running' \subseteq Runner /\ IsFiniteSet(running')
    BY <1>12, FS_Subset DEF SendBack, Types
  <2> QED BY <1>12, <2>2, <2>3 DEF SendBack, Types
<1>13. CASE UNCHANGED vars
  BY <1>13 DEF vars, Types
<1> QED BY <1>1, <1>2, <1>3, <1>4, <1>5, <1>6, <1>7, <1>8, <1>9, <1>10, <1>11, <1>12, <1>13
        DEF Next

(***************************************************************************)
(* What a step does to the counts.                                         *)
(***************************************************************************)
LEMMA InFacts ==
  /\ \A x, P : In(x, P) \in {0, 1} /\ (In(x, P) = 1 <=> x \in P)
  /\ \A m \in Message, P \in SUBSET Task :
       In(m, BackOf(P)) = IF m.kind \in {"Done", "Fail"} THEN In(m.task, P) ELSE 0
  /\ \A m \in Message, r \in Rows :
       In(m, OfRow(r)) = IF m.kind = "Data" /\ m.row = r THEN 1 ELSE 0
<1>1. \A x, P : In(x, P) \in {0, 1} /\ (In(x, P) = 1 <=> x \in P)
  BY DEF In
<1>2. ASSUME NEW m \in Message, NEW P \in SUBSET Task
      PROVE  In(m, BackOf(P)) = IF m.kind \in {"Done", "Fail"} THEN In(m.task, P) ELSE 0
  <2>1. m \in BackOf(P) <=> m.kind \in {"Done", "Fail"} /\ m.task \in P
    BY Kinds DEF BackOf
  <2> QED BY <2>1 DEF In
<1>3. ASSUME NEW m \in Message, NEW r \in Rows
      PROVE  In(m, OfRow(r)) = IF m.kind = "Data" /\ m.row = r THEN 1 ELSE 0
  <2>1. m = Data(r) <=> m.kind = "Data" /\ m.row = r
    BY Kinds, KindsMade
  <2> QED BY <2>1 DEF In, OfRow
<1> QED BY <1>1, <1>2, <1>3

LEMMA HitIn ==
  ASSUME NEW T, NEW s \in Seq(T), NEW x \in ToSet(s), NEW P, x \in P
  PROVE  Hits(s, P) # 0
<1>1. PICK i \in DOMAIN s : s[i] = x
  BY DEF ToSet
<1> QED BY <1>1, HitsType

LEMMA NoHit ==
  ASSUME NEW T, NEW s \in Seq(T), NEW P, Hits(s, P) = 0, NEW x \in ToSet(s)
  PROVE  x \notin P
  BY HitIn

LEMMA ChanIn ==
  ASSUME Types, NEW m \in Message, chan' = Append(chan, m), NEW T
  PROVE  Hits(chan', T) = Hits(chan, T) + In(m, T)
<1>1. chan \in Seq(Message)
  BY DEF Types
<1> QED BY <1>1, AppendHits DEF In

LEMMA ChanOut ==
  ASSUME Types, NEW kind, Receive(kind), NEW T
  PROVE  Hits(chan', T) = Hits(chan, T) - In(Head(chan), T)
<1>1. chan \in Seq(Message) /\ chan # <<>> /\ chan' = Tail(chan)
  BY DEF Types, Receive
<1> QED BY <1>1, TailHits DEF In

\* The rows of a task are in no other place.
LEMMA OneRunner ==
  ASSUME Types, Places, NEW u \in running, NEW r \in Rows, r \in ToSet(u.task.data)
  PROVE  /\ Where(r) = 1 /\ Line(r) = 0
         /\ \A x \in ToSet(error_task) : r \notin ToSet(x.data)
         /\ \A m \in ToSet(chan) : m.kind \in {"Done", "Fail"} => r \notin ToSet(m.task.data)
         /\ \A v \in running : r \in ToSet(v.task.data) => v = u
<1> DEFINE P == With(r)
<1>1. /\ error_task \in Seq(Task) /\ next_task \in Seq(Task) /\ chan \in Seq(Message)
      /\ running \subseteq Runner /\ IsFiniteSet(running)
  BY DEF Types
<1>2. u.task \in P
  BY <1>1 DEF With, Runner
<1>3. In(u.task, P) = 1
  BY <1>2, InFacts
<1>4. /\ Cardinality(Runs(running \ {u}, P)) \in Nat /\ IsFiniteSet(running \ {u})
      /\ Cardinality(Runs(running \ {u}, P)) = Cardinality(Runs(running, P)) - 1
  BY <1>1, <1>3, RunsRemove
<1> HIDE DEF P
<1>5. Where(r) \in {0, 1} /\ Where(r) = Line(r) + Holds(P)
  BY DEF Places, Where, P
<1>6. Line(r) = Hits(chan, OfRow(r)) + Hits(next_task, P)
  BY DEF Line, P
<1>7. /\ Hits(error_task, P) \in Nat /\ Hits(next_task, P) \in Nat
      /\ Hits(chan, BackOf(P)) \in Nat /\ Hits(chan, OfRow(r)) \in Nat
      /\ Cardinality(Runs(running, P)) \in Nat
  BY HoldsType
<1>8. Holds(P) = Hits(error_task, P) + Hits(chan, BackOf(P)) + Cardinality(Runs(running, P))
  BY DEF Holds
<1>9. /\ Where(r) = 1 /\ Line(r) = 0 /\ Hits(error_task, P) = 0 /\ Hits(chan, BackOf(P)) = 0
      /\ Cardinality(Runs(running \ {u}, P)) = 0
  <2> DEFINE c == Cardinality(Runs(running, P))
             d == Cardinality(Runs(running \ {u}, P))
             a == Hits(error_task, P)
             b == Hits(chan, BackOf(P))
  <2>1. /\ a \in Nat /\ b \in Nat /\ c \in Nat /\ d \in Nat
        /\ d = c - 1 /\ Holds(P) = a + b + c
    BY <1>4, <1>7, <1>8
  <2>2. Line(r) \in Nat
    BY <1>6, <1>7
  <2> HIDE DEF a, b, c, d
  <2>3. Where(r) = 1 /\ Line(r) = 0 /\ a = 0 /\ b = 0 /\ d = 0
    BY <1>5, <2>1, <2>2
  <2> QED BY <2>3 DEF a, b, d
<1>10. Runs(running \ {u}, P) = {}
  <2>1. IsFiniteSet(Runs(running \ {u}, P))
    BY <1>4, FS_Subset DEF Runs
  <2> QED BY <1>9, <2>1, FS_EmptySet
<1>11. ASSUME NEW v \in running, r \in ToSet(v.task.data), v # u PROVE FALSE
  <2>1. v.task \in P
    BY <1>1, <1>11 DEF P, With, Runner
  <2> QED BY <1>10, <1>11, <2>1 DEF Runs
<1>12. ASSUME NEW x \in ToSet(error_task) PROVE r \notin ToSet(x.data)
  <2>1. x \notin P
    BY <1>1, <1>9, NoHit
  <2>2. x \in Task
    BY <1>1 DEF ToSet
  <2> QED BY <2>1, <2>2 DEF P, With
<1>13. ASSUME NEW m \in ToSet(chan), m.kind \in {"Done", "Fail"}
       PROVE  r \notin ToSet(m.task.data)
  <2>1. m \notin BackOf(P)
    BY <1>1, <1>9, NoHit
  <2>2. m \in Message
    BY <1>1 DEF ToSet
  <2>3. m \in Return /\ m.task \in Task
    BY <1>13, <2>2, Kinds
  <2> QED BY <2>1, <2>3 DEF P, With, BackOf
<1> QED BY <1>9, <1>11, <1>12, <1>13

LEMMA OneInLine ==
  ASSUME Types, Places, NEW x \in ToSet(next_task), NEW r \in Rows, r \in ToSet(x.data)
  PROVE  /\ Where(r) = 1 /\ Line(r) = 1 /\ Holds(With(r)) = 0
         /\ Hits(chan, OfRow(r)) = 0 /\ Hits(next_task, With(r)) = 1
         /\ \A u \in running : r \notin ToSet(u.task.data)
<1> DEFINE P == With(r)
<1>1. next_task \in Seq(Task) /\ running \subseteq Runner
  BY DEF Types
<1>2. x \in Task
  BY <1>1 DEF ToSet
<1>3. x \in P
  BY <1>2 DEF With
<1> HIDE DEF P
<1>4. Hits(next_task, P) # 0
  BY <1>1, <1>3, HitIn
<1>5. Where(r) \in {0, 1} /\ Where(r) = Line(r) + Holds(P)
  BY DEF Places, Where, P
<1>6. Line(r) = Hits(chan, OfRow(r)) + Hits(next_task, P)
  BY DEF Line, P
<1>7. Hits(next_task, P) \in Nat /\ Hits(chan, OfRow(r)) \in Nat /\ Holds(P) \in Nat
  BY HoldsType
<1>8. /\ Where(r) = 1 /\ Line(r) = 1 /\ Holds(P) = 0
      /\ Hits(chan, OfRow(r)) = 0 /\ Hits(next_task, P) = 1
  BY <1>4, <1>5, <1>6, <1>7
<1>9. ASSUME NEW u \in running, r \in ToSet(u.task.data) PROVE FALSE
  <2>1. Line(r) = 0
    BY <1>9, OneRunner
  <2> QED BY <1>8, <2>1
<1> QED BY <1>8, <1>9 DEF P

LEMMA RowsOf ==
  ASSUME NEW x \in Task, GoodTask(x)
  PROVE  ToSet(x.data) \subseteq Rows /\ ToSet(x.data) # {}
<1>1. x.data \in Seq(Rows) /\ x.data # <<>>
  BY DEF Task, GoodTask
<1>2. x.data[1] \in ToSet(x.data)
  BY <1>1 DEF ToSet
<1>3. ToSet(x.data) \subseteq Rows
  BY <1>1 DEF ToSet
<1> QED BY <1>2, <1>3

LEMMA OpenTasks ==
  ASSUME Types
  PROVE  /\ \A x \in ToSet(error_task) : x \in Open
         /\ \A m \in ToSet(chan) : m.kind \in {"Done", "Fail"} => m.task \in Open
         /\ \A u \in running : u.task \in Open
         /\ Open \subseteq Task /\ ToSet(next_task) \subseteq Task
<1>1. /\ error_task \in Seq(Task) /\ chan \in Seq(Message) /\ running \subseteq Runner
      /\ next_task \in Seq(Task)
  BY DEF Types
<1>2. ASSUME NEW m \in ToSet(chan), m.kind \in {"Done", "Fail"} PROVE m.task \in Open
  <2>1. m \in Message
    BY <1>1 DEF ToSet
  <2>2. m \in Return /\ m.task \in Task
    BY <1>2, <2>1, Kinds
  <2> QED BY <2>2 DEF Open, BackOf
<1>3. ASSUME NEW x \in ToSet(error_task) PROVE x \in Open
  BY <1>1 DEF Open, ToSet
<1>4. ASSUME NEW u \in running PROVE u.task \in Open
  BY <1>1 DEF Open, Runner
<1>5. Open \subseteq Task /\ ToSet(next_task) \subseteq Task
  BY <1>1 DEF Open, ToSet
<1> QED BY <1>2, <1>3, <1>4, <1>5

Keeps == \A P \in SUBSET Task : Holds(P)' = Holds(P)
KeepsLine == \A r \in Rows : Line(r)' = Line(r)

LEMMA Counts ==
  ASSUME Types, NEW P \in SUBSET Task
  PROVE  /\ Holds(P)' = Hits(error_task', P) + Hits(chan', BackOf(P)) + Cardinality(Runs(running', P))
         /\ Holds(P) = Hits(error_task, P) + Hits(chan, BackOf(P)) + Cardinality(Runs(running, P))
         /\ Hits(error_task, P) \in Nat /\ Hits(chan, BackOf(P)) \in Nat
         /\ Cardinality(Runs(running, P)) \in Nat
  BY HoldsType DEF Holds

LEMMA LineCounts ==
  ASSUME Types, NEW r \in Rows
  PROVE  /\ Line(r)' = Hits(chan', OfRow(r)) + Hits(next_task', With(r))
         /\ Line(r) = Hits(chan, OfRow(r)) + Hits(next_task, With(r))
         /\ Hits(chan, OfRow(r)) \in Nat /\ Hits(next_task, With(r)) \in Nat
  BY HoldsType DEF Line

LEMMA AppendEffect ==
  ASSUME Types, AppendWithNotify
  PROVE  /\ Keeps
         /\ \A r \in Rows : Line(r)' = Line(r)
              + (IF HasRoom /\ ~exited /\ r = offered + 1 THEN 1 ELSE 0)
<1>1. offered + 1 \in Rows
  BY RowFacts DEF AppendWithNotify, Types, Rows
<1>2. UNCHANGED <<error_task, next_task, running>>
  BY DEF AppendWithNotify, scheduleVars
<1>3. CASE HasRoom /\ ~exited
  <2> DEFINE m == Data(offered + 1)
  <2>1. /\ m \in Message /\ m.kind = "Data" /\ m.row = offered + 1
        /\ chan' = Append(chan, m)
    BY <1>1, <1>3, KindsMade DEF AppendWithNotify
  <2> HIDE DEF m
  <2>2. \A T : Hits(chan', T) = Hits(chan, T) + In(m, T)
    BY <2>1, ChanIn
  <2>3. ASSUME NEW P \in SUBSET Task PROVE Holds(P)' = Holds(P)
    <3>1. Hits(chan', BackOf(P)) = Hits(chan, BackOf(P)) + In(m, BackOf(P))
      BY <2>2
    <3>2. In(m, BackOf(P)) = 0
      BY <2>1, InFacts
    <3> QED BY <1>2, <3>1, <3>2, Counts
  <2>4. ASSUME NEW r \in Rows
        PROVE  Line(r)' = Line(r) + (IF r = offered + 1 THEN 1 ELSE 0)
    <3>1. Hits(chan', OfRow(r)) = Hits(chan, OfRow(r)) + In(m, OfRow(r))
      BY <2>2
    <3>2. In(m, OfRow(r)) = IF r = offered + 1 THEN 1 ELSE 0
      BY <2>1, InFacts
    <3> QED BY <1>2, <3>1, <3>2, LineCounts
  <2> QED BY <1>3, <2>3, <2>4 DEF Keeps
<1>4. CASE ~(HasRoom /\ ~exited)
  <2>1. UNCHANGED chan
    BY <1>4 DEF AppendWithNotify
  <2>2. Keeps
    BY <1>2, <2>1, Counts DEF Keeps
  <2>3. ASSUME NEW r \in Rows PROVE Line(r)' = Line(r) /\ Line(r) \in Nat
    BY <1>2, <2>1, LineCounts
  <2> QED BY <1>4, <2>2, <2>3
<1> QED BY <1>3, <1>4

LEMMA FinishEffect ==
  ASSUME Types, Finish
  PROVE  Keeps /\ KeepsLine
<1>1. UNCHANGED <<error_task, next_task, running>> /\ chan' = Append(chan, Exit)
  BY DEF Finish, scheduleVars
<1>2. Exit \in Message /\ Exit.kind = "Exit"
  BY KindsMade
<1>3. \A T : Hits(chan', T) = Hits(chan, T) + In(Exit, T)
  BY <1>1, <1>2, ChanIn
<1>4. ASSUME NEW P \in SUBSET Task PROVE Holds(P)' = Holds(P)
  <2>1. In(Exit, BackOf(P)) = 0
    BY <1>2, InFacts
  <2> QED BY <1>1, <1>3, <2>1, Counts
<1>5. ASSUME NEW r \in Rows PROVE Line(r)' = Line(r)
  <2>1. In(Exit, OfRow(r)) = 0
    BY <1>2, InFacts
  <2>2. Hits(chan', OfRow(r)) = Hits(chan, OfRow(r)) + In(Exit, OfRow(r))
    BY <1>3
  <2> QED BY <1>1, <2>1, <2>2, LineCounts
<1> QED BY <1>4, <1>5 DEF Keeps, KeepsLine

\* The other messages than rows.
LEMMA ReceiveLine ==
  ASSUME Types, NEW kind, Receive(kind), kind # "Data", UNCHANGED next_task
  PROVE  KeepsLine
<1>1. Head(chan) \in Message /\ Head(chan).kind = kind
  BY Received
<1>2. \A T : Hits(chan', T) = Hits(chan, T) - In(Head(chan), T)
  BY ChanOut
<1>3. ASSUME NEW r \in Rows PROVE Line(r)' = Line(r)
  <2>1. In(Head(chan), OfRow(r)) = 0
    BY <1>1, InFacts
  <2>2. Hits(chan', OfRow(r)) = Hits(chan, OfRow(r)) - In(Head(chan), OfRow(r))
    BY <1>2
  <2> QED BY <2>1, <2>2, LineCounts
<1> QED BY <1>3 DEF KeepsLine

\* The other messages than the ends of tasks.
LEMMA ReceiveHolds ==
  ASSUME Types, NEW kind, Receive(kind), kind \notin {"Done", "Fail"}, UNCHANGED error_task
  PROVE  Keeps
<1>1. Head(chan) \in Message /\ Head(chan).kind = kind /\ UNCHANGED running
  BY Received
<1>2. \A T : Hits(chan', T) = Hits(chan, T) - In(Head(chan), T)
  BY ChanOut
<1>3. ASSUME NEW P \in SUBSET Task PROVE Holds(P)' = Holds(P)
  <2>1. In(Head(chan), BackOf(P)) = 0
    BY <1>1, InFacts
  <2> QED BY <1>1, <1>2, <2>1, Counts
<1> QED BY <1>3 DEF Keeps

LEMMA ExitEffect ==
  ASSUME Types, ReceiveExit
  PROVE  Keeps /\ KeepsLine
<1>1. Receive("Exit") /\ UNCHANGED <<next_task, error_task>>
  BY DEF ReceiveExit
<1> QED BY <1>1, ReceiveLine, ReceiveHolds

LEMMA DoneEffect ==
  ASSUME Types, ReceiveDone
  PROVE  /\ KeepsLine
         /\ \A P \in SUBSET Task : Holds(P)' = Holds(P) - In(Head(chan).task, P)
<1>1. Receive("Done") /\ UNCHANGED <<next_task, error_task>>
  BY DEF ReceiveDone
<1>2. Head(chan) \in Message /\ Head(chan).kind = "Done" /\ UNCHANGED running
  BY <1>1, Received
<1>3. \A T : Hits(chan', T) = Hits(chan, T) - In(Head(chan), T)
  BY <1>1, ChanOut
<1>4. ASSUME NEW P \in SUBSET Task PROVE Holds(P)' = Holds(P) - In(Head(chan).task, P)
  <2>1. In(Head(chan), BackOf(P)) = In(Head(chan).task, P) /\ In(Head(chan).task, P) \in {0, 1}
    BY <1>2, InFacts
  <2> QED BY <1>1, <1>2, <1>3, <2>1, Counts
<1> QED BY <1>1, <1>4, ReceiveLine

LEMMA FailEffect ==
  ASSUME Types, ReceiveFail
  PROVE  Keeps /\ KeepsLine
<1> DEFINE x == Head(chan).task
<1>1. Receive("Fail") /\ UNCHANGED next_task /\ error_task' = Append(error_task, x)
  BY DEF ReceiveFail
<1>2. Head(chan) \in Message /\ Head(chan).kind = "Fail" /\ UNCHANGED running
  BY <1>1, Received
<1>3. x \in Task /\ error_task \in Seq(Task)
  BY <1>2, Kinds DEF Types
<1>4. \A T : Hits(chan', T) = Hits(chan, T) - In(Head(chan), T)
  BY <1>1, ChanOut
<1> HIDE DEF x
<1>5. ASSUME NEW P \in SUBSET Task PROVE Holds(P)' = Holds(P)
  <2>1. In(Head(chan), BackOf(P)) = In(x, P) /\ In(x, P) \in {0, 1}
    BY <1>2, InFacts DEF x
  <2>2. Hits(error_task', P) = Hits(error_task, P) + In(x, P)
    BY <1>1, <1>3, AppendHits DEF In
  <2> QED BY <1>2, <1>4, <2>1, <2>2, Counts
<1> QED BY <1>1, <1>5, ReceiveLine DEF Keeps

LEMMA DataEffect ==
  ASSUME Types, Places, ReceiveData
  PROVE  Keeps /\ KeepsLine
<1> DEFINE r == Head(chan).row
<1>1. Receive("Data") /\ UNCHANGED error_task
  BY DEF ReceiveData
<1>2. Head(chan) \in Message /\ Head(chan).kind = "Data" /\ Head(chan) \in ToSet(chan)
  BY <1>1, Received
<1>3. r \in Rows /\ Head(chan) = Data(r)
  BY <1>2, Kinds
<1>4. next_task' = IF next_task = <<>> \/ is_limited(Last(next_task))
                   THEN Append(next_task, add_data(EmptyTask, r))
                   ELSE Append(Front(next_task), add_data(Last(next_task), r))
  BY DEF ReceiveData
<1>5. \A T : Hits(chan', T) = Hits(chan, T) - In(Head(chan), T)
  BY <1>1, ChanOut
<1> HIDE DEF r
<1>6. next_task \in Seq(Task) /\ chan \in Seq(Message)
  BY DEF Types
<1>7. \A x \in ToSet(next_task) : r \notin ToSet(x.data)
  <2>1. Hits(chan, OfRow(r)) # 0
    BY <1>2, <1>3, <1>6, HitIn DEF OfRow
  <2> QED BY <1>3, <2>1, OneInLine
<1>8. ASSUME NEW q \in Rows
      PROVE  Hits(next_task', With(q)) = Hits(next_task, With(q)) + (IF q = r THEN 1 ELSE 0)
  <2>1. ASSUME NEW x \in Task, r \notin ToSet(x.data)
        PROVE  /\ add_data(x, r) \in Task
               /\ In(add_data(x, r), With(q)) = In(x, With(q)) + (IF q = r THEN 1 ELSE 0)
    <3>1. add_data(x, r) \in Task /\ ToSet(add_data(x, r).data) = ToSet(x.data) \cup {r}
      BY <1>3, AddData
    <3>2. /\ add_data(x, r) \in With(q) <=> q \in ToSet(x.data) \/ q = r
          /\ x \in With(q) <=> q \in ToSet(x.data)
      BY <3>1 DEF With
    <3> QED BY <2>1, <3>1, <3>2 DEF In
  <2>2. CASE next_task = <<>> \/ is_limited(Last(next_task))
    <3> DEFINE y == add_data(EmptyTask, r)
    <3>1. EmptyTask \in Task /\ ToSet(EmptyTask.data) = {}
      BY NoTask
    <3>2. y \in Task /\ In(y, With(q)) = In(EmptyTask, With(q)) + (IF q = r THEN 1 ELSE 0)
      BY <2>1, <3>1
    <3>3. In(EmptyTask, With(q)) = 0
      BY <3>1 DEF In, With
    <3>4. next_task' = Append(next_task, y)
      BY <1>4, <2>2
    <3> HIDE DEF y
    <3>5. Hits(next_task', With(q)) = Hits(next_task, With(q)) + In(y, With(q))
      BY <1>6, <3>2, <3>4, AppendHits DEF In
    <3> QED BY <3>2, <3>3, <3>5
  <2>3. CASE ~(next_task = <<>> \/ is_limited(Last(next_task)))
    <3> DEFINE f == Front(next_task)
               l == Last(next_task)
               y == add_data(l, r)
    <3>1. f \in Seq(Task) /\ l \in Task /\ next_task = Append(f, l)
      BY <1>6, <2>3, FrontLast
    <3>2. next_task' = Append(f, y)
      BY <1>4, <2>3
    <3> HIDE DEF f, l
    <3>3. r \notin ToSet(l.data)
      BY <1>7, <3>1, AppendElements
    <3>4. y \in Task /\ In(y, With(q)) = In(l, With(q)) + (IF q = r THEN 1 ELSE 0)
      BY <2>1, <3>1, <3>3
    <3> HIDE DEF y
    <3>5. Hits(next_task', With(q)) = Hits(f, With(q)) + In(y, With(q))
      BY <3>1, <3>2, <3>4, AppendHits DEF In
    <3>6. Hits(next_task, With(q)) = Hits(f, With(q)) + In(l, With(q))
      BY <3>1, AppendHits DEF In
    <3>7. Hits(f, With(q)) \in Nat /\ In(l, With(q)) \in {0, 1}
      BY <3>1, HitsType, InFacts
    <3> QED BY <3>4, <3>5, <3>6, <3>7
  <2> QED BY <2>2, <2>3
<1>9. ASSUME NEW q \in Rows PROVE Line(q)' = Line(q)
  <2>1. Hits(chan', OfRow(q)) = Hits(chan, OfRow(q)) - In(Head(chan), OfRow(q))
    BY <1>5
  <2>2. In(Head(chan), OfRow(q)) = IF q = r THEN 1 ELSE 0
    BY <1>2, InFacts DEF r
  <2> QED BY <1>8, <2>1, <2>2, LineCounts
<1> QED BY <1>1, <1>9, ReceiveHolds DEF KeepsLine

\* A task that starts to run is not running yet.
LEMMA SpawnHolds ==
  ASSUME Types, NEW x \in Task, Spawned(x) \notin running, NEW P \in SUBSET Task,
         running' = running \cup {Spawned(x)}
  PROVE  Cardinality(Runs(running', P)) = Cardinality(Runs(running, P)) + In(x, P)
<1> DEFINE v == Spawned(x)
<1>1. IsFiniteSet(running) /\ v.task = x
  BY DEF Types, Spawned
<1>2. running' = running \cup {v} /\ v \notin running
  OBVIOUS
<1> HIDE DEF v
<1>3. Cardinality(Runs(running \cup {v}, P)) = Cardinality(Runs(running, P)) + In(v.task, P)
  BY <1>1, <1>2, RunsAdd
<1> QED BY <1>1, <1>2, <1>3

LEMMA ErrorEffect ==
  ASSUME Types, Tasks, Places, SpawnError
  PROVE  Keeps /\ KeepsLine /\ Head(error_task) \in Open /\ Spawned(Head(error_task)) \notin running
<1> DEFINE x == Head(error_task)
<1>1. /\ error_task \in Seq(Task) /\ error_task # <<>> /\ error_task' = Tail(error_task)
      /\ running' = running \cup {Spawned(x)} /\ UNCHANGED <<chan, next_task>>
  BY DEF SpawnError, Types
<1>2. x \in Task /\ x \in ToSet(error_task)
  BY <1>1, TailElements
<1>3. x \in Open /\ GoodTask(x)
  BY <1>2, OpenTasks DEF Tasks
<1>4. PICK r \in Rows : r \in ToSet(x.data)
  BY <1>2, <1>3, RowsOf
<1> HIDE DEF x
<1>5. Spawned(x) \notin running
  <2>1. Spawned(x).task = x
    BY DEF Spawned
  <2> QED BY <1>2, <1>4, <2>1, OneRunner
<1>6. ASSUME NEW P \in SUBSET Task PROVE Holds(P)' = Holds(P)
  <2>1. Cardinality(Runs(running', P)) = Cardinality(Runs(running, P)) + In(x, P)
    BY <1>1, <1>2, <1>5, SpawnHolds
  <2>2. Hits(error_task', P) = Hits(error_task, P) - In(x, P)
    BY <1>1, TailHits DEF In, x
  <2>3. In(x, P) \in {0, 1} /\ UNCHANGED chan
    BY <1>1, InFacts
  <2> QED BY <2>1, <2>2, <2>3, Counts
<1>7. ASSUME NEW q \in Rows PROVE Line(q)' = Line(q)
  BY <1>1, LineCounts
<1> QED BY <1>3, <1>5, <1>6, <1>7 DEF x, Keeps, KeepsLine

LEMMA NextEffect ==
  ASSUME Types, Tasks, Places, SpawnNext
  PROVE  /\ Head(next_task) \in ToSet(next_task) /\ Spawned(Head(next_task)) \notin running
         /\ \A P \in SUBSET Task : Holds(P)' = Holds(P) + In(Head(next_task), P)
         /\ \A r \in Rows : Line(r)' = Line(r) - In(Head(next_task), With(r))
<1> DEFINE x == Head(next_task)
<1>1. /\ next_task \in Seq(Task) /\ next_task # <<>> /\ next_task' = Tail(next_task)
      /\ running' = running \cup {Spawned(x)} /\ UNCHANGED <<chan, error_task>>
  BY DEF SpawnNext, Types
<1>2. x \in Task /\ x \in ToSet(next_task)
  BY <1>1, TailElements
<1>3. GoodTask(x)
  BY <1>2 DEF Tasks, NewTask
<1>4. PICK r \in Rows : r \in ToSet(x.data)
  BY <1>2, <1>3, RowsOf
<1> HIDE DEF x
<1>5. Spawned(x) \notin running
  <2>1. Spawned(x).task = x
    BY DEF Spawned
  <2> QED BY <1>2, <1>4, <2>1, OneInLine
<1>6. ASSUME NEW P \in SUBSET Task PROVE Holds(P)' = Holds(P) + In(x, P)
  <2>1. Cardinality(Runs(running', P)) = Cardinality(Runs(running, P)) + In(x, P)
    BY <1>1, <1>2, <1>5, SpawnHolds
  <2>2. In(x, P) \in {0, 1} /\ UNCHANGED <<chan, error_task>>
    BY <1>1, InFacts
  <2> QED BY <2>1, <2>2, Counts
<1>7. ASSUME NEW q \in Rows PROVE Line(q)' = Line(q) - In(x, With(q))
  <2>1. Hits(next_task', With(q)) = Hits(next_task, With(q)) - In(x, With(q))
    BY <1>1, TailHits DEF In, x
  <2>2. In(x, With(q)) \in {0, 1} /\ UNCHANGED chan
    BY <1>1, InFacts
  <2> QED BY <2>1, <2>2, LineCounts
<1> QED BY <1>2, <1>5, <1>6, <1>7 DEF x

LEMMA ChangeEffect ==
  ASSUME Types, NEW u \in running, NEW v, Becomes(u, v), v \notin running \ {u},
         UNCHANGED <<chan, error_task>>
  PROVE  \A P \in SUBSET Task : Holds(P)' = Holds(P) - In(u.task, P) + In(v.task, P)
<1> SUFFICES ASSUME NEW P \in SUBSET Task
             PROVE  Holds(P)' = Holds(P) - In(u.task, P) + In(v.task, P)
  OBVIOUS
<1>1. IsFiniteSet(running)
  BY DEF Types
<1> DEFINE R == running \ {u}
<1>2. /\ IsFiniteSet(R) /\ Cardinality(Runs(R, P)) \in Nat
      /\ Cardinality(Runs(R, P)) = Cardinality(Runs(running, P)) - In(u.task, P)
  BY <1>1, RunsRemove
<1>3. running' = R \cup {v} /\ v \notin R
  BY DEF Becomes
<1> HIDE DEF R
<1>4. Cardinality(Runs(running', P)) = Cardinality(Runs(R, P)) + In(v.task, P)
  <2>1. IsFiniteSet(R) /\ v \notin R
    BY <1>2, <1>3
  <2>2. Cardinality(Runs(R \cup {v}, P)) = Cardinality(Runs(R, P)) + In(v.task, P)
    BY <2>1, RunsAdd
  <2> QED BY <1>3, <2>2
<1>5. In(u.task, P) \in {0, 1} /\ In(v.task, P) \in {0, 1}
  BY InFacts
<1> QED BY <1>2, <1>4, <1>5, Counts

LEMMA OkEffect ==
  ASSUME Types, Tasks, Places, NEW u \in running, InsertOk(u)
  PROVE  Keeps /\ KeepsLine
<1> DEFINE v == [u EXCEPT !.left = Rest(u),
                          !.outcome = IF Rest(u) = <<>> THEN "Done" ELSE "running"]
<1>1. u \in Runner /\ Becomes(u, v) /\ UNCHANGED <<chan, error_task, next_task>>
  BY DEF InsertOk, Types, scheduleVars
<1>2. v.task = u.task
  BY <1>1 DEF Runner
<1> HIDE DEF v
<1>3. u.task \in Task /\ GoodTask(u.task)
  BY <1>1, OpenTasks DEF Runner, Tasks
<1>4. PICK r \in Rows : r \in ToSet(u.task.data)
  BY <1>3, RowsOf
<1>5. v \notin running \ {u}
  BY <1>2, <1>4, OneRunner
<1>6. ASSUME NEW P \in SUBSET Task PROVE Holds(P)' = Holds(P)
  <2>1. Holds(P)' = Holds(P) - In(u.task, P) + In(u.task, P)
    BY <1>1, <1>2, <1>5, ChangeEffect
  <2>2. In(u.task, P) \in {0, 1} /\ Holds(P) \in Nat
    BY InFacts, HoldsType
  <2> QED BY <2>1, <2>2
<1>7. ASSUME NEW q \in Rows PROVE Line(q)' = Line(q)
  BY <1>1, LineCounts
<1> QED BY <1>6, <1>7 DEF Keeps, KeepsLine

Cutback(u) == [data |-> u.left, flag |-> u.task.flag]

LEMMA InsertFailEffect ==
  ASSUME Types, Tasks, Places, NEW u \in running, NEW committed, InsertFail(u, committed)
  PROVE  /\ KeepsLine /\ Cutback(u) \in Task
         /\ Becomes(u, [task |-> Cutback(u), left |-> u.left, outcome |-> "Fail"])
         /\ \A P \in SUBSET Task : Holds(P)' = Holds(P) - In(u.task, P) + In(Cutback(u), P)
<1> DEFINE v == [task |-> Cutback(u), left |-> u.left, outcome |-> "Fail"]
<1>1. /\ u \in Runner /\ UNCHANGED <<chan, error_task, next_task>>
      /\ Becomes(u, [u EXCEPT !.task.data = Resident(u), !.outcome = "Fail"])
  BY DEF InsertFail, Types, scheduleVars
<1>2. [u EXCEPT !.task.data = Resident(u), !.outcome = "Fail"] = v
  <2> DEFINE w == [u EXCEPT !.task.data = u.left, !.outcome = "Fail"]
  <2>1. w.task = [u.task EXCEPT !.data = u.left] /\ w.left = u.left /\ w.outcome = "Fail"
    BY <1>1 DEF Runner
  <2>2. u.task \in Task
    BY <1>1 DEF Runner
  <2>3. [u.task EXCEPT !.data = u.left] = Cutback(u)
    BY <2>2 DEF Task, Cutback
  <2>5. w \in Runner
    <3>1. [u.task EXCEPT !.data = u.left] \in Task
      BY <1>1 DEF Runner, Task
    <3> QED BY <1>1, <3>1 DEF Runner
  <2> HIDE DEF w
  <2>6. w = [task |-> w.task, left |-> w.left, outcome |-> w.outcome]
    BY <2>5 DEF Runner
  <2>4. w = v
    BY <2>1, <2>3, <2>6
  <2> QED BY <2>4 DEF w, Resident
<1>3. Cutback(u) \in Task /\ v.task = Cutback(u) /\ Cutback(u).data = u.left
  BY <1>1 DEF Runner, Task, Cutback
<1>4. u.left \in Seq(Rows) /\ u.left # <<>> /\ ToSet(u.left) \subseteq ToSet(u.task.data)
  BY <1>1 DEF Runner, Tasks, GoodRunner, InsertFail
<1>5. u.left[1] \in Rows /\ u.left[1] \in ToSet(u.left)
  BY <1>4 DEF ToSet
<1> HIDE DEF v
<1>6. v \notin running \ {u}
  <2>1. u.left[1] \in ToSet(v.task.data) /\ u.left[1] \in ToSet(u.task.data)
    BY <1>3, <1>4, <1>5
  <2> QED BY <1>5, <2>1, OneRunner
<1>7. \A P \in SUBSET Task : Holds(P)' = Holds(P) - In(u.task, P) + In(v.task, P)
  <2>1. Becomes(u, v)
    BY <1>1, <1>2
  <2> QED BY <1>1, <1>6, <2>1, ChangeEffect
<1>8. ASSUME NEW q \in Rows PROVE Line(q)' = Line(q)
  BY <1>1, LineCounts
<1>9. \A P \in SUBSET Task : Holds(P)' = Holds(P) - In(u.task, P) + In(Cutback(u), P)
  BY <1>3, <1>7
<1>10. Becomes(u, v)
  BY <1>1, <1>2
<1> QED BY <1>3, <1>8, <1>9, <1>10 DEF KeepsLine, v

LEMMA BackEffect ==
  ASSUME Types, NEW u \in running, SendBack(u)
  PROVE  Keeps /\ KeepsLine
<1> DEFINE m == Back(u.outcome, u.task)
<1>1. /\ u \in Runner /\ IsFiniteSet(running) /\ u.outcome \in {"Done", "Fail"}
      /\ chan' = Append(chan, m) /\ running' = running \ {u} /\ UNCHANGED <<error_task, next_task>>
  BY DEF SendBack, Types, scheduleVars
<1>2. m \in Message /\ m.kind \in {"Done", "Fail"} /\ m.task = u.task
  BY <1>1, KindsMade DEF Runner
<1> HIDE DEF m
<1>3. \A T : Hits(chan', T) = Hits(chan, T) + In(m, T)
  BY <1>1, <1>2, ChanIn
<1>4. ASSUME NEW P \in SUBSET Task PROVE Holds(P)' = Holds(P)
  <2>1. Hits(chan', BackOf(P)) = Hits(chan, BackOf(P)) + In(u.task, P)
    BY <1>2, <1>3, InFacts
  <2>2. Cardinality(Runs(running', P)) = Cardinality(Runs(running, P)) - In(u.task, P)
    BY <1>1, RunsRemove
  <2>3. In(u.task, P) \in {0, 1} /\ UNCHANGED error_task
    BY <1>1, InFacts
  <2> QED BY <2>1, <2>2, <2>3, Counts
<1>5. ASSUME NEW r \in Rows PROVE Line(r)' = Line(r)
  <2>1. Hits(chan', OfRow(r)) = Hits(chan, OfRow(r)) + In(m, OfRow(r))
    BY <1>3
  <2>2. In(m, OfRow(r)) = 0
    BY <1>2, InFacts
  <2> QED BY <1>1, <2>1, <2>2, LineCounts
<1> QED BY <1>4, <1>5 DEF Keeps, KeepsLine

\* The scheduler leaves with all tasks ended and no row in line.
LEMMA LeaveEffect ==
  ASSUME Types, Counters, SchedulerExit
  PROVE  /\ Open = {} /\ error_task = <<>> /\ running = {} /\ next_task = <<>>
         /\ Keeps /\ \A P \in SUBSET Task : Holds(P) = 0
         /\ \A r \in Rows : Line(r)' = 0
<1>1. /\ spawning_tasks = 0 /\ next_task = <<>> /\ chan' = <<>>
      /\ UNCHANGED <<error_task, next_task, running>>
  BY DEF SchedulerExit, MayExit
<1>2. Holds(Task) = 0
  BY <1>1 DEF Counters
<1>3. Open = {}
  BY <1>2, OpenIsHeld DEF Open
<1>4. \A P \in SUBSET Task : Holds(P) = 0
  BY <1>3, OpenIsHeld
<1>5. running = {}
  BY <1>3, OpenTasks
<1>6. error_task = <<>>
  <2>1. error_task \in Seq(Task)
    BY DEF Types
  <2>2. CASE error_task # <<>>
    <3>1. Head(error_task) \in ToSet(error_task)
      BY <2>1, <2>2, TailElements
    <3> QED BY <1>3, <3>1, OpenTasks
  <2> QED BY <2>2
<1>7. \A T : Hits(<<>>, T) = 0
  <2>1. <<>> \in Seq(Task) /\ DOMAIN <<>> = {}
    OBVIOUS
  <2> QED BY <2>1, HitsType
<1>8. ASSUME NEW P \in SUBSET Task PROVE Holds(P)' = Holds(P)
  <2>1. Hits(chan', BackOf(P)) = 0
    BY <1>1, <1>7
  <2>2. Holds(P) = 0
    BY <1>4
  <2> QED BY <1>1, <2>1, <2>2, Counts
<1>9. ASSUME NEW r \in Rows PROVE Line(r)' = 0
  <2>1. Hits(chan', OfRow(r)) = 0 /\ Hits(next_task', With(r)) = 0
    BY <1>1, <1>7
  <2> QED BY <2>1, LineCounts
<1> QED BY <1>1, <1>3, <1>4, <1>5, <1>6, <1>8, <1>9 DEF Keeps

(***************************************************************************)
(* Who is open after a step.                                               *)
(***************************************************************************)
LEMMA HeldIsOpen ==
  Types => \A P \in SUBSET Task :
             Holds(P) \in Nat /\ (Holds(P) = 0 <=> \A x \in Open : x \notin P)
  BY HoldsType, OpenIsHeld

LEMMA HeldIsOpenNext ==
  (Types => \A P \in SUBSET Task :
              Holds(P) \in Nat /\ (Holds(P) = 0 <=> \A x \in Open : x \notin P))'
  BY HeldIsOpen, PTL

LEMMA OpenBefore ==
  ASSUME Types, Types', NEW x \in Open', Holds({x})' <= Holds({x})
  PROVE  x \in Open
<1>1. {x} \in SUBSET Task
  BY DEF Open
<1>2. Holds({x})' \in Nat /\ (Holds({x})' = 0 <=> \A y \in Open' : y \notin {x})
  BY <1>1, HeldIsOpenNext
<1>3. Holds({x}) \in Nat /\ (Holds({x}) = 0 <=> \A y \in Open : y \notin {x})
  BY <1>1, HeldIsOpen
<1>4. Holds({x})' # 0
  BY <1>2
<1>5. Holds({x}) # 0
  BY <1>2, <1>3, <1>4
<1> QED BY <1>3, <1>5

LEMMA OpenKept ==
  ASSUME Types, Types', Keeps
  PROVE  Open' = Open
<1>1. ASSUME NEW x \in Open' PROVE x \in Open
  <2>1. {x} \in SUBSET Task
    BY DEF Open
  <2>2. Holds({x})' = Holds({x}) /\ Holds({x}) \in Nat
    BY <2>1, HeldIsOpen DEF Keeps
  <2> QED BY <2>2, OpenBefore
<1>2. ASSUME NEW x \in Open PROVE x \in Open'
  <2>1. {x} \in SUBSET Task
    BY DEF Open
  <2>2. Holds({x})' = Holds({x}) /\ Holds({x}) # 0
    BY <2>1, HeldIsOpen DEF Keeps
  <2> QED BY <2>1, <2>2, HeldIsOpenNext
<1> QED BY <1>1, <1>2

LEMMA OpenGrows ==
  ASSUME Types, Types', NEW y, \A P \in SUBSET Task : Holds(P)' <= Holds(P) + In(y, P)
  PROVE  Open' \subseteq Open \cup {y}
<1> SUFFICES ASSUME NEW x \in Open', x # y PROVE x \in Open
  OBVIOUS
<1>1. {x} \in SUBSET Task
  BY DEF Open
<1>2. In(y, {x}) = 0
  BY DEF In
<1>3. Holds({x})' <= Holds({x}) + In(y, {x}) /\ Holds({x}) \in Nat
  BY <1>1, HeldIsOpen
<1> QED BY <1>2, <1>3, OpenBefore

(***************************************************************************)
(* What is accepted, and what is stored.                                   *)
(***************************************************************************)
LEMMA AcceptedFacts ==
  ASSUME Types
  PROVE  /\ Accepted \subseteq Rows /\ offered \in Nat
         /\ \A r \in Accepted : r <= offered
         /\ offered + 1 \notin Accepted
  BY RowFacts DEF Types, Accepted, Rows

LEMMA AcceptedStep ==
  ASSUME Types, AppendWithNotify
  PROVE  /\ offered + 1 \in Rows
         /\ HasRoom /\ ~exited => Accepted' = Accepted \cup {offered + 1}
         /\ ~(HasRoom /\ ~exited) => Accepted' = Accepted
<1>1. offered \in Nat /\ dropped \subseteq 1..offered /\ offered' = offered + 1
  BY RowFacts DEF Types, AppendWithNotify
<1>2. offered + 1 \in Rows
  BY RowFacts DEF AppendWithNotify, Types, Rows
<1>3. 1..offered' = (1..offered) \cup {offered + 1} /\ offered + 1 \notin 1..offered
  BY <1>1
<1>4. CASE HasRoom /\ ~exited
  <2>1. dropped' = dropped
    BY <1>4 DEF AppendWithNotify
  <2> QED BY <1>1, <1>2, <1>3, <1>4, <2>1 DEF Accepted
<1>5. CASE ~(HasRoom /\ ~exited)
  <2>1. dropped' = dropped \cup {offered + 1}
    BY <1>5 DEF AppendWithNotify
  <2> QED BY <1>1, <1>2, <1>3, <1>5, <2>1 DEF Accepted
<1> QED BY <1>4, <1>5

\* Every row of a task that runs was accepted.
LEMMA RunnerRows ==
  ASSUME Types, Tasks, Places, NEW u \in running
  PROVE  ToSet(u.task.data) \subseteq Accepted /\ ToSet(u.left) \subseteq ToSet(u.task.data)
<1>1. u.task \in Task /\ GoodTask(u.task)
  BY OpenTasks DEF Tasks
<1>2. ToSet(u.task.data) \subseteq Rows
  BY <1>1, RowsOf
<1>3. \A r \in ToSet(u.task.data) : Where(r) = 1
  BY <1>2, OneRunner
<1> QED BY <1>2, <1>3 DEF Places, Tasks, GoodRunner

LEMMA InsertStores ==
  ASSUME Types, NEW R \in SUBSET Rows, table' = Inserted(R)
  PROVE  Stored' = Stored \cup R
<1>1. table \in [Rows -> Nat]
  BY DEF Types
<1>2. \A r \in Rows : table'[r] = IF r \in R THEN table[r] + 1 ELSE table[r]
  BY DEF Inserted
<1>3. \A r \in Rows : table'[r] > 0 <=> table[r] > 0 \/ r \in R
  BY <1>1, <1>2
<1> QED BY <1>3 DEF Stored

\* A statement of a task, and the task before and after it.
LEMMA StatementOf ==
  ASSUME Types, Tasks, Places, NEW u \in running, u.outcome = "running"
  PROVE  /\ Statement(u) \subseteq Rows /\ Statement(u) \subseteq ToSet(u.left)
         /\ Statement(u) \subseteq Accepted
         /\ Rest(u) \in Seq(Rows) /\ Ascends(Rest(u)) /\ u.left # <<>>
         /\ Statement(u) \cup ToSet(Rest(u)) = ToSet(u.left)
         /\ Statement(u) \cap ToSet(Rest(u)) = {}
<1>1. u \in Runner /\ u.left # <<>> /\ Ascends(u.left)
  BY DEF Types, Tasks, GoodRunner
<1>2. /\ Rest(u) \in Seq(Rows) /\ Ascends(Rest(u))
      /\ Statement(u) \cup ToSet(Rest(u)) = ToSet(u.left)
      /\ Statement(u) \cap ToSet(Rest(u)) = {}
  BY <1>1, Cut
<1>3. ToSet(u.left) \subseteq Accepted
  BY RunnerRows
<1>4. Accepted \subseteq Rows
  BY AcceptedFacts
<1> QED BY <1>1, <1>2, <1>3, <1>4

LEMMA StoredStep ==
  ASSUME Types, Tasks, Places, [Next]_vars
  PROVE  Stored \subseteq Stored' /\ Stored' \subseteq Accepted
<1> USE DEF clientVars, scheduleVars, dbVars
<1>1. CASE UNCHANGED table
  BY <1>1 DEF Stored, Places
<1>2. ASSUME NEW u \in running, InsertOk(u)
      PROVE  Stored \subseteq Stored' /\ Stored' \subseteq Accepted
  <2>1. Statement(u) \subseteq Rows /\ Statement(u) \subseteq Accepted
    BY <1>2, StatementOf DEF InsertOk
  <2>2. Stored' = Stored \cup Statement(u)
    BY <1>2, <2>1, InsertStores DEF InsertOk
  <2> QED BY <2>1, <2>2 DEF Places
<1>3. ASSUME NEW u \in running, NEW committed \in BOOLEAN, InsertFail(u, committed)
      PROVE  Stored \subseteq Stored' /\ Stored' \subseteq Accepted
  <2>1. Statement(u) \subseteq Rows /\ Statement(u) \subseteq Accepted
    BY <1>3, StatementOf DEF InsertFail
  <2>2. CASE committed
    <3>1. Stored' = Stored \cup Statement(u)
      BY <1>3, <2>1, <2>2, InsertStores DEF InsertFail
    <3> QED BY <2>1, <3>1 DEF Places
  <2>3. CASE ~committed
    BY <1>1, <1>3, <2>3 DEF InsertFail
  <2> QED BY <2>2, <2>3
<1>4. CASE ReceiveData \/ ReceiveDone \/ ReceiveFail \/ ReceiveExit
  BY <1>1, <1>4 DEF ReceiveData, ReceiveDone, ReceiveFail, ReceiveExit, Receive
<1>5. CASE AppendWithNotify \/ Finish \/ SpawnError \/ SpawnNext \/ SchedulerExit
  BY <1>1, <1>5 DEF AppendWithNotify, Finish, SpawnError, SpawnNext, SchedulerExit
<1>6. CASE \E u \in running : SendBack(u)
  BY <1>1, <1>6 DEF SendBack
<1>7. CASE UNCHANGED vars
  BY <1>1, <1>7 DEF vars
<1> QED BY <1>2, <1>3, <1>4, <1>5, <1>6, <1>7 DEF Next

(***************************************************************************)
(* Most steps move a task or a row from one place to the next.             *)
(***************************************************************************)
Quiet ==
  /\ Keeps /\ KeepsLine
  /\ UNCHANGED <<offered, dropped, exited, reported, tracing, spawning_tasks>>

Moves ==
  \/ Finish \/ ReceiveData \/ ReceiveFail \/ ReceiveExit \/ SpawnError
  \/ \E u \in running : InsertOk(u) \/ SendBack(u)
  \/ UNCHANGED vars

LEMMA MovesAreQuiet ==
  ASSUME Types, Tasks, Places, Moves
  PROVE  Quiet
<1> USE DEF clientVars, scheduleVars, dbVars
<1>1. CASE Finish
  BY <1>1, FinishEffect DEF Finish, Quiet
<1>2. CASE ReceiveData
  BY <1>2, DataEffect DEF ReceiveData, Receive, Quiet
<1>3. CASE ReceiveFail
  BY <1>3, FailEffect DEF ReceiveFail, Receive, Quiet
<1>4. CASE ReceiveExit
  BY <1>4, ExitEffect DEF ReceiveExit, Receive, Quiet
<1>5. CASE SpawnError
  BY <1>5, ErrorEffect DEF SpawnError, Quiet
<1>6. ASSUME NEW u \in running, InsertOk(u) PROVE Quiet
  BY <1>6, OkEffect DEF InsertOk, Quiet
<1>7. ASSUME NEW u \in running, SendBack(u) PROVE Quiet
  BY <1>7, BackEffect DEF SendBack, Quiet
<1>8. CASE UNCHANGED vars
  <2>1. UNCHANGED <<chan, error_task, running, next_task>>
    BY <1>8 DEF vars
  <2>2. Keeps
    BY <2>1, Counts DEF Keeps
  <2>3. ASSUME NEW r \in Rows PROVE Line(r)' = Line(r)
    BY <2>1, LineCounts
  <2> QED BY <1>8, <2>2, <2>3 DEF vars, KeepsLine, Quiet
<1> QED BY <1>1, <1>2, <1>3, <1>4, <1>5, <1>6, <1>7, <1>8 DEF Moves

LEMMA StepKinds ==
  ASSUME [Next]_vars
  PROVE  \/ Moves \/ AppendWithNotify \/ ReceiveDone \/ SpawnNext \/ SchedulerExit
         \/ \E u \in running, committed \in BOOLEAN : InsertFail(u, committed)
  BY DEF Next, Moves

LEMMA WhereType ==
  ASSUME Types, NEW r \in Rows
  PROVE  /\ With(r) \in SUBSET Task /\ Where(r) = Line(r) + Holds(With(r))
         /\ Where(r)' = Line(r)' + Holds(With(r))'
         /\ Line(r) \in Nat /\ Holds(With(r)) \in Nat
<1>1. With(r) \in SUBSET Task
  BY DEF With
<1> QED BY <1>1, LineCounts, HoldsType DEF Where

LEMMA PlacesStep ==
  ASSUME Types, Tasks, Places, Counters, [Next]_vars
  PROVE  Places'
<1>1. Stored \subseteq Stored' /\ Stored' \subseteq Accepted
  BY StoredStep
<1>2. CASE Moves
  <2>1. Quiet
    BY <1>2, MovesAreQuiet
  <2>2. \A r \in Rows : Where(r)' = Where(r)
    BY <2>1, WhereType DEF Quiet, Keeps, KeepsLine
  <2>3. Accepted' = Accepted /\ exited' = exited
    BY <2>1 DEF Quiet, Accepted
  <2>4. Accepted \subseteq Rows
    BY AcceptedFacts
  <2> QED BY <1>1, <2>2, <2>3, <2>4 DEF Places
<1>3. CASE AppendWithNotify
  <2> DEFINE a == HasRoom /\ ~exited
  <2>1. PICK n \in Rows : n = offered + 1 /\ n \notin Accepted /\ Accepted \subseteq Rows
    BY <1>3, AcceptedStep, AcceptedFacts
  <2>2. exited' = exited
    BY <1>3 DEF AppendWithNotify, scheduleVars
  <2>3. (a => Accepted' = Accepted \cup {n}) /\ (~a => Accepted' = Accepted)
    BY <1>3, <2>1, AcceptedStep
  <2>4. \A r \in Rows : Line(r)' = Line(r) + (IF a /\ r = n THEN 1 ELSE 0)
    BY <1>3, <2>1, AppendEffect
  <2>5. Keeps
    BY <1>3, AppendEffect
  <2> HIDE DEF a
  <2>6. \A r \in Rows : Where(r)' = Where(r) + (IF a /\ r = n THEN 1 ELSE 0)
    <3> SUFFICES ASSUME NEW r \in Rows
                 PROVE  Where(r)' = Where(r) + (IF a /\ r = n THEN 1 ELSE 0)
      OBVIOUS
    <3>1. Holds(With(r))' = Holds(With(r))
      BY <2>5, WhereType DEF Keeps
    <3>2. Line(r)' = Line(r) + (IF a /\ r = n THEN 1 ELSE 0)
      BY <2>4
    <3> QED BY <3>1, <3>2, WhereType
  <2>7. Where(n) = 0 /\ \A r \in Rows : Where(r) \in {0, 1}
    BY <2>1 DEF Places
  <2>8. CASE a
    <3>1. Where(n)' = 1 /\ \A r \in Rows : r # n => Where(r)' = Where(r)
      BY <2>1, <2>6, <2>7, <2>8
    <3>2. Accepted' = Accepted \cup {n}
      BY <2>3, <2>8
    <3> QED BY <1>1, <2>1, <2>2, <2>7, <3>1, <3>2 DEF Places
  <2>9. CASE ~a
    <3>1. \A r \in Rows : Where(r)' = Where(r)
      BY <2>6, <2>7, <2>9
    <3>2. Accepted' = Accepted
      BY <2>3, <2>9
    <3> QED BY <1>1, <2>1, <2>2, <3>1, <3>2 DEF Places
  <2> QED BY <2>8, <2>9
<1>4. CASE ReceiveDone
  <2> DEFINE x == Head(chan).task
  <2>1. /\ Head(chan) \in ToSet(chan) /\ Head(chan) \in Message /\ Head(chan).kind = "Done"
        /\ UNCHANGED <<clientVars, exited>>
    BY <1>4, Received DEF ReceiveDone
  <2>2. x \in Open /\ x \in Task /\ ToSet(x.data) \subseteq Stored
    BY <2>1, OpenTasks DEF Tasks
  <2>3. KeepsLine /\ \A P \in SUBSET Task : Holds(P)' = Holds(P) - In(x, P)
    BY <1>4, DoneEffect
  <2>4. Accepted' = Accepted /\ exited' = exited /\ Accepted \subseteq Rows
    BY <2>1, AcceptedFacts DEF clientVars, Accepted
  <2> HIDE DEF x
  <2>5. ASSUME NEW r \in Rows
        PROVE  (Where(r)' = Where(r) /\ r \notin ToSet(x.data)) \/ (Where(r)' = 0 /\ r \in Stored)
    <3>1. /\ Holds(With(r))' = Holds(With(r)) - In(x, With(r))
          /\ Line(r)' = Line(r) /\ Where(r) \in {0, 1}
      BY <2>3, WhereType DEF KeepsLine, Places
    <3>2. CASE r \in ToSet(x.data)
      <4>1. x \in With(r)
        BY <2>2, <3>2 DEF With
      <4>2. In(x, With(r)) = 1
        BY <4>1, InFacts
      <4>3. Holds(With(r)) # 0
        BY <2>2, <4>1, WhereType, HeldIsOpen
      <4>4. Where(r)' = 0
        BY <3>1, <4>2, <4>3, WhereType
      <4> QED BY <2>2, <3>2, <4>4
    <3>3. CASE r \notin ToSet(x.data)
      <4>1. In(x, With(r)) = 0
        BY <3>3 DEF In, With
      <4> QED BY <3>1, <3>3, <4>1, WhereType
    <3> QED BY <3>2, <3>3
  <2> QED BY <1>1, <2>4, <2>5 DEF Places
<1>5. CASE SpawnNext
  <2> DEFINE x == Head(next_task)
  <2>1. /\ \A P \in SUBSET Task : Holds(P)' = Holds(P) + In(x, P)
        /\ \A r \in Rows : Line(r)' = Line(r) - In(x, With(r))
    BY <1>5, NextEffect
  <2> HIDE DEF x
  <2>2. ASSUME NEW r \in Rows PROVE Where(r)' = Where(r)
    <3>1. Holds(With(r))' = Holds(With(r)) + In(x, With(r)) /\ In(x, With(r)) \in {0, 1}
      BY <2>1, InFacts, WhereType
    <3>2. Line(r)' = Line(r) - In(x, With(r))
      BY <2>1
    <3> QED BY <3>1, <3>2, WhereType
  <2>3. Accepted' = Accepted /\ exited' = exited /\ Accepted \subseteq Rows
    BY <1>5, AcceptedFacts DEF SpawnNext, clientVars, Accepted
  <2> QED BY <1>1, <2>2, <2>3 DEF Places
<1>6. CASE SchedulerExit
  <2>1. ASSUME NEW r \in Rows PROVE Where(r)' = 0
    <3>1. Line(r)' = 0 /\ Holds(With(r))' = Holds(With(r)) /\ Holds(With(r)) = 0
      BY <1>6, LeaveEffect, WhereType DEF Keeps
    <3> QED BY <3>1, WhereType
  <2>2. Accepted' = Accepted /\ exited'
    BY <1>6 DEF SchedulerExit, clientVars, Accepted
  <2> QED BY <1>1, <2>1, <2>2 DEF Places
<1>7. ASSUME NEW u \in running, NEW committed \in BOOLEAN, InsertFail(u, committed)
      PROVE  Places'
  <2> DEFINE y == Cutback(u)
  <2>1. /\ KeepsLine /\ y \in Task
        /\ \A P \in SUBSET Task : Holds(P)' = Holds(P) - In(u.task, P) + In(y, P)
    BY <1>7, InsertFailEffect
  <2>2. Accepted' = Accepted /\ exited' = exited /\ Accepted \subseteq Rows
    BY <1>7, AcceptedFacts DEF InsertFail, clientVars, scheduleVars, Accepted
  <2>3. /\ u.task \in Task /\ y.data = u.left /\ ToSet(u.left) \subseteq ToSet(u.task.data)
        /\ ToSet(u.task.data) \subseteq ToSet(u.left) \cup Stored
    BY OpenTasks DEF Cutback, Tasks, GoodRunner
  <2> HIDE DEF y
  <2>4. ASSUME NEW r \in Rows
        PROVE  Where(r)' = Where(r) \/ (Where(r)' = 0 /\ r \in Stored)
    <3>1. /\ Holds(With(r))' = Holds(With(r)) - In(u.task, With(r)) + In(y, With(r))
          /\ Line(r)' = Line(r) /\ Where(r) \in {0, 1}
      BY <2>1, WhereType DEF KeepsLine, Places
    <3>2. CASE r \in ToSet(u.task.data)
      <4>1. In(u.task, With(r)) = 1 /\ Where(r) = 1 /\ In(y, With(r)) \in {0, 1}
        BY <2>3, <3>2, InFacts, OneRunner DEF With
      <4>2. In(y, With(r)) = 1 \/ r \in Stored
        BY <2>1, <2>3, <3>2 DEF In, With
      <4>3. Where(r)' = Where(r) - 1 + In(y, With(r))
        BY <3>1, <4>1, WhereType
      <4> QED BY <4>1, <4>2, <4>3
    <3>3. CASE r \notin ToSet(u.task.data)
      <4>1. In(u.task, With(r)) = 0 /\ In(y, With(r)) = 0
        BY <2>3, <3>3 DEF In, With
      <4> QED BY <3>1, <4>1, WhereType
    <3> QED BY <3>2, <3>3
  <2> QED BY <1>1, <2>2, <2>4 DEF Places
<1> QED BY <1>2, <1>3, <1>4, <1>5, <1>6, <1>7, StepKinds

(***************************************************************************)
(* A row joins the last task or starts a new one.                          *)
(***************************************************************************)
LEMMA Joins ==
  ASSUME Types, ReceiveData
  PROVE  \E f \in Seq(Task), x \in Task, r \in Rows :
           /\ Data(r) \in ToSet(chan) /\ Head(chan) = Data(r)
           /\ add_data(x, r) \in Task /\ next_task' = Append(f, add_data(x, r))
           /\ \/ x = EmptyTask /\ next_task = f
              \/ next_task = Append(f, x) /\ Len(x.data) < INSERT_LIMIT
<1> DEFINE r == Head(chan).row
<1>1. Head(chan) \in Message /\ Head(chan).kind = "Data" /\ Head(chan) \in ToSet(chan)
  BY Received DEF ReceiveData
<1>2. r \in Rows /\ Head(chan) = Data(r)
  BY <1>1, Kinds
<1>3. next_task' = IF next_task = <<>> \/ is_limited(Last(next_task))
                   THEN Append(next_task, add_data(EmptyTask, r))
                   ELSE Append(Front(next_task), add_data(Last(next_task), r))
  BY DEF ReceiveData
<1> HIDE DEF r
<1>4. next_task \in Seq(Task)
  BY DEF Types
<1>5. CASE next_task = <<>> \/ is_limited(Last(next_task))
  <2>1. EmptyTask \in Task
    BY NoTask
  <2>2. add_data(EmptyTask, r) \in Task
    BY <1>2, <2>1, AddData
  <2>3. next_task' = Append(next_task, add_data(EmptyTask, r))
    BY <1>3, <1>5
  <2> QED BY <1>1, <1>2, <1>4, <2>1, <2>2, <2>3
<1>6. CASE ~(next_task = <<>> \/ is_limited(Last(next_task)))
  <2> DEFINE f == Front(next_task)
             l == Last(next_task)
  <2>1. f \in Seq(Task) /\ l \in Task /\ next_task = Append(f, l)
    BY <1>4, <1>6, FrontLast
  <2>2. next_task' = Append(f, add_data(l, r)) /\ ~(Len(l.data) >= INSERT_LIMIT)
    BY <1>3, <1>6 DEF is_limited
  <2> HIDE DEF f, l
  <2>3. add_data(l, r) \in Task
    BY <1>2, <2>1, AddData
  <2>4. Len(l.data) < INSERT_LIMIT
    BY <2>1, <2>2, WriterAssumption DEF Task
  <2> QED BY <1>1, <1>2, <2>1, <2>2, <2>3, <2>4
<1> QED BY <1>5, <1>6

LEMMA AddAscends ==
  ASSUME NEW s \in Seq(Rows), Ascends(s), NEW r \in Rows, \A q \in ToSet(s) : q < r
  PROVE  Ascends(Append(s, r))
<1>1. /\ Len(s) \in Nat /\ DOMAIN s = 1..Len(s) /\ DOMAIN Append(s, r) = 1..Len(s) + 1
      /\ \A i \in 1..Len(s) : Append(s, r)[i] = s[i]
      /\ Append(s, r)[Len(s) + 1] = r
  OBVIOUS
<1> SUFFICES ASSUME NEW i \in 1..Len(s) + 1, NEW j \in 1..Len(s) + 1, i < j
             PROVE  Append(s, r)[i] < Append(s, r)[j]
  BY <1>1 DEF Ascends
<1>2. i \in DOMAIN s /\ s[i] \in ToSet(s)
  BY <1>1 DEF ToSet
<1>3. CASE j \in DOMAIN s
  BY <1>1, <1>2, <1>3 DEF Ascends
<1>4. CASE j = Len(s) + 1
  BY <1>1, <1>2, <1>4
<1> QED BY <1>1, <1>3, <1>4

LEMMA AddIsNew ==
  ASSUME NEW x \in Task, x = EmptyTask \/ (NewTask(x) /\ Len(x.data) < INSERT_LIMIT),
         NEW r \in Rows, \A q \in ToSet(x.data) : q < r
  PROVE  NewTask(add_data(x, r))
<1> DEFINE y == add_data(x, r)
           t0 == Input[r].tag
           p0 == Input[r].pos
<1>1. /\ y \in Task /\ y.data = Append(x.data, r) /\ ToSet(y.data) = ToSet(x.data) \cup {r}
      /\ Carries(r) => y.flag = add_to(x.flag, t0, p0)
      /\ ~Carries(r) => y.flag = x.flag
  BY AddData
<1>2. /\ x.data \in Seq(Rows) /\ Ascends(x.data) /\ Len(x.data) < INSERT_LIMIT
      /\ \A q \in ToSet(x.data) : Carries(q) => Input[q].tag \in DOMAIN x.flag
      /\ \A t \in DOMAIN x.flag :
           /\ \E q \in ToSet(x.data) : Of(q, t) /\ Input[q].pos = x.flag[t]
           /\ \A q \in ToSet(x.data) : Of(q, t) => Input[q].pos <= x.flag[t]
  <2>1. CASE x = EmptyTask
    <3>1. x.data = <<>> /\ ToSet(x.data) = {} /\ DOMAIN x.flag = {}
      BY <2>1, NoTask
    <3>2. Len(x.data) = 0 /\ DOMAIN x.data = {}
      BY <3>1
    <3>3. x.data \in Seq(Rows) /\ Ascends(x.data)
      BY <3>1, <3>2 DEF Ascends
    <3> QED BY <3>1, <3>2, <3>3, WriterAssumption
  <2>2. CASE NewTask(x) /\ Len(x.data) < INSERT_LIMIT
    <3>1. x.data \in Seq(Rows)
      BY DEF Task
    <3> QED BY <2>2, <3>1 DEF NewTask, GoodTask
  <2> QED BY <2>1, <2>2
<1>3. Ascends(y.data)
  BY <1>1, <1>2, AddAscends
<1>4. Len(y.data) <= INSERT_LIMIT /\ y.data # <<>>
  <2>1. Len(Append(x.data, r)) = Len(x.data) + 1 /\ Append(x.data, r) # <<>> /\ Len(x.data) \in Nat
    BY <1>2
  <2> QED BY <1>1, <1>2, <2>1, WriterAssumption
<1>5. x.flag \in Flags /\ (Carries(r) => t0 \in Tags /\ p0 \in Nat)
  BY RowFacts DEF Task
<1>6. Carries(r) => /\ DOMAIN y.flag = DOMAIN x.flag \cup {t0}
                    /\ \A u \in DOMAIN x.flag : u # t0 => y.flag[u] = x.flag[u]
                    /\ y.flag[t0] = IF t0 \in DOMAIN x.flag /\ x.flag[t0] > p0
                                    THEN x.flag[t0] ELSE p0
  <2> HIDE DEF t0, p0, y
  <2>1. ASSUME Carries(r)
        PROVE  /\ DOMAIN add_to(x.flag, t0, p0) = DOMAIN x.flag \cup {t0}
               /\ \A u \in DOMAIN x.flag : u # t0 => add_to(x.flag, t0, p0)[u] = x.flag[u]
               /\ add_to(x.flag, t0, p0)[t0] =
                    (IF t0 \in DOMAIN x.flag /\ x.flag[t0] > p0 THEN x.flag[t0] ELSE p0)
    <3>1. PICK f \in Flags : f = x.flag
      BY <1>5
    <3>2. t0 \in Tags /\ p0 \in Nat
      BY <1>5, <2>1
    <3>3. /\ add_to(f, t0, p0) \in Flags /\ DOMAIN add_to(f, t0, p0) = DOMAIN f \cup {t0}
          /\ \A u \in DOMAIN f : u # t0 => add_to(f, t0, p0)[u] = f[u]
          /\ add_to(f, t0, p0)[t0] = (IF t0 \in DOMAIN f /\ f[t0] > p0 THEN f[t0] ELSE p0)
      BY <3>2, AddTo
    <3> QED BY <3>1, <3>3
  <2> QED BY <1>1, <2>1
<1>7. /\ ToSet(x.data) \subseteq Rows /\ DOMAIN x.flag \subseteq Tags
      /\ \A t \in DOMAIN x.flag : x.flag[t] \in Nat
  <2>1. ToSet(x.data) \subseteq Rows
    BY <1>2 DEF ToSet
  <2> QED BY <1>5, <2>1, FlagFacts
<1> HIDE DEF y
<1>8. \A q \in ToSet(y.data) : Carries(q) => Input[q].tag \in DOMAIN y.flag
  BY <1>1, <1>2, <1>6
<1>9. ASSUME NEW t \in DOMAIN y.flag
      PROVE  /\ \E q \in ToSet(y.data) : Of(q, t) /\ Input[q].pos = y.flag[t]
             /\ \A q \in ToSet(y.data) : Of(q, t) => Input[q].pos <= y.flag[t]
  <2>1. CASE ~(Carries(r) /\ t = t0)
    <3>1. t \in DOMAIN x.flag /\ y.flag[t] = x.flag[t] /\ ~Of(r, t)
      BY <1>1, <1>6, <1>9, <2>1 DEF Of
    <3> QED BY <1>1, <1>2, <3>1
  <2>2. CASE Carries(r) /\ t = t0
    <3>1. Of(r, t) /\ Input[r].pos = p0 /\ p0 \in Nat
      BY <1>5, <2>2 DEF Of
    <3>2. CASE t \in DOMAIN x.flag /\ x.flag[t] > p0
      <4>1. y.flag[t] = x.flag[t] /\ x.flag[t] \in Nat
        BY <1>6, <1>7, <2>2, <3>2
      <4>2. p0 <= y.flag[t]
        BY <3>1, <3>2, <4>1
      <4> QED BY <1>1, <1>2, <3>1, <3>2, <4>1, <4>2
    <3>3. CASE ~(t \in DOMAIN x.flag /\ x.flag[t] > p0)
      <4>1. y.flag[t] = p0
        BY <1>6, <2>2, <3>3
      <4>2. ASSUME NEW q \in ToSet(x.data), Of(q, t) PROVE Input[q].pos <= p0
        <5>1. t \in DOMAIN x.flag /\ Input[q].pos \in Nat
          BY <1>2, <1>7, <4>2, RowFacts DEF Of
        <5>2. x.flag[t] \in Nat /\ Input[q].pos <= x.flag[t] /\ ~(x.flag[t] > p0)
          BY <1>2, <1>7, <3>3, <4>2, <5>1
        <5> QED BY <3>1, <5>1, <5>2
      <4> QED BY <1>1, <3>1, <4>1, <4>2
    <3> QED BY <3>2, <3>3
  <2> QED BY <2>1, <2>2
<1> QED BY <1>3, <1>4, <1>8, <1>9 DEF NewTask, GoodTask, y

\* The tasks that wait to be spawned.
LEMMA NewTasksStep ==
  ASSUME Types, Tasks, InLine, [Next]_vars
  PROVE  \A x \in ToSet(next_task') : NewTask(x)
<1> USE DEF clientVars, scheduleVars, dbVars
<1>1. CASE UNCHANGED next_task
  BY <1>1 DEF Tasks
<1>2. CASE ReceiveData
  <2>1. PICK f \in Seq(Task), x \in Task, r \in Rows :
           /\ Data(r) \in ToSet(chan) /\ add_data(x, r) \in Task
           /\ next_task' = Append(f, add_data(x, r))
           /\ \/ x = EmptyTask /\ next_task = f
              \/ next_task = Append(f, x) /\ Len(x.data) < INSERT_LIMIT
    BY <1>2, Joins
  <2>2. ToSet(next_task') = ToSet(f) \cup {add_data(x, r)}
    BY <2>1, AppendElements
  <2>3. CASE x = EmptyTask /\ next_task = f
    <3>1. \A q \in ToSet(x.data) : q < r
      BY <2>3, NoTask
    <3>2. NewTask(add_data(x, r))
      BY <2>3, <3>1, AddIsNew
    <3> QED BY <2>2, <2>3, <3>2 DEF Tasks
  <2>4. CASE next_task = Append(f, x) /\ Len(x.data) < INSERT_LIMIT
    <3>1. ToSet(next_task) = ToSet(f) \cup {x}
      BY <2>4, AppendElements
    <3>2. \A q \in ToSet(x.data) : q < r
      BY <2>1, <3>1, KindsMade DEF InLine
    <3>3. NewTask(add_data(x, r))
      BY <2>4, <3>1, <3>2, AddIsNew DEF Tasks
    <3> QED BY <2>2, <3>1, <3>3 DEF Tasks
  <2> QED BY <2>1, <2>3, <2>4
<1>3. CASE SpawnNext
  <2>1. next_task \in Seq(Task) /\ next_task # <<>> /\ next_task' = Tail(next_task)
    BY <1>3 DEF SpawnNext, Types
  <2>2. ToSet(next_task') \subseteq ToSet(next_task)
    BY <2>1, TailElements
  <2> QED BY <2>2 DEF Tasks
<1>4. CASE ReceiveDone \/ ReceiveFail \/ ReceiveExit
  BY <1>1, <1>4 DEF ReceiveDone, ReceiveFail, ReceiveExit
<1>5. CASE AppendWithNotify \/ Finish \/ SpawnError \/ SchedulerExit
  BY <1>1, <1>5 DEF AppendWithNotify, Finish, SpawnError, SchedulerExit
<1>6. CASE \E u \in running : InsertOk(u) \/ SendBack(u)
  BY <1>1, <1>6 DEF InsertOk, SendBack
<1>7. CASE \E u \in running, committed \in BOOLEAN : InsertFail(u, committed)
  BY <1>1, <1>7 DEF InsertFail
<1>8. CASE UNCHANGED vars
  BY <1>1, <1>8 DEF vars
<1> QED BY <1>2, <1>3, <1>4, <1>5, <1>6, <1>7, <1>8 DEF Next

LEMMA CutbackIsGood ==
  ASSUME Types, Tasks, NEW u \in running, u.outcome = "running"
  PROVE  GoodTask(Cutback(u))
<1>1. /\ u.left # <<>> /\ Ascends(u.left) /\ ToSet(u.left) \subseteq ToSet(u.task.data)
      /\ GoodTask(u.task)
  BY OpenTasks DEF Tasks, GoodRunner
<1> QED BY <1>1 DEF GoodTask, Cutback

\* The tasks that were spawned.
LEMMA OpenTasksStep ==
  ASSUME Types, Types', Tasks, Places, Counters, [Next]_vars
  PROVE  \A x \in Open' : GoodTask(x)
<1>1. ASSUME Keeps PROVE \A x \in Open' : GoodTask(x)
  BY <1>1, OpenKept DEF Tasks
<1>2. CASE Moves
  BY <1>1, <1>2, MovesAreQuiet DEF Quiet
<1>3. CASE AppendWithNotify
  BY <1>1, <1>3, AppendEffect
<1>4. CASE ReceiveDone
  <2> DEFINE x == Head(chan).task
  <2>1. /\ Head(chan) \in ToSet(chan) /\ Head(chan).kind = "Done"
    BY <1>4, Received DEF ReceiveDone
  <2>2. x \in Open /\ \A P \in SUBSET Task : Holds(P)' = Holds(P) - In(x, P)
    BY <1>4, <2>1, DoneEffect, OpenTasks
  <2> HIDE DEF x
  <2>3. \A P \in SUBSET Task : Holds(P)' <= Holds(P) + In(x, P)
    <3> SUFFICES ASSUME NEW P \in SUBSET Task PROVE Holds(P)' <= Holds(P) + In(x, P)
      OBVIOUS
    <3>1. Holds(P)' = Holds(P) - In(x, P) /\ Holds(P) \in Nat /\ In(x, P) \in {0, 1}
      BY <2>2, HeldIsOpen, InFacts
    <3> QED BY <3>1
  <2>4. Open' \subseteq Open
    BY <2>2, <2>3, OpenGrows
  <2> QED BY <2>4 DEF Tasks
<1>5. CASE SpawnNext
  <2> DEFINE x == Head(next_task)
  <2>1. x \in ToSet(next_task) /\ \A P \in SUBSET Task : Holds(P)' = Holds(P) + In(x, P)
    BY <1>5, NextEffect
  <2> HIDE DEF x
  <2>2. \A P \in SUBSET Task : Holds(P)' <= Holds(P) + In(x, P)
    <3> SUFFICES ASSUME NEW P \in SUBSET Task PROVE Holds(P)' <= Holds(P) + In(x, P)
      OBVIOUS
    <3>1. Holds(P)' = Holds(P) + In(x, P) /\ Holds(P) \in Nat /\ In(x, P) \in {0, 1}
      BY <2>1, HeldIsOpen, InFacts
    <3> QED BY <3>1
  <2>3. Open' \subseteq Open \cup {x}
    BY <2>2, OpenGrows
  <2> QED BY <2>1, <2>3 DEF Tasks, NewTask
<1>6. CASE SchedulerExit
  BY <1>1, <1>6, LeaveEffect
<1>7. ASSUME NEW u \in running, NEW committed \in BOOLEAN, InsertFail(u, committed)
      PROVE  \A x \in Open' : GoodTask(x)
  <2> DEFINE y == Cutback(u)
  <2>1. GoodTask(y)
    BY <1>7, CutbackIsGood DEF InsertFail
  <2>2. \A P \in SUBSET Task : Holds(P)' = Holds(P) - In(u.task, P) + In(y, P)
    BY <1>7, InsertFailEffect
  <2> HIDE DEF y
  <2>3. \A P \in SUBSET Task : Holds(P)' <= Holds(P) + In(y, P)
    <3> SUFFICES ASSUME NEW P \in SUBSET Task PROVE Holds(P)' <= Holds(P) + In(y, P)
      OBVIOUS
    <3>1. /\ Holds(P)' = Holds(P) - In(u.task, P) + In(y, P) /\ Holds(P) \in Nat
          /\ In(u.task, P) \in {0, 1} /\ In(y, P) \in {0, 1}
      BY <2>2, HeldIsOpen, InFacts
    <3> QED BY <3>1
  <2>4. Open' \subseteq Open \cup {y}
    BY <2>3, OpenGrows
  <2> QED BY <2>1, <2>4 DEF Tasks
<1> QED BY <1>2, <1>3, <1>4, <1>5, <1>6, <1>7, StepKinds

LEMMA SpawnedIsGood ==
  ASSUME NEW x \in Task, GoodTask(x)
  PROVE  GoodRunner(Spawned(x))'
  BY DEF GoodTask, GoodRunner, Spawned

\* The tasks that run.
LEMMA RunnersStep ==
  ASSUME Types, Tasks, Places, [Next]_vars
  PROVE  \A u \in running' : GoodRunner(u)'
<1> USE DEF clientVars, scheduleVars, dbVars
<1>1. \A u \in running : GoodRunner(u)'
  <2>1. Stored \subseteq Stored'
    BY StoredStep
  <2> QED BY <2>1 DEF Tasks, GoodRunner
<1>2. CASE UNCHANGED running
  BY <1>1, <1>2
<1>3. CASE SpawnError
  <2>1. PICK x \in Task : x = Head(error_task) /\ GoodTask(x)
    BY <1>3, ErrorEffect, OpenTasks DEF Tasks
  <2>2. GoodRunner(Spawned(x))' /\ running' = running \cup {Spawned(x)}
    BY <1>3, <2>1, SpawnedIsGood DEF SpawnError
  <2> QED BY <1>1, <2>2
<1>4. CASE SpawnNext
  <2>1. PICK x \in Task : x = Head(next_task) /\ GoodTask(x)
    BY <1>4, NextEffect, OpenTasks DEF Tasks, NewTask
  <2>2. GoodRunner(Spawned(x))' /\ running' = running \cup {Spawned(x)}
    BY <1>4, <2>1, SpawnedIsGood DEF SpawnNext
  <2> QED BY <1>1, <2>2
<1>5. ASSUME NEW u \in running, InsertOk(u)
      PROVE  \A v \in running' : GoodRunner(v)'
  <2> DEFINE w == [u EXCEPT !.left = Rest(u),
                            !.outcome = IF Rest(u) = <<>> THEN "Done" ELSE "running"]
  <2>1. u \in Runner /\ Becomes(u, w) /\ table' = Inserted(Statement(u)) /\ u.outcome = "running"
    BY <1>5 DEF InsertOk, Types
  <2>2. /\ w.task = u.task /\ w.left = Rest(u)
        /\ w.outcome = IF Rest(u) = <<>> THEN "Done" ELSE "running"
    BY <2>1 DEF Runner
  <2>3. /\ Statement(u) \subseteq Rows /\ Ascends(Rest(u))
        /\ Statement(u) \cup ToSet(Rest(u)) = ToSet(u.left)
    BY <2>1, StatementOf
  <2>4. Stored' = Stored \cup Statement(u)
    BY <2>1, <2>3, InsertStores
  <2>5. /\ ToSet(u.left) \subseteq ToSet(u.task.data)
        /\ ToSet(u.task.data) \subseteq ToSet(u.left) \cup Stored
    BY DEF Tasks, GoodRunner
  <2> HIDE DEF w
  <2>6. PICK v : v = w
    OBVIOUS
  <2>7. GoodRunner(v)'
    BY <2>2, <2>3, <2>4, <2>5, <2>6 DEF GoodRunner
  <2> QED BY <1>1, <2>1, <2>6, <2>7 DEF Becomes
<1>6. ASSUME NEW u \in running, NEW committed \in BOOLEAN, InsertFail(u, committed)
      PROVE  \A v \in running' : GoodRunner(v)'
  <2>1. PICK v : v = [task |-> Cutback(u), left |-> u.left, outcome |-> "Fail"]
    OBVIOUS
  <2>2. Becomes(u, v)
    BY <1>6, <2>1, InsertFailEffect
  <2>3. Ascends(u.left) /\ v.left = u.left /\ v.task.data = u.left /\ v.outcome = "Fail"
    BY <2>1 DEF Cutback, Tasks, GoodRunner
  <2>4. GoodRunner(v)'
    BY <2>3 DEF GoodRunner
  <2> QED BY <1>1, <2>2, <2>4 DEF Becomes
<1>7. ASSUME NEW u \in running, SendBack(u)
      PROVE  \A v \in running' : GoodRunner(v)'
  BY <1>1, <1>7 DEF SendBack
<1>8. CASE ReceiveData \/ ReceiveDone \/ ReceiveFail \/ ReceiveExit
  BY <1>2, <1>8 DEF ReceiveData, ReceiveDone, ReceiveFail, ReceiveExit, Receive
<1>9. CASE AppendWithNotify \/ Finish \/ SchedulerExit \/ UNCHANGED vars
  BY <1>2, <1>9 DEF AppendWithNotify, Finish, SchedulerExit, vars
<1> QED BY <1>3, <1>4, <1>5, <1>6, <1>7, <1>8, <1>9 DEF Next

\* The channel: what a step adds to it.
LEMMA ChanStep ==
  ASSUME Types, [Next]_vars
  PROVE  \/ ToSet(chan') \subseteq ToSet(chan)
         \/ AppendWithNotify /\ ~exited /\ ToSet(chan') = ToSet(chan) \cup {Data(offered + 1)}
         \/ Finish /\ ToSet(chan') = ToSet(chan) \cup {Exit}
         \/ \E u \in running : SendBack(u) /\ ToSet(chan') = ToSet(chan) \cup {Back(u.outcome, u.task)}
<1> USE DEF clientVars, scheduleVars, dbVars
<1>1. CASE UNCHANGED chan
  BY <1>1
<1>2. ASSUME NEW kind, Receive(kind) PROVE ToSet(chan') \subseteq ToSet(chan)
  BY <1>2, Received
<1>3. CASE ReceiveData \/ ReceiveDone \/ ReceiveFail \/ ReceiveExit
  BY <1>2, <1>3 DEF ReceiveData, ReceiveDone, ReceiveFail, ReceiveExit
<1>4. CASE AppendWithNotify
  <2>1. offered + 1 \in Rows
    BY <1>4, AcceptedStep
  <2>2. CASE HasRoom /\ ~exited
    <3>1. chan' = Append(chan, Data(offered + 1)) /\ Data(offered + 1) \in Message
      BY <1>4, <2>1, <2>2, KindsMade DEF AppendWithNotify
    <3> QED BY <1>4, <2>2, <3>1, Sent
  <2>3. CASE ~(HasRoom /\ ~exited)
    BY <1>1, <1>4, <2>3 DEF AppendWithNotify
  <2> QED BY <2>2, <2>3
<1>5. CASE Finish
  BY <1>5, KindsMade, Sent DEF Finish
<1>6. ASSUME NEW u \in running, SendBack(u)
      PROVE  ToSet(chan') = ToSet(chan) \cup {Back(u.outcome, u.task)}
  <2>1. Back(u.outcome, u.task) \in Message
    BY <1>6, KindsMade DEF SendBack, Types, Runner
  <2> QED BY <1>6, <2>1, Sent DEF SendBack
<1>7. CASE SpawnError \/ SpawnNext \/ UNCHANGED vars
  BY <1>1, <1>7 DEF SpawnError, SpawnNext, vars
<1>8. CASE SchedulerExit
  BY <1>8 DEF SchedulerExit, ToSet
<1>9. CASE \E u \in running : InsertOk(u)
  BY <1>1, <1>9 DEF InsertOk
<1>10. CASE \E u \in running, committed \in BOOLEAN : InsertFail(u, committed)
  BY <1>1, <1>10 DEF InsertFail
<1> QED BY <1>3, <1>4, <1>5, <1>6, <1>7, <1>8, <1>9, <1>10 DEF Next

LEMMA TasksStep ==
  ASSUME Types, Types', Tasks, Places, InLine, Counters, [Next]_vars
  PROVE  Tasks'
<1>1. Stored \subseteq Stored'
  BY StoredStep
<1>2. \A m \in ToSet(chan) : m.kind = "Done" => ToSet(m.task.data) \subseteq Stored'
  BY <1>1 DEF Tasks
<1>3. \A m \in ToSet(chan') : m.kind = "Done" => ToSet(m.task.data) \subseteq Stored'
  <2>1. CASE ToSet(chan') \subseteq ToSet(chan)
    BY <1>2, <2>1
  <2>2. CASE AppendWithNotify /\ ToSet(chan') = ToSet(chan) \cup {Data(offered + 1)}
    BY <1>2, <2>2, AcceptedStep, KindsMade
  <2>3. CASE Finish /\ ToSet(chan') = ToSet(chan) \cup {Exit}
    BY <1>2, <2>3, KindsMade
  <2>4. ASSUME NEW u \in running, SendBack(u),
               ToSet(chan') = ToSet(chan) \cup {Back(u.outcome, u.task)}
        PROVE  \A m \in ToSet(chan') : m.kind = "Done" => ToSet(m.task.data) \subseteq Stored'
    <3> DEFINE b == Back(u.outcome, u.task)
    <3>1. b.kind = u.outcome /\ b.task = u.task
      BY DEF Back
    <3>2. u.outcome = "Done" => ToSet(u.task.data) \subseteq Stored
      <4>1. u.outcome = "Done" => u.left = <<>> /\ ToSet(u.task.data) \subseteq ToSet(u.left) \cup Stored
        BY DEF Tasks, GoodRunner
      <4>2. ToSet(<<>>) = {}
        BY DEF ToSet
      <4> QED BY <4>1, <4>2
    <3> HIDE DEF b
    <3>3. ToSet(chan') = ToSet(chan) \cup {b}
      BY <2>4 DEF b
    <3> QED BY <1>1, <1>2, <3>1, <3>2, <3>3
  <2> QED BY <2>1, <2>2, <2>3, <2>4, ChanStep
<1>4. \A x \in ToSet(next_task') : NewTask(x)
  BY NewTasksStep
<1>5. \A x \in Open' : GoodTask(x)
  BY OpenTasksStep
<1>6. \A u \in running' : GoodRunner(u)'
  BY RunnersStep
<1> QED BY <1>3, <1>4, <1>5, <1>6 DEF Tasks

(***************************************************************************)
(* The line keeps its order.                                               *)
(***************************************************************************)
LEMMA OrderedAppend ==
  ASSUME NEW s \in Seq(Task), NEW x \in Task
  PROVE  Ordered(Append(s, x)) <=> Ordered(s) /\ \A y \in ToSet(s) : Before(y, x)
<1> DEFINE t == Append(s, x)
           n == Len(s) + 1
<1>1. /\ n \in Nat /\ DOMAIN s = 1..Len(s) /\ DOMAIN t = 1..n /\ Len(s) \in Nat
      /\ \A i \in 1..Len(s) : t[i] = s[i]
      /\ t[n] = x
  OBVIOUS
<1> HIDE DEF t
<1>2. \A i \in DOMAIN s : i \in DOMAIN t /\ t[i] = s[i] /\ i < n
  BY <1>1
<1>3. \A i, j \in DOMAIN t : i < j => i \in DOMAIN s /\ (j \in DOMAIN s \/ j = n)
  BY <1>1
<1>4. n \in DOMAIN t
  BY <1>1
<1> HIDE DEF n
<1>5. Ordered(t) => Ordered(s) /\ \A y \in ToSet(s) : Before(y, x)
  BY <1>1, <1>2, <1>4 DEF Ordered, ToSet
<1>6. Ordered(s) /\ (\A y \in ToSet(s) : Before(y, x)) => Ordered(t)
  BY <1>1, <1>2, <1>3 DEF Ordered, ToSet
<1> QED BY <1>5, <1>6 DEF t

LEMMA OrderedTail ==
  ASSUME NEW s \in Seq(Task), s # <<>>, Ordered(s)
  PROVE  Ordered(Tail(s)) /\ \A y \in ToSet(Tail(s)) : Before(Head(s), y)
<1>1. /\ Len(s) \in Nat \ {0} /\ DOMAIN s = 1..Len(s) /\ DOMAIN Tail(s) = 1..Len(s) - 1
      /\ Head(s) = s[1] /\ \A i \in 1..Len(s) - 1 : Tail(s)[i] = s[i + 1]
  OBVIOUS
<1>2. \A i \in DOMAIN Tail(s) : /\ i + 1 \in DOMAIN s /\ 1 \in DOMAIN s /\ 1 < i + 1
                                /\ Tail(s)[i] = s[i + 1]
  BY <1>1
<1>3. \A i, j \in DOMAIN Tail(s) : i < j => i + 1 < j + 1
  BY <1>1
<1> QED BY <1>1, <1>2, <1>3 DEF Ordered, ToSet

LEMMA RowsTail ==
  ASSUME NEW c \in Seq(Message), c # <<>>, RowsAscend(c)
  PROVE  /\ RowsAscend(Tail(c))
         /\ Head(c).kind = "Data" =>
              \A m \in ToSet(Tail(c)) : m.kind = "Data" => Head(c).row < m.row
<1>1. /\ Len(c) \in Nat \ {0} /\ DOMAIN c = 1..Len(c) /\ DOMAIN Tail(c) = 1..Len(c) - 1
      /\ Head(c) = c[1] /\ \A i \in 1..Len(c) - 1 : Tail(c)[i] = c[i + 1]
  OBVIOUS
<1>2. \A i \in DOMAIN Tail(c) : /\ i + 1 \in DOMAIN c /\ 1 \in DOMAIN c /\ 1 < i + 1
                                /\ Tail(c)[i] = c[i + 1]
  BY <1>1
<1>3. \A i, j \in DOMAIN Tail(c) : i < j => i + 1 < j + 1
  BY <1>1
<1> QED BY <1>1, <1>2, <1>3 DEF RowsAscend, ToSet

LEMMA RowsAppend ==
  ASSUME NEW c \in Seq(Message), RowsAscend(c), NEW m \in Message,
         m.kind = "Data" => \A b \in ToSet(c) : b.kind = "Data" => b.row < m.row
  PROVE  RowsAscend(Append(c, m))
<1> DEFINE t == Append(c, m)
           n == Len(c) + 1
<1>1. /\ n \in Nat /\ DOMAIN c = 1..Len(c) /\ DOMAIN t = 1..n /\ Len(c) \in Nat
      /\ \A i \in 1..Len(c) : t[i] = c[i]
      /\ t[n] = m
  OBVIOUS
<1> HIDE DEF t
<1>2. \A i, j \in DOMAIN t : i < j => i \in DOMAIN c /\ (j \in DOMAIN c \/ j = n)
  BY <1>1
<1>3. \A i \in DOMAIN c : t[i] = c[i]
  BY <1>1
<1> HIDE DEF n
<1>4. RowsAscend(t)
  BY <1>1, <1>2, <1>3 DEF RowsAscend, ToSet
<1> QED BY <1>4 DEF t

LEMMA LineRows ==
  ASSUME Types, Places
  PROVE  /\ \A x \in ToSet(next_task) : ToSet(x.data) \subseteq Accepted
         /\ \A m \in ToSet(chan) : m.kind = "Data" =>
              m.row \in Accepted /\ Line(m.row) # 0 /\ Holds(With(m.row)) = 0
<1>1. next_task \in Seq(Task) /\ chan \in Seq(Message)
  BY DEF Types
<1>2. ASSUME NEW x \in ToSet(next_task), NEW r \in ToSet(x.data) PROVE r \in Accepted
  <2>1. r \in Rows
    <3>1. x \in Task
      BY <1>1 DEF ToSet
    <3>2. x.data \in Seq(Rows)
      BY <3>1 DEF Task
    <3> QED BY <3>2 DEF ToSet
  <2> QED BY <2>1, OneInLine DEF Places
<1>3. ASSUME NEW m \in ToSet(chan), m.kind = "Data"
      PROVE  m.row \in Accepted /\ Line(m.row) # 0 /\ Holds(With(m.row)) = 0
  <2>1. m.row \in Rows /\ m \in OfRow(m.row)
    BY <1>1, <1>3, Kinds DEF ToSet, OfRow
  <2>2. Hits(chan, OfRow(m.row)) # 0
    BY <1>1, <2>1, HitIn
  <2>3. Line(m.row) # 0
    BY <2>1, <2>2, LineCounts
  <2>4. Where(m.row) \in {0, 1} /\ (Where(m.row) = 1 => m.row \in Accepted)
    BY <2>1 DEF Places
  <2>5. Where(m.row) = Line(m.row) + Holds(With(m.row)) /\ Line(m.row) \in Nat
        /\ Holds(With(m.row)) \in Nat
    BY <2>1, WhereType
  <2> QED BY <2>3, <2>4, <2>5
<1> QED BY <1>2, <1>3

LEMMA InLineStep ==
  ASSUME Types, Places, InLine, [Next]_vars
  PROVE  InLine'
<1> USE DEF clientVars, scheduleVars, dbVars
<1>1. next_task \in Seq(Task) /\ chan \in Seq(Message)
  BY DEF Types
<1>2. ASSUME NEW m \in Message, m.kind # "Data", chan' = Append(chan, m), UNCHANGED next_task
      PROVE  InLine'
  <2>1. RowsAscend(chan')
    BY <1>1, <1>2, RowsAppend DEF InLine
  <2>2. ToSet(chan') = ToSet(chan) \cup {m}
    BY <1>1, <1>2, AppendElements
  <2> QED BY <1>2, <2>1, <2>2 DEF InLine
<1>3. ASSUME NEW kind, Receive(kind), UNCHANGED next_task PROVE InLine'
  <2>1. chan # <<>> /\ chan' = Tail(chan) /\ ToSet(chan') \subseteq ToSet(chan)
    BY <1>3, Received
  <2>2. RowsAscend(chan')
    BY <1>1, <2>1, RowsTail DEF InLine
  <2> QED BY <1>3, <2>1, <2>2 DEF InLine
<1>4. CASE UNCHANGED <<chan, next_task>>
  BY <1>4 DEF InLine
<1>5. CASE AppendWithNotify
  <2>1. UNCHANGED next_task /\ offered + 1 \in Rows
    BY <1>5, AcceptedStep DEF AppendWithNotify
  <2>2. CASE HasRoom /\ ~exited
    <3> DEFINE m == Data(offered + 1)
    <3>1. chan' = Append(chan, m) /\ m \in Message /\ m.row = offered + 1 /\ m.kind = "Data"
      BY <1>5, <2>1, <2>2, KindsMade DEF AppendWithNotify
    <3>2. offered \in Nat /\ \A r \in Accepted : r \in Nat /\ r <= offered
      BY AcceptedFacts, RowFacts
    <3>3. \A r \in Accepted : r < m.row
      BY <3>1, <3>2
    <3> HIDE DEF m
    <3>4. \A b \in ToSet(chan) : b.kind = "Data" => b.row < m.row
      BY <3>3, LineRows
    <3>5. RowsAscend(chan')
      BY <1>1, <3>1, <3>4, RowsAppend DEF InLine
    <3>6. ToSet(chan') = ToSet(chan) \cup {m}
      BY <1>1, <3>1, AppendElements
    <3>7. \A x \in ToSet(next_task) : \A q \in ToSet(x.data) : q < m.row
      BY <3>3, LineRows
    <3> QED BY <2>1, <3>5, <3>6, <3>7 DEF InLine
  <2>3. CASE ~(HasRoom /\ ~exited)
    BY <1>4, <1>5, <2>3 DEF AppendWithNotify
  <2> QED BY <2>2, <2>3
<1>6. CASE Finish
  BY <1>2, <1>6, KindsMade DEF Finish
<1>7. CASE ReceiveData
  <2>1. PICK f \in Seq(Task), x \in Task, r \in Rows :
           /\ Data(r) \in ToSet(chan) /\ Head(chan) = Data(r) /\ add_data(x, r) \in Task
           /\ next_task' = Append(f, add_data(x, r))
           /\ \/ x = EmptyTask /\ next_task = f
              \/ next_task = Append(f, x) /\ Len(x.data) < INSERT_LIMIT
    BY <1>7, Joins
  <2> DEFINE y == add_data(x, r)
  <2>2. ToSet(y.data) = ToSet(x.data) \cup {r}
    BY <2>1, AddData
  <2> HIDE DEF y
  <2>3. /\ Ordered(f) /\ \A z \in ToSet(f) : Before(z, x)
        /\ ToSet(f) \subseteq ToSet(next_task)
        /\ \A q \in ToSet(x.data) : \E z \in ToSet(next_task) : q \in ToSet(z.data)
    <3>1. CASE x = EmptyTask /\ next_task = f
      BY <3>1, NoTask DEF InLine, Before
    <3>2. CASE next_task = Append(f, x)
      BY <2>1, <3>2, OrderedAppend, AppendElements DEF InLine
    <3> QED BY <2>1, <3>1, <3>2
  <2>4. Data(r).kind = "Data" /\ Data(r).row = r
    BY KindsMade
  <2>5. chan # <<>> /\ chan' = Tail(chan) /\ ToSet(chan') \subseteq ToSet(chan)
    BY <1>7, Received DEF ReceiveData
  <2>6. \A z \in ToSet(next_task) : \A q \in ToSet(z.data) : q < r
    BY <2>1, <2>4 DEF InLine
  <2>7. \A z \in ToSet(f) : Before(z, y)
    BY <2>2, <2>3, <2>6 DEF Before
  <2>8. Ordered(next_task') /\ ToSet(next_task') = ToSet(f) \cup {y}
    BY <2>1, <2>3, <2>7, OrderedAppend, AppendElements DEF y
  <2>9. RowsAscend(chan') /\ \A m \in ToSet(chan') : m.kind = "Data" => r < m.row
    BY <1>1, <2>1, <2>4, <2>5, RowsTail DEF InLine
  <2>10. \A m \in ToSet(chan') : m.kind = "Data" => \A q \in ToSet(y.data) : q < m.row
    BY <2>2, <2>3, <2>5, <2>9 DEF InLine
  <2>11. \A z \in ToSet(f), m \in ToSet(chan') : m.kind = "Data" => \A q \in ToSet(z.data) : q < m.row
    BY <2>3, <2>5 DEF InLine
  <2> QED BY <2>8, <2>9, <2>10, <2>11 DEF InLine
<1>8. CASE ReceiveDone \/ ReceiveFail \/ ReceiveExit
  BY <1>3, <1>8 DEF ReceiveDone, ReceiveFail, ReceiveExit
<1>9. CASE SpawnNext
  <2>1. next_task # <<>> /\ next_task' = Tail(next_task) /\ UNCHANGED chan
    BY <1>9 DEF SpawnNext
  <2>2. Ordered(next_task')
    BY <1>1, <2>1, OrderedTail DEF InLine
  <2>3. ToSet(next_task') \subseteq ToSet(next_task)
    BY <1>1, <2>1, TailElements
  <2> QED BY <2>1, <2>2, <2>3 DEF InLine
<1>10. CASE SchedulerExit
  <2>1. chan' = <<>> /\ UNCHANGED next_task /\ ToSet(<<>>) = {} /\ DOMAIN <<>> = {}
    BY <1>10 DEF SchedulerExit, ToSet
  <2> QED BY <2>1 DEF InLine, RowsAscend
<1>11. CASE SpawnError \/ UNCHANGED vars
  BY <1>4, <1>11 DEF SpawnError, vars
<1>12. CASE \E u \in running : InsertOk(u)
  BY <1>4, <1>12 DEF InsertOk
<1>13. CASE \E u \in running, committed \in BOOLEAN : InsertFail(u, committed)
  BY <1>4, <1>13 DEF InsertFail
<1>14. ASSUME NEW u \in running, SendBack(u) PROVE InLine'
  <2>1. u.task \in Task /\ u.outcome \in {"Done", "Fail"}
    BY <1>14 DEF Types, Runner, SendBack
  <2>2. PICK m \in Message : m = Back(u.outcome, u.task) /\ m.kind # "Data"
    BY <2>1, KindsMade
  <2> QED BY <1>2, <1>14, <2>2 DEF SendBack
<1> QED BY <1>5, <1>6, <1>7, <1>8, <1>9, <1>10, <1>11, <1>12, <1>13, <1>14 DEF Next

(***************************************************************************)
(* The counters stay right.                                                *)
(***************************************************************************)
LEMMA QueuedRows ==
  ASSUME NEW s \in Seq(Task)
  PROVE  /\ Queued(s) = {r \in Rows : \E x \in ToSet(s) : r \in ToSet(x.data)}
         /\ IsFiniteSet(Queued(s)) /\ Cardinality(Queued(s)) \in Nat
<1>1. \A i \in DOMAIN s : s[i] \in Task
  OBVIOUS
<1>2. ASSUME NEW x \in Task PROVE ToSet(x.data) \subseteq Rows
  <2>1. x.data \in Seq(Rows)
    BY DEF Task
  <2> QED BY <2>1 DEF ToSet
<1>3. Queued(s) = {r \in Rows : \E i \in DOMAIN s : r \in ToSet(s[i].data)}
  BY <1>1, <1>2 DEF Queued
<1>4. Queued(s) = {r \in Rows : \E x \in ToSet(s) : r \in ToSet(x.data)}
  BY <1>3 DEF ToSet
<1>5. IsFiniteSet(Queued(s))
  BY <1>4, RowFacts, FS_Subset
<1> QED BY <1>4, <1>5, FS_CardinalityType

LEMMA AscendCard ==
  ASSUME NEW s \in Seq(Rows), Ascends(s)
  PROVE  IsFiniteSet(ToSet(s)) /\ Cardinality(ToSet(s)) = Len(s)
<1>1. DOMAIN s = 1..Len(s) /\ Len(s) \in Nat /\ \A i \in 1..Len(s) : s[i] \in Rows /\ s[i] \in Nat
  <2>1. DOMAIN s = 1..Len(s) /\ Len(s) \in Nat /\ \A i \in 1..Len(s) : s[i] \in Rows
    OBVIOUS
  <2> QED BY <2>1, RowFacts
<1>2. s \in [1..Len(s) -> ToSet(s)]
  BY <1>1 DEF ToSet
<1>3. \A i, j \in 1..Len(s) : s[i] = s[j] => i = j
  <2> SUFFICES ASSUME NEW i \in 1..Len(s), NEW j \in 1..Len(s), i < j PROVE s[i] # s[j]
    BY <1>1
  <2>1. s[i] < s[j]
    BY <1>1 DEF Ascends
  <2> QED BY <1>1, <2>1
<1>4. \A r \in ToSet(s) : \E i \in 1..Len(s) : s[i] = r
  BY <1>1 DEF ToSet
<1>5. s \in Bijection(1..Len(s), ToSet(s))
  BY <1>2, <1>3, <1>4 DEF Bijection, Injection, Surjection, IsInjective
<1>6. ExistsBijection(1..Len(s), ToSet(s))
  BY <1>5 DEF ExistsBijection
<1>7. IsFiniteSet(1..Len(s)) /\ Cardinality(1..Len(s)) = Len(s)
  <2>1. Len(s) \in Nat
    OBVIOUS
  <2> QED BY <2>1, FS_Interval
<1> QED BY <1>6, <1>7, FS_Bijection

LEMMA PendingStep ==
  ASSUME Types, Tasks, Places, Counters, [Next]_vars
  PROVE  pending_count' = Cardinality(Queued(next_task'))
<1> USE DEF clientVars, scheduleVars, dbVars
<1>1. CASE UNCHANGED <<next_task, pending_count>>
  BY <1>1 DEF Counters
<1>2. next_task \in Seq(Task) /\ chan \in Seq(Message)
  BY DEF Types
<1>3. CASE ReceiveData
  <2>1. PICK f \in Seq(Task), x \in Task, r \in Rows :
           /\ Data(r) \in ToSet(chan) /\ add_data(x, r) \in Task
           /\ next_task' = Append(f, add_data(x, r))
           /\ \/ x = EmptyTask /\ next_task = f
              \/ next_task = Append(f, x) /\ Len(x.data) < INSERT_LIMIT
    BY <1>3, Joins
  <2>2. ToSet(add_data(x, r).data) = ToSet(x.data) \cup {r}
    BY <2>1, AddData
  <2>3. next_task' \in Seq(Task) /\ ToSet(next_task') = ToSet(f) \cup {add_data(x, r)}
    BY <2>1, AppendElements
  <2>4. \A q \in Rows : (\E y \in ToSet(next_task) : q \in ToSet(y.data))
                    <=> (\E y \in ToSet(f) : q \in ToSet(y.data)) \/ q \in ToSet(x.data)
    <3>1. CASE x = EmptyTask /\ next_task = f
      BY <3>1, NoTask
    <3>2. CASE next_task = Append(f, x)
      BY <2>1, <3>2, AppendElements
    <3> QED BY <2>1, <3>1, <3>2
  <2>5. \A q \in Rows : (\E y \in ToSet(next_task') : q \in ToSet(y.data))
                    <=> (\E y \in ToSet(next_task) : q \in ToSet(y.data)) \/ q = r
    BY <2>2, <2>3, <2>4
  <2>6. Queued(next_task') = Queued(next_task) \cup {r}
    <3>1. /\ Queued(next_task') = {q \in Rows : \E y \in ToSet(next_task') : q \in ToSet(y.data)}
          /\ Queued(next_task) = {q \in Rows : \E y \in ToSet(next_task) : q \in ToSet(y.data)}
      BY <1>2, <2>3, QueuedRows
    <3> QED BY <2>1, <2>5, <3>1
  <2>7. r \notin Queued(next_task)
    <3>1. Hits(chan, OfRow(r)) # 0
      BY <1>2, <2>1, HitIn DEF OfRow
    <3>2. \A y \in ToSet(next_task) : r \notin ToSet(y.data)
      BY <2>1, <3>1, OneInLine
    <3> QED BY <1>2, <3>2, QueuedRows
  <2>8. Cardinality(Queued(next_task) \cup {r}) = Cardinality(Queued(next_task)) + 1
    BY <1>2, <2>7, QueuedRows, FS_AddElement
  <2> QED BY <1>3, <2>6, <2>8 DEF ReceiveData, Counters
<1>4. CASE SpawnNext
  <2> DEFINE A == Queued(next_task')
  <2>1. PICK x \in Task : x = Head(next_task) /\ GoodTask(x)
    BY <1>4, NextEffect, OpenTasks DEF Tasks, NewTask
  <2>2. /\ next_task # <<>> /\ next_task' = Tail(next_task)
        /\ pending_count' = pending_count - Len(x.data)
    BY <1>4, <2>1 DEF SpawnNext
  <2>3. /\ next_task' \in Seq(Task) /\ ToSet(next_task) = {x} \cup ToSet(next_task')
    BY <1>2, <2>1, <2>2, TailElements
  <2>4. IsFiniteSet(ToSet(x.data)) /\ Cardinality(ToSet(x.data)) = Len(x.data) /\ Len(x.data) \in Nat
    BY <2>1, AscendCard DEF GoodTask, Task
  <2>5. ToSet(x.data) \subseteq Rows
    BY <2>1, RowsOf
  <2>6. Queued(next_task) = A \cup ToSet(x.data)
    BY <1>2, <2>3, <2>5, QueuedRows
  <2>7. A \cap ToSet(x.data) = {}
    <3> SUFFICES ASSUME NEW r \in Rows, r \in ToSet(x.data),
                        NEW y \in ToSet(next_task'), r \in ToSet(y.data)
                 PROVE  FALSE
      <4>1. A = {q \in Rows : \E y \in ToSet(next_task') : q \in ToSet(y.data)}
        BY <2>3, QueuedRows
      <4> QED BY <2>5, <4>1
    <3>1. x \in ToSet(next_task) /\ x \in With(r) /\ y \in With(r)
      BY <2>1, <2>3, OpenTasks DEF With
    <3>2. Hits(next_task, With(r)) = 1
      BY <3>1, OneInLine
    <3>3. Hits(next_task', With(r)) = Hits(next_task, With(r)) - 1
      <4>1. Hits(Tail(next_task), With(r)) =
               Hits(next_task, With(r)) - (IF Head(next_task) \in With(r) THEN 1 ELSE 0)
        BY <1>2, <2>2, TailHits
      <4> QED BY <2>1, <2>2, <3>1, <4>1
    <3>4. Hits(next_task', With(r)) # 0
      BY <2>3, <3>1, HitIn
    <3> QED BY <3>2, <3>3, <3>4
  <2>8. IsFiniteSet(A) /\ Cardinality(A) \in Nat
    BY <2>3, QueuedRows
  <2> HIDE DEF A
  <2>9. Cardinality(A \cup ToSet(x.data)) =
           Cardinality(A) + Cardinality(ToSet(x.data)) - Cardinality(A \cap ToSet(x.data))
    BY <2>4, <2>8, FS_Union
  <2>10. Cardinality(Queued(next_task)) = Cardinality(A) + Len(x.data)
    <3>1. Cardinality(A \cap ToSet(x.data)) = 0
      BY <2>7, FS_EmptySet
    <3>2. Cardinality(Queued(next_task)) = Cardinality(A \cup ToSet(x.data))
      BY <2>6
    <3> QED BY <2>4, <2>8, <2>9, <3>1, <3>2
  <2>11. pending_count = Cardinality(Queued(next_task))
    BY DEF Counters
  <2>12. pending_count' = Cardinality(A)
    BY <2>2, <2>4, <2>8, <2>10, <2>11
  <2> QED BY <2>12 DEF A
<1>5. CASE ReceiveDone \/ ReceiveFail \/ ReceiveExit
  BY <1>1, <1>5 DEF ReceiveDone, ReceiveFail, ReceiveExit
<1>6. CASE AppendWithNotify \/ Finish \/ SpawnError \/ SchedulerExit \/ UNCHANGED vars
  BY <1>1, <1>6 DEF AppendWithNotify, Finish, SpawnError, SchedulerExit, vars
<1>7. CASE \E u \in running : InsertOk(u) \/ SendBack(u)
  BY <1>1, <1>7 DEF InsertOk, SendBack
<1>8. CASE \E u \in running, committed \in BOOLEAN : InsertFail(u, committed)
  BY <1>1, <1>8 DEF InsertFail
<1> QED BY <1>3, <1>4, <1>5, <1>6, <1>7, <1>8 DEF Next

LEMMA SpawningStep ==
  ASSUME Types, Tasks, Places, Counters, [Next]_vars
  PROVE  spawning_tasks' = Holds(Task)'
<1> USE DEF clientVars, scheduleVars, dbVars
<1>1. spawning_tasks = Holds(Task) /\ Holds(Task) \in Nat
  BY HoldsType DEF Counters
<1>2. ASSUME Keeps, UNCHANGED spawning_tasks PROVE spawning_tasks' = Holds(Task)'
  BY <1>1, <1>2 DEF Keeps
<1>3. CASE Moves
  BY <1>2, <1>3, MovesAreQuiet DEF Quiet
<1>4. CASE AppendWithNotify
  BY <1>2, <1>4, AppendEffect DEF AppendWithNotify
<1>5. CASE ReceiveDone
  <2>1. Head(chan).task \in Task
    BY <1>5, Received, Kinds DEF ReceiveDone
  <2>2. Holds(Task)' = Holds(Task) - In(Head(chan).task, Task)
    BY <1>5, DoneEffect
  <2> QED BY <1>1, <1>5, <2>1, <2>2 DEF In, ReceiveDone
<1>6. CASE SpawnNext
  <2>1. Head(next_task) \in Task
    BY <1>6, NextEffect, OpenTasks
  <2>2. Holds(Task)' = Holds(Task) + In(Head(next_task), Task)
    BY <1>6, NextEffect
  <2> QED BY <1>1, <1>6, <2>1, <2>2 DEF In, SpawnNext
<1>7. CASE SchedulerExit
  BY <1>2, <1>7, LeaveEffect DEF SchedulerExit
<1>8. ASSUME NEW u \in running, NEW committed \in BOOLEAN, InsertFail(u, committed)
      PROVE  spawning_tasks' = Holds(Task)'
  <2>1. Holds(Task)' = Holds(Task) - In(u.task, Task) + In(Cutback(u), Task)
    BY <1>8, InsertFailEffect
  <2>2. In(u.task, Task) = 1 /\ In(Cutback(u), Task) = 1
    BY <1>8, InsertFailEffect, OpenTasks DEF In
  <2> QED BY <1>1, <1>8, <2>1, <2>2 DEF InsertFail
<1> QED BY <1>3, <1>4, <1>5, <1>6, <1>7, <1>8, StepKinds

LEMMA CountersStep ==
  ASSUME Types, Tasks, Places, Counters, [Next]_vars
  PROVE  Counters'
<1> USE DEF clientVars, scheduleVars, dbVars
<1>1. finishing => finishing'
  BY DEF Next, AppendWithNotify, Finish, ReceiveData, ReceiveDone, ReceiveFail, ReceiveExit, Receive,
         SpawnError, SpawnNext, SchedulerExit, InsertOk, InsertFail, SendBack, vars
<1>2. Exit \in ToSet(chan') => finishing'
  <2>1. CASE ToSet(chan') \subseteq ToSet(chan)
    BY <1>1, <2>1 DEF Counters
  <2>2. CASE AppendWithNotify /\ ToSet(chan') = ToSet(chan) \cup {Data(offered + 1)}
    BY <1>1, <2>2, AcceptedStep, KindsMade DEF Counters
  <2>3. CASE Finish
    BY <2>3 DEF Finish
  <2>4. ASSUME NEW u \in running, SendBack(u),
               ToSet(chan') = ToSet(chan) \cup {Back(u.outcome, u.task)}
        PROVE  Exit \in ToSet(chan') => finishing'
    <3>1. Exit # Back(u.outcome, u.task)
      BY <2>4 DEF SendBack, Exit, Back
    <3> QED BY <1>1, <2>4, <3>1 DEF Counters
  <2> QED BY <2>1, <2>2, <2>3, <2>4, ChanStep
<1>3. grace_down' => finishing'
  <2>1. CASE ReceiveExit
    <3>1. Head(chan) \in ToSet(chan) /\ Head(chan) = Exit
      BY <2>1, Received, Kinds DEF ReceiveExit
    <3> QED BY <1>1, <3>1 DEF Counters
  <2>2. CASE UNCHANGED grace_down
    BY <1>1, <2>2 DEF Counters
  <2> QED BY <2>1, <2>2
      DEF Next, AppendWithNotify, Finish, ReceiveData, ReceiveDone, ReceiveFail, Receive,
          SpawnError, SpawnNext, SchedulerExit, InsertOk, InsertFail, SendBack, vars
<1>4. exited' => grace_down'
  BY DEF Counters, Next, AppendWithNotify, Finish, ReceiveData, ReceiveDone, ReceiveFail, ReceiveExit,
         Receive, SpawnError, SpawnNext, SchedulerExit, MayExit, InsertOk, InsertFail, SendBack, vars
<1> QED BY <1>2, <1>3, <1>4, PendingStep, SpawningStep DEF Counters

(***************************************************************************)
(* A row that is still to be inserted has been so before.                  *)
(***************************************************************************)
LEMMA TodoNext ==
  ASSUME NEW r, Todo(r)'
  PROVE  \/ Line(r)' # 0
         \/ \E x \in ToSet(error_task') : r \in ToSet(x.data)
         \/ \E m \in ToSet(chan') : m.kind = "Fail" /\ r \in ToSet(m.task.data)
         \/ \E u \in running' : r \in ToSet(u.left)
  BY DEF Todo

LEMMA TodoStep ==
  ASSUME Types, Tasks, Places, Counters, [Next]_vars, NEW r \in Rows, Todo(r)'
  PROVE  Todo(r) \/ (AppendWithNotify /\ r = offered + 1)
<1> USE DEF clientVars, scheduleVars, dbVars
<1>1. CASE AppendWithNotify
  <2>1. CASE r # offered + 1
    <3>1. Line(r)' # 0 => Line(r) # 0
      BY <1>1, <2>1, AppendEffect, LineCounts
    <3>2. ToSet(chan') \subseteq ToSet(chan) \cup {Data(offered + 1)}
      BY <1>1, ChanStep DEF AppendWithNotify, Finish, SendBack
    <3>3. Data(offered + 1).kind # "Fail"
      BY DEF Data
    <3>4. UNCHANGED <<error_task, running>>
      BY <1>1 DEF AppendWithNotify
    <3> QED BY <3>1, <3>2, <3>3, <3>4, TodoNext DEF Todo
  <2> QED BY <1>1, <2>1
<1>2. CASE Finish
  <2>1. Line(r)' = Line(r)
    BY <1>2, FinishEffect DEF KeepsLine
  <2>2. ToSet(chan') = ToSet(chan) \cup {Exit} /\ Exit.kind # "Fail"
    BY <1>2, KindsMade, Sent DEF Finish
  <2>3. UNCHANGED <<error_task, running>>
    BY <1>2 DEF Finish
  <2> QED BY <2>1, <2>2, <2>3, TodoNext DEF Todo
<1>3. ASSUME NEW kind, Receive(kind), Line(r)' = Line(r),
             \A x \in ToSet(error_task') : \/ x \in ToSet(error_task)
                                           \/ kind = "Fail" /\ x = Head(chan).task
      PROVE  Todo(r)
  <2>1. /\ Head(chan) \in ToSet(chan) /\ Head(chan).kind = kind /\ ToSet(chan') \subseteq ToSet(chan)
        /\ UNCHANGED running
    BY <1>3, Received
  <2> QED BY <1>3, <2>1, TodoNext DEF Todo
<1>4. CASE ReceiveData
  BY <1>3, <1>4, DataEffect DEF ReceiveData, KeepsLine
<1>5. CASE ReceiveDone
  BY <1>3, <1>5, DoneEffect DEF ReceiveDone, KeepsLine
<1>6. CASE ReceiveFail
  <2>1. Head(chan).task \in Task /\ error_task \in Seq(Task)
    BY <1>6, Received, Kinds DEF ReceiveFail, Types
  <2>2. ToSet(error_task') = ToSet(error_task) \cup {Head(chan).task}
    BY <1>6, <2>1, AppendElements DEF ReceiveFail
  <2> QED BY <1>3, <1>6, <2>2, FailEffect DEF ReceiveFail, KeepsLine
<1>7. CASE ReceiveExit
  BY <1>3, <1>7, ExitEffect DEF ReceiveExit, KeepsLine
<1>8. CASE SpawnError
  <2>1. /\ Line(r)' = Line(r) /\ UNCHANGED chan
        /\ running' = running \cup {Spawned(Head(error_task))}
    BY <1>8, ErrorEffect DEF SpawnError, KeepsLine
  <2>2. ToSet(error_task) = {Head(error_task)} \cup ToSet(error_task')
    BY <1>8, TailElements DEF SpawnError, Types
  <2>3. Spawned(Head(error_task)).left = Head(error_task).data
    BY DEF Spawned
  <2> QED BY <2>1, <2>2, <2>3, TodoNext DEF Todo
<1>9. CASE SpawnNext
  <2>1. PICK x \in ToSet(next_task) : x = Head(next_task)
    BY <1>9, NextEffect
  <2>2. /\ Line(r)' = Line(r) - In(x, With(r)) /\ UNCHANGED <<chan, error_task>>
        /\ running' = running \cup {Spawned(x)}
    BY <1>9, <2>1, NextEffect DEF SpawnNext
  <2>3. r \in ToSet(x.data) => Line(r) = 1 /\ In(x, With(r)) = 1
    BY <2>1, OneInLine, OpenTasks DEF In, With
  <2>4. r \notin ToSet(x.data) => In(x, With(r)) = 0
    BY DEF In, With
  <2>5. Line(r)' # 0 => Line(r) # 0
    BY <2>2, <2>3, <2>4, WhereType
  <2>6. Spawned(x).left = x.data
    BY DEF Spawned
  <2> QED BY <2>2, <2>3, <2>5, <2>6, TodoNext DEF Todo
<1>10. CASE SchedulerExit
  <2>1. Line(r)' = 0 /\ UNCHANGED <<error_task, running>> /\ ToSet(chan') = {}
    BY <1>10, LeaveEffect DEF SchedulerExit, ToSet
  <2> QED BY <2>1, TodoNext DEF Todo
<1>11. ASSUME NEW u \in running, InsertOk(u) PROVE Todo(r)
  <2> DEFINE w == [u EXCEPT !.left = Rest(u),
                            !.outcome = IF Rest(u) = <<>> THEN "Done" ELSE "running"]
  <2>1. /\ Line(r)' = Line(r) /\ UNCHANGED <<chan, error_task>> /\ Becomes(u, w)
        /\ u \in Runner /\ u.outcome = "running"
    BY <1>11, OkEffect DEF InsertOk, KeepsLine, Types
  <2>2. w.left = Rest(u)
    BY <2>1 DEF Runner
  <2>3. ToSet(Rest(u)) \subseteq ToSet(u.left)
    BY <2>1, StatementOf
  <2> HIDE DEF w
  <2> QED BY <2>1, <2>2, <2>3, TodoNext DEF Todo, Becomes
<1>12. ASSUME NEW u \in running, NEW committed \in BOOLEAN, InsertFail(u, committed) PROVE Todo(r)
  <2> DEFINE w == [task |-> Cutback(u), left |-> u.left, outcome |-> "Fail"]
  <2>1. Line(r)' = Line(r) /\ UNCHANGED <<chan, error_task>> /\ Becomes(u, w)
    BY <1>12, InsertFailEffect DEF InsertFail, KeepsLine
  <2>2. w.left = u.left
    OBVIOUS
  <2> HIDE DEF w
  <2> QED BY <2>1, <2>2, TodoNext DEF Todo, Becomes
<1>13. ASSUME NEW u \in running, SendBack(u) PROVE Todo(r)
  <2> DEFINE b == Back(u.outcome, u.task)
  <2>1. Line(r)' = Line(r) /\ UNCHANGED error_task /\ running' \subseteq running
    BY <1>13, BackEffect DEF SendBack, KeepsLine
  <2>2. b \in Message /\ b.kind = u.outcome /\ b.task = u.task
    BY <1>13, KindsMade DEF SendBack, Types, Runner
  <2>3. ToSet(chan') = ToSet(chan) \cup {b}
    BY <1>13, <2>2, Sent DEF SendBack
  <2>4. u.outcome = "Fail" => u.left = u.task.data
    BY DEF Tasks, GoodRunner
  <2> HIDE DEF b
  <2> QED BY <2>1, <2>2, <2>3, <2>4, TodoNext DEF Todo
<1>14. CASE UNCHANGED vars
  <2>1. Line(r)' = Line(r)
    BY <1>14, MovesAreQuiet DEF Moves, Quiet, KeepsLine
  <2> QED BY <1>14, <2>1, TodoNext DEF vars, Todo
<1> QED BY <1>1, <1>2, <1>4, <1>5, <1>6, <1>7, <1>8, <1>9, <1>10, <1>11, <1>12, <1>13, <1>14 DEF Next

\* After its statement a row is not to be inserted again.
LEMMA StatementDone ==
  ASSUME Types, Tasks, Places, NEW u \in running, InsertOk(u), NEW r \in Statement(u)
  PROVE  ~Todo(r)'
<1> DEFINE w == [u EXCEPT !.left = Rest(u),
                          !.outcome = IF Rest(u) = <<>> THEN "Done" ELSE "running"]
<1>1. /\ UNCHANGED <<chan, error_task>> /\ Becomes(u, w) /\ u \in Runner /\ u.outcome = "running"
  BY DEF InsertOk, scheduleVars, Types
<1>2. w.left = Rest(u)
  BY <1>1 DEF Runner
<1>3. /\ r \in Rows /\ r \notin ToSet(Rest(u)) /\ r \in ToSet(u.task.data)
  BY <1>1, StatementOf, RunnerRows
<1>4. Line(r)' = 0
  BY <1>3, OkEffect, OneRunner DEF KeepsLine
<1>5. /\ \A x \in ToSet(error_task) : r \notin ToSet(x.data)
      /\ \A m \in ToSet(chan) : m.kind \in {"Done", "Fail"} => r \notin ToSet(m.task.data)
      /\ \A v \in running : r \in ToSet(v.task.data) => v = u
  BY <1>3, OneRunner
<1>6. \A v \in running : ToSet(v.left) \subseteq ToSet(v.task.data)
  BY RunnerRows
<1> HIDE DEF w
<1> QED BY <1>1, <1>2, <1>3, <1>4, <1>5, <1>6, TodoNext DEF Becomes

LEMMA OnceStep ==
  ASSUME Types, Tasks, Places, Counters, Once, [Next]_vars
  PROVE  Once'
<1> USE DEF clientVars, scheduleVars, dbVars
<1> SUFFICES ASSUME NEW r \in Rows, r \notin doubtful'
             PROVE  table'[r] <= 1 /\ (Todo(r)' => table'[r] = 0)
  BY DEF Once
<1>1. table[r] \in Nat
  BY DEF Types
<1>2. doubtful \subseteq doubtful'
  BY DEF Next, AppendWithNotify, Finish, ReceiveData, ReceiveDone, ReceiveFail, ReceiveExit, Receive,
         SpawnError, SpawnNext, SchedulerExit, InsertOk, InsertFail, SendBack, vars
<1>3. table[r] <= 1 /\ (Todo(r) => table[r] = 0)
  BY <1>2 DEF Once
<1>4. AppendWithNotify /\ r = offered + 1 => table[r] = 0
  <2>1. ASSUME AppendWithNotify, r = offered + 1 PROVE table[r] = 0
    <3>1. r \notin Stored
      BY <2>1, AcceptedFacts DEF Places
    <3> QED BY <1>1, <3>1 DEF Stored
  <2> QED BY <2>1
<1>5. Todo(r)' => table[r] = 0
  BY <1>3, <1>4, TodoStep
<1>6. CASE UNCHANGED table
  BY <1>3, <1>5, <1>6
<1>7. ASSUME NEW u \in running, InsertOk(u)
      PROVE  table'[r] <= 1 /\ (Todo(r)' => table'[r] = 0)
  <2>1. table' = Inserted(Statement(u)) /\ u.outcome = "running"
    BY <1>7 DEF InsertOk
  <2>2. CASE r \in Statement(u)
    <3>1. Todo(r)
      BY <2>1, <2>2, StatementOf DEF Todo
    <3>2. table'[r] = table[r] + 1
      BY <2>1, <2>2 DEF Inserted
    <3> QED BY <1>3, <1>7, <2>2, <3>1, <3>2, StatementDone
  <2>3. CASE r \notin Statement(u)
    <3>1. table'[r] = table[r]
      BY <2>1, <2>3 DEF Inserted
    <3> QED BY <1>3, <1>5, <3>1
  <2> QED BY <2>2, <2>3
<1>8. ASSUME NEW u \in running, NEW committed \in BOOLEAN, InsertFail(u, committed)
      PROVE  table'[r] <= 1 /\ (Todo(r)' => table'[r] = 0)
  <2>1. CASE committed
    <3>1. table' = Inserted(Statement(u)) /\ doubtful' = doubtful \cup Statement(u)
      BY <1>8, <2>1 DEF InsertFail
    <3>2. table'[r] = table[r]
      BY <3>1 DEF Inserted
    <3> QED BY <1>3, <1>5, <3>2
  <2>2. CASE ~committed
    BY <1>6, <1>8, <2>2 DEF InsertFail
  <2> QED BY <2>1, <2>2
<1>9. CASE ReceiveData \/ ReceiveDone \/ ReceiveFail \/ ReceiveExit
  BY <1>6, <1>9 DEF ReceiveData, ReceiveDone, ReceiveFail, ReceiveExit, Receive
<1>10. CASE AppendWithNotify \/ Finish \/ SpawnError \/ SpawnNext \/ SchedulerExit \/ UNCHANGED vars
  BY <1>6, <1>10 DEF AppendWithNotify, Finish, SpawnError, SpawnNext, SchedulerExit, vars
<1>11. CASE \E u \in running : SendBack(u)
  BY <1>6, <1>11 DEF SendBack
<1> QED BY <1>7, <1>8, <1>9, <1>10, <1>11 DEF Next

(***************************************************************************)
(* What the operations on a stack do.                                      *)
(***************************************************************************)
LEMMA PushTop ==
  ASSUME NEW s \in Seq(Entry), Sorted(s), NEW n \in Nat,
         \A d \in ToSet(s) : n > d.n /\ n > d.mark
  PROVE  /\ Sorted(push_top(s, n))
         /\ ToSet(push_top(s, n)) = ToSet(s) \cup {[n |-> n, mark |-> NoMark]}
         /\ \A p \in Nat : Hits(push_top(s, n), At(p)) = Hits(s, At(p)) + (IF n = p THEN 1 ELSE 0)
<1> DEFINE e == [n |-> n, mark |-> NoMark]
           q == Append(s, e)
<1>1. /\ DOMAIN s = 1..Len(s) /\ Len(s) \in Nat
      /\ \A i \in DOMAIN s : s[i] \in Entry /\ s[i].n \in Nat /\ s[i].mark \in Int
  BY Entries
<1>2. \A i \in DOMAIN s : n > s[i].n /\ n > s[i].mark
  BY DEF ToSet
<1>3. e \in Entry /\ e.n = n /\ e.mark = NoMark
  BY DEF Entry
<1>4. push_top(s, n) = q
  <2> DEFINE D == {i \in DOMAIN s : s[i].n <= n}
             k == Cardinality(D)
  <2>1. D = 1..Len(s)
    BY <1>1, <1>2
  <2>2. k = Len(s)
    <3>1. Len(s) \in Nat
      BY <1>1
    <3>2. Cardinality(1..Len(s)) = Len(s)
      BY <3>1, FS_Interval
    <3> QED BY <2>1, <3>2
  <2> HIDE DEF e, k
  <2>3. push_top(s, n) = SubSeq(s, 1, Len(s)) \o <<e>> \o SubSeq(s, Len(s) + 1, Len(s))
    <3>1. push_top(s, n) = SubSeq(s, 1, (1 + k) - 1) \o <<e>> \o SubSeq(s, 1 + k, Len(s))
      BY DEF push_top, InsertAt, e, k
    <3>2. (1 + k) - 1 = Len(s) /\ 1 + k = Len(s) + 1
      BY <1>1, <2>2
    <3> QED BY <3>1, <3>2
  <2>4. SubSeq(s, 1, Len(s)) = s /\ SubSeq(s, Len(s) + 1, Len(s)) = <<>>
    BY <1>1, SubSeqEmpty
  <2>5. s \o <<e>> \o <<>> = Append(s, e)
    BY <1>3
  <2> QED BY <2>3, <2>4, <2>5
<1> HIDE DEF e
<1>5. /\ DOMAIN q = 1..Len(s) + 1 /\ \A i \in 1..Len(s) : q[i] = s[i]
      /\ q[Len(s) + 1] = e
  BY <1>1, <1>3
<1>6. ToSet(q) = ToSet(s) \cup {e}
  BY <1>3, AppendElements
<1>7. ASSUME NEW p \in Nat
      PROVE  Hits(q, At(p)) = Hits(s, At(p)) + (IF n = p THEN 1 ELSE 0)
  <2>1. e \in At(p) <=> n = p
    BY <1>3 DEF At
  <2>2. Hits(q, At(p)) = Hits(s, At(p)) + (IF e \in At(p) THEN 1 ELSE 0)
    BY <1>3, AppendHits
  <2> QED BY <2>1, <2>2
<1> HIDE DEF q
<1>8. Sorted(q)
  <2>1. ASSUME NEW i \in DOMAIN q, NEW j \in DOMAIN q, i < j
        PROVE  q[i].n < q[j].n /\ q[i].mark < q[j].n
    <3>1. i \in DOMAIN s /\ q[i] = s[i]
      BY <1>1, <1>5, <2>1
    <3>2. CASE j \in DOMAIN s
      BY <1>1, <1>5, <2>1, <3>1, <3>2 DEF Sorted
    <3>3. CASE j = Len(s) + 1
      BY <1>1, <1>2, <1>3, <1>5, <3>1, <3>3
    <3> QED BY <1>1, <1>5, <3>2, <3>3
  <2>2. ASSUME NEW i \in DOMAIN q
        PROVE  q[i].mark = NoMark \/ q[i].mark > q[i].n
    BY <1>1, <1>3, <1>5 DEF Sorted
  <2> QED BY <2>1, <2>2 DEF Sorted
<1> QED BY <1>4, <1>6, <1>7, <1>8 DEF e

\* The entry that finishes leaves the stack, and the one below it, if there
\* is one, takes over what has been finished.
LEMMA PopForm ==
  ASSUME NEW s \in Seq(Entry), Sorted(s), NEW k \in DOMAIN s
  PROVE  \E w \in Seq(Entry) :
           /\ DOMAIN w = DOMAIN s
           /\ \A i \in DOMAIN s :
                w[i].n = s[i].n /\ w[i].mark = IF i = k - 1 THEN Top(s[k]) ELSE s[i].mark
           /\ pop_top(s, s[k].n).stack = RemoveAt(w, k)
           /\ pop_top(s, s[k].n).out = IF k = 1 THEN Top(s[k]) ELSE NoMark
<1> DEFINE n == s[k].n
           j == Cardinality({i \in 1..Len(s) - 1 : s[i].n < n})
           Or(m) == IF s[j + 1].mark # NoMark THEN s[j + 1].mark ELSE m
<1>1. /\ DOMAIN s = 1..Len(s) /\ Len(s) \in Nat /\ k \in 1..Len(s)
      /\ \A i \in DOMAIN s : s[i] \in Entry /\ s[i].n \in Nat /\ s[i].mark \in Int /\ Top(s[i]) \in Nat
  BY Entries
<1>2. j = k - 1
  <2>1. {i \in 1..Len(s) - 1 : s[i].n < n} = 1..k - 1
    <3>1. ASSUME NEW i \in 1..Len(s) - 1 PROVE s[i].n < n <=> i < k
      <4>1. i \in DOMAIN s /\ k \in DOMAIN s /\ s[i].n \in Nat /\ s[k].n \in Nat
        BY <1>1
      <4>2. i < k => s[i].n < s[k].n
        BY <4>1 DEF Sorted
      <4>3. k < i => s[k].n < s[i].n
        BY <4>1 DEF Sorted
      <4>4. i < k \/ i = k \/ k < i
        BY <1>1
      <4> QED BY <4>1, <4>2, <4>3, <4>4
    <3>2. {i \in 1..Len(s) - 1 : i < k} = 1..k - 1
      BY <1>1
    <3> HIDE DEF n
    <3> QED BY <3>1, <3>2
  <2>2. Cardinality(1..k - 1) = k - 1
    <3>1. k - 1 \in Nat
      BY <1>1
    <3> QED BY <3>1, FS_Interval
  <2> QED BY <2>1, <2>2
<1>3. s # <<>>
  BY <1>1
<1>4. pop_top(s, n) =
        IF j = 0 THEN [stack |-> Tail(s), out |-> Or(s[j + 1].n)]
        ELSE [stack |-> RemoveAt([s EXCEPT ![j].mark = Or(n)], j + 1), out |-> NoMark]
  BY <1>3 DEF pop_top
<1>5. s[j + 1] = s[k] /\ Or(n) = Top(s[k])
  BY <1>1, <1>2 DEF Top
<1> HIDE DEF j, Or
<1>6. CASE k = 1
  <2>1. pop_top(s, n) = [stack |-> Tail(s), out |-> Top(s[k])]
    BY <1>1, <1>2, <1>4, <1>5, <1>6
  <2>2. RemoveAt(s, k) = Tail(s)
    BY <1>3, <1>6, RemoveFirstIsTail
  <2>3. \A i \in DOMAIN s : i # k - 1
    BY <1>1, <1>6
  <2> QED BY <1>6, <2>1, <2>2, <2>3
<1>7. CASE k # 1
  <2> DEFINE w == [s EXCEPT ![k - 1].mark = Top(s[k])]
  <2>1. k - 1 \in DOMAIN s /\ k - 1 # 0 /\ (k - 1) + 1 = k
    BY <1>1, <1>7
  <2>2. pop_top(s, n) = [stack |-> RemoveAt(w, k), out |-> NoMark]
    BY <1>2, <1>4, <1>5, <2>1
  <2>3. [s[k - 1] EXCEPT !.mark = Top(s[k])] \in Entry
    BY <1>1, <2>1 DEF Entry
  <2>4. w \in Seq(Entry) /\ DOMAIN w = DOMAIN s
    BY <2>1, <2>3
  <2>5. ASSUME NEW i \in DOMAIN s
        PROVE  w[i].n = s[i].n /\ w[i].mark = IF i = k - 1 THEN Top(s[k]) ELSE s[i].mark
    BY <1>1, <2>1, <2>5 DEF Entry
  <2> HIDE DEF w
  <2> QED BY <1>7, <2>2, <2>4, <2>5
<1> QED BY <1>6, <1>7

LEMMA PopTop ==
  ASSUME NEW s \in Seq(Entry), Sorted(s), NEW e \in ToSet(s),
         NEW q, q = pop_top(s, e.n).stack, NEW out, out = pop_top(s, e.n).out
  PROVE  /\ q \in Seq(Entry) /\ Sorted(q)
         /\ Top(e) \in Nat /\ Top(e) >= e.n /\ Top(e) >= e.mark
         /\ \A p \in Nat : Hits(q, At(p)) = Hits(s, At(p)) - (IF e.n = p THEN 1 ELSE 0)
         /\ \A d \in ToSet(q) : \E c \in ToSet(s) :
              /\ c.n = d.n /\ c.n # e.n
              /\ \/ d.mark = c.mark
                 \/ /\ d.mark = Top(e) /\ c.n < e.n
                    /\ \A b \in ToSet(s) : b.n > c.n => b.n >= e.n
         /\ \A c \in ToSet(s) : c = e \/ \E d \in ToSet(q) : d.n = c.n /\ d.mark >= c.mark
         /\ \/ out = NoMark /\ \E d \in ToSet(q) : d.mark = Top(e)
            \/ out = Top(e) /\ \A d \in ToSet(q) : d.n > Top(e)
<1>1. PICK k \in DOMAIN s : s[k] = e
  BY DEF ToSet
<1> DEFINE m == Top(e)
<1>2. PICK w \in Seq(Entry) :
        /\ DOMAIN w = DOMAIN s
        /\ \A i \in DOMAIN s : w[i].n = s[i].n /\ w[i].mark = IF i = k - 1 THEN m ELSE s[i].mark
        /\ q = RemoveAt(w, k)
        /\ out = IF k = 1 THEN m ELSE NoMark
  BY <1>1, PopForm
<1>3. /\ DOMAIN s = 1..Len(s) /\ Len(s) \in Nat /\ k \in 1..Len(s)
      /\ \A i \in DOMAIN s : s[i] \in Entry /\ s[i].n \in Nat /\ s[i].mark \in Int /\ Top(s[i]) \in Nat
  BY Entries
<1>4. m \in Nat /\ m >= e.n /\ m >= e.mark /\ e.n \in Nat
  <2>1. e.mark = NoMark \/ e.mark > e.n
    BY <1>1 DEF Sorted
  <2> QED BY <1>1, <1>3, <2>1 DEF Top, NoMark
<1>5. \A i \in DOMAIN s : i < k => s[i].n < e.n /\ s[i].mark < e.n
  BY <1>1 DEF Sorted
<1>6. \A i \in DOMAIN s : k < i => e.n < s[i].n /\ m < s[i].n
  BY <1>1 DEF Sorted, Top
<1> HIDE DEF m
<1>7. Len(w) = Len(s) /\ k \in DOMAIN w
  <2>1. DOMAIN w = 1..Len(w) /\ Len(w) \in Nat
    BY Entries
  <2>2. DOMAIN w = 1..Len(s) /\ Len(s) \in Nat /\ k \in 1..Len(s)
    BY <1>2, <1>3
  <2> QED BY <2>1, <2>2
<1>8. /\ q \in Seq(Entry) /\ DOMAIN q = 1..Len(s) - 1
      /\ \A i \in 1..Len(s) - 1 : q[i] = IF i < k THEN w[i] ELSE w[i + 1]
  <2>1. /\ RemoveAt(w, k) \in Seq(Entry) /\ DOMAIN RemoveAt(w, k) = 1..Len(w) - 1
        /\ \A i \in 1..Len(w) - 1 : RemoveAt(w, k)[i] = IF i < k THEN w[i] ELSE w[i + 1]
    BY <1>7, RemovedIndexes
  <2>2. q = RemoveAt(w, k)
    BY <1>2
  <2> QED BY <1>7, <2>1, <2>2
<1> DEFINE from(i) == IF i < k THEN i ELSE i + 1
<1>9. \A i \in DOMAIN q : /\ from(i) \in DOMAIN s /\ from(i) # k /\ q[i] = w[from(i)]
                          /\ \A j \in DOMAIN q : i < j => from(i) < from(j)
  BY <1>3, <1>8
<1>10. \A i \in DOMAIN s : i # k => \E j \in DOMAIN q : from(j) = i
  <2> SUFFICES ASSUME NEW i \in DOMAIN s, i # k PROVE \E j \in DOMAIN q : from(j) = i
    OBVIOUS
  <2>1. CASE i < k
    BY <1>3, <1>8, <2>1
  <2>2. CASE i > k
    <3>1. i - 1 \in DOMAIN q /\ from(i - 1) = i
      BY <1>3, <1>8, <2>2
    <3> QED BY <3>1
  <2> QED BY <1>3, <2>1, <2>2
<1> HIDE DEF from
<1>11. \A i \in DOMAIN s : i # k => s[i].n # e.n
  <2> SUFFICES ASSUME NEW i \in DOMAIN s, i # k PROVE s[i].n # e.n
    OBVIOUS
  <2>1. i < k \/ k < i
    BY <1>3
  <2>2. s[i].n \in Nat
    BY <1>3
  <2> QED BY <1>4, <1>5, <1>6, <2>1, <2>2
<1>12. Sorted(q)
  <2>1. ASSUME NEW i \in DOMAIN q, NEW j \in DOMAIN q, i < j
        PROVE  q[i].n < q[j].n /\ q[i].mark < q[j].n
    <3>1. PICK a, b \in DOMAIN s : a = from(i) /\ b = from(j) /\ a < b /\ a # k /\ b # k
      BY <1>9, <2>1
    <3>2. q[i].n = s[a].n /\ q[j].n = s[b].n /\ q[i].mark = IF a = k - 1 THEN m ELSE s[a].mark
      BY <1>2, <1>9, <3>1
    <3>3. s[a].n < s[b].n /\ s[a].mark < s[b].n
      BY <3>1 DEF Sorted
    <3>4. a = k - 1 => k < b
      BY <1>3, <3>1
    <3>5. a = k - 1 => m < s[b].n
      BY <1>6, <3>1, <3>4
    <3> QED BY <3>2, <3>3, <3>5
  <2>2. ASSUME NEW i \in DOMAIN q
        PROVE  q[i].mark = NoMark \/ q[i].mark > q[i].n
    <3>1. PICK a \in DOMAIN s : a = from(i) /\ a # k
      BY <1>9, <2>2
    <3>2. q[i].n = s[a].n /\ q[i].mark = IF a = k - 1 THEN m ELSE s[a].mark
      BY <1>2, <1>9, <2>2, <3>1
    <3>3. s[a].mark = NoMark \/ s[a].mark > s[a].n
      BY <3>1 DEF Sorted
    <3>4. a = k - 1 => s[a].n < e.n
      BY <1>3, <1>5, <3>1
    <3>5. s[a].n \in Nat
      BY <1>3, <3>1
    <3> QED BY <1>4, <3>2, <3>3, <3>4, <3>5
  <2> QED BY <2>1, <2>2 DEF Sorted
<1>13. ASSUME NEW p \in Nat
       PROVE  Hits(q, At(p)) = Hits(s, At(p)) - (IF e.n = p THEN 1 ELSE 0)
  <2>1. \A i \in DOMAIN s : w[i] \in At(p) <=> s[i] \in At(p)
    <3>1. \A i \in DOMAIN s : w[i] \in Entry /\ s[i] \in Entry /\ w[i].n = s[i].n
      BY <1>2, <1>3
    <3> QED BY <3>1 DEF At
  <2>2. Hits(w, At(p)) = Hits(s, At(p))
    BY <1>2, <2>1 DEF Hits
  <2>3. w[k] \in At(p) <=> e.n = p
    <3>1. s[k] \in Entry /\ (s[k] \in At(p) <=> s[k].n = p)
      BY <1>3 DEF At
    <3> QED BY <1>1, <2>1, <3>1
  <2>4. Hits(q, At(p)) = Hits(w, At(p)) - (IF w[k] \in At(p) THEN 1 ELSE 0)
    <3>1. q = RemoveAt(w, k)
      BY <1>2
    <3> QED BY <1>7, <3>1, RemoveHits
  <2> QED BY <2>2, <2>3, <2>4
<1>14. ASSUME NEW d \in ToSet(q)
       PROVE  \E c \in ToSet(s) : /\ c.n = d.n /\ c.n # e.n
                /\ \/ d.mark = c.mark
                   \/ /\ d.mark = m /\ c.n < e.n
                      /\ \A b \in ToSet(s) : b.n > c.n => b.n >= e.n
  <2>1. PICK i \in DOMAIN q : d = q[i]
    BY DEF ToSet
  <2>2. PICK a \in DOMAIN s : a = from(i) /\ a # k
    BY <1>9, <2>1
  <2>3. d.n = s[a].n /\ d.mark = IF a = k - 1 THEN m ELSE s[a].mark
    BY <1>2, <1>9, <2>1, <2>2
  <2>4. s[a] \in ToSet(s) /\ s[a].n # e.n
    BY <1>11, <2>2 DEF ToSet
  <2>5. CASE a = k - 1
    <3>1. s[a].n < e.n
      BY <1>3, <1>5, <2>2, <2>5
    <3>2. ASSUME NEW b \in ToSet(s), b.n > s[a].n PROVE b.n >= e.n
      <4>1. PICK l \in DOMAIN s : b = s[l]
        BY DEF ToSet
      <4>2. s[l].n \in Nat /\ s[a].n \in Nat
        BY <1>3, <2>2, <4>1
      <4>3. l < a => s[l].n < s[a].n
        BY <2>2, <4>1 DEF Sorted
      <4>4. ~(l < a) /\ l # a
        BY <3>2, <4>1, <4>2, <4>3
      <4>5. l = k \/ k < l
        BY <1>3, <2>2, <2>5, <4>1, <4>4
      <4> QED BY <1>1, <1>4, <1>6, <4>1, <4>2, <4>5
    <3> QED BY <2>3, <2>4, <2>5, <3>1, <3>2
  <2>6. CASE a # k - 1
    BY <2>3, <2>4, <2>6
  <2> QED BY <2>5, <2>6
<1>15. ASSUME NEW c \in ToSet(s), c # e
       PROVE  \E d \in ToSet(q) : d.n = c.n /\ d.mark >= c.mark
  <2>1. PICK a \in DOMAIN s : c = s[a]
    BY DEF ToSet
  <2>2. a # k
    BY <1>1, <1>15, <2>1
  <2>3. PICK j \in DOMAIN q : from(j) = a
    BY <1>10, <2>1, <2>2
  <2>4. q[j].n = s[a].n /\ q[j].mark = (IF a = k - 1 THEN m ELSE s[a].mark) /\ q[j] \in ToSet(q)
    BY <1>2, <1>9, <2>1, <2>3 DEF ToSet
  <2>5. a = k - 1 => s[a].mark < e.n
    BY <1>3, <1>5, <2>1
  <2>6. s[a].mark \in Int
    BY <1>3, <2>1
  <2>7. q[j].mark >= s[a].mark
    BY <1>4, <2>4, <2>5, <2>6
  <2> QED BY <2>1, <2>4, <2>7
<1>16. \/ out = NoMark /\ \E d \in ToSet(q) : d.mark = m
       \/ out = m /\ \A d \in ToSet(q) : d.n > m
  <2>1. CASE k = 1
    <3>1. ASSUME NEW d \in ToSet(q) PROVE d.n > m
      <4>1. PICK i \in DOMAIN q : d = q[i]
        BY DEF ToSet
      <4>2. PICK a \in DOMAIN s : a = from(i) /\ a # k
        BY <1>9, <4>1
      <4>3. k < a
        BY <1>3, <2>1, <4>2
      <4>4. s[a].n \in Nat /\ d.n = s[a].n
        BY <1>2, <1>3, <1>9, <4>1, <4>2
      <4> QED BY <1>4, <1>6, <4>2, <4>3, <4>4
    <3> QED BY <1>2, <2>1, <3>1
  <2>2. CASE k # 1
    <3>1. k - 1 \in DOMAIN s /\ k - 1 # k
      BY <1>3, <2>2
    <3>2. PICK j \in DOMAIN q : from(j) = k - 1
      BY <1>10, <3>1
    <3>3. q[j].mark = m /\ q[j] \in ToSet(q)
      BY <1>2, <1>9, <3>1, <3>2 DEF ToSet
    <3> QED BY <1>2, <2>2, <3>3
  <2> QED BY <2>1, <2>2
<1> QED BY <1>4, <1>8, <1>12, <1>13, <1>14, <1>15, <1>16 DEF m

(***************************************************************************)
(* The stacks, when nothing is pushed or popped.                           *)
(***************************************************************************)
LEMMA StackStays ==
  ASSUME Stacks, NEW t \in Tags, UNCHANGED <<tracing[t], reported[t]>>, Accepted \subseteq Accepted',
         \A p \in Nat : Holds(Flagged(t, p))' = Holds(Flagged(t, p))
  PROVE  Stack(t)'
<1>1. Stack(t)
  BY DEF Stacks
<1>2. \A p : Given(t, p) => Given(t, p)'
  BY DEF Given
<1>3. Sorted(tracing[t])'
  BY <1>1 DEF Stack, Sorted
<1>4. \A e \in ToSet(tracing'[t]) :
        /\ reported'[t] < e.n /\ Given(t, e.n)'
        /\ e.mark # NoMark => Given(t, e.mark)'
  BY <1>1, <1>2 DEF Stack
<1>5. Given(t, reported[t]) => Given(t, reported[t])'
  BY DEF Given
<1>6. \A p \in Nat : Holds(Flagged(t, p))' = Hits(tracing'[t], At(p))
  BY <1>1 DEF Stack
<1> QED BY <1>1, <1>3, <1>4, <1>5, <1>6 DEF Stack

\* A task that comes into the open and has rows of the tag shares its flag
\* with one that was there and had these rows.
LEMMA OpenLagStays ==
  ASSUME Stacks, NEW t \in Tags, UNCHANGED <<tracing[t], reported[t]>>,
         \A x \in Open' : \A r \in ToSet(x.data) :
           Of(r, t) => \E y \in Open : x.flag = y.flag /\ r \in ToSet(y.data)
  PROVE  OpenLag(t)'
<1>1. OpenLag(t)
  BY DEF Stacks
<1>2. ASSUME NEW p, NEW f, Above(p, t, f) PROVE Above(p, t, f)'
  BY <1>2 DEF Above
<1>3. ASSUME NEW x \in Open', NEW r \in ToSet(x.data), Of(r, t)
      PROVE  Above(Input[r].pos, t, x.flag[t])
  <2>1. PICK y \in Open : x.flag = y.flag /\ r \in ToSet(y.data)
    BY <1>3
  <2> QED BY <1>1, <1>3, <2>1 DEF OpenLag
<1> QED BY <1>2, <1>3 DEF OpenLag

LEMMA LineLagStays ==
  ASSUME Stacks, NEW t \in Tags, UNCHANGED <<tracing[t], reported[t]>>,
         \A r \in Rows : Line(r)' # 0 => Line(r) # 0
  PROVE  LineLag(t)'
<1>1. ASSUME NEW p, Beyond(p, t) PROVE Beyond(p, t)'
  BY <1>1 DEF Beyond
<1>2. LineLag(t)
  BY DEF Stacks
<1> QED BY <1>1, <1>2 DEF LineLag

LEMMA PastLagStays ==
  ASSUME Stacks, NEW t \in Tags, UNCHANGED <<tracing[t], reported[t]>>,
         \A r \in Accepted' : ~exited' /\ Of(r, t) /\ Line(r)' = 0 =>
                               r \in Accepted /\ ~exited /\ Line(r) = 0
  PROVE  PastLag(t)'
<1>1. ASSUME NEW p, ~Beyond(p, t) PROVE ~Beyond(p, t)'
  BY <1>1 DEF Beyond
<1>2. PastLag(t)
  BY DEF Stacks
<1> QED BY <1>1, <1>2 DEF PastLag

LEMMA StacksQuiet ==
  ASSUME Types, Types', Tasks, Places, Stacks, Moves
  PROVE  Stacks'
<1>1. Quiet
  BY MovesAreQuiet
<1>2. Open' = Open /\ Accepted' = Accepted /\ Accepted \subseteq Rows
  BY <1>1, OpenKept, AcceptedFacts DEF Quiet, Accepted
<1> SUFFICES ASSUME NEW t \in Tags PROVE (Stack(t) /\ OpenLag(t) /\ LineLag(t) /\ PastLag(t))'
  BY DEF Stacks
<1>3. \A p \in Nat : Holds(Flagged(t, p))' = Holds(Flagged(t, p))
  <2>1. \A p \in Nat : Flagged(t, p) \in SUBSET Task
    BY DEF Flagged
  <2> QED BY <1>1, <2>1 DEF Quiet, Keeps
<1>4. /\ UNCHANGED <<tracing, reported, exited>>
      /\ \A r \in Rows : Line(r)' = Line(r)
  BY <1>1 DEF Quiet, KeepsLine
<1>5. Stack(t)'
  BY <1>2, <1>3, <1>4, StackStays
<1>6. OpenLag(t)'
  BY <1>2, <1>4, OpenLagStays
<1>7. LineLag(t)'
  BY <1>4, LineLagStays
<1>8. PastLag(t)'
  BY <1>2, <1>4, PastLagStays
<1> QED BY <1>5, <1>6, <1>7, <1>8

LEMMA StacksExit ==
  ASSUME Types, Types', Counters, Stacks, SchedulerExit
  PROVE  Stacks'
<1> SUFFICES ASSUME NEW t \in Tags PROVE (Stack(t) /\ OpenLag(t) /\ LineLag(t) /\ PastLag(t))'
  BY DEF Stacks
<1>1. UNCHANGED <<tracing, reported>> /\ exited' /\ Accepted' = Accepted
  BY DEF SchedulerExit, clientVars, Accepted
<1>2. Keeps /\ \A r \in Rows : Line(r)' = 0
  BY LeaveEffect
<1>3. \A p \in Nat : Holds(Flagged(t, p))' = Holds(Flagged(t, p))
  <2>1. \A p \in Nat : Flagged(t, p) \in SUBSET Task
    BY DEF Flagged
  <2> QED BY <1>2, <2>1 DEF Keeps
<1>4. Open' = Open
  BY <1>2, OpenKept
<1>5. Stack(t)'
  BY <1>1, <1>3, StackStays
<1>6. OpenLag(t)'
  BY <1>1, <1>4, OpenLagStays
<1>7. LineLag(t)'
  BY <1>1, <1>2, LineLagStays
<1>8. PastLag(t)'
  BY <1>1, PastLagStays
<1> QED BY <1>5, <1>6, <1>7, <1>8

LEMMA StacksFail ==
  ASSUME Types, Types', Tasks, Places, Stacks,
         NEW u \in running, NEW committed, InsertFail(u, committed)
  PROVE  Stacks'
<1> SUFFICES ASSUME NEW t \in Tags PROVE (Stack(t) /\ OpenLag(t) /\ LineLag(t) /\ PastLag(t))'
  BY DEF Stacks
<1> DEFINE y == Cutback(u)
<1>1. UNCHANGED <<tracing, reported, exited>> /\ Accepted' = Accepted /\ Accepted \subseteq Rows
  BY AcceptedFacts DEF InsertFail, clientVars, scheduleVars, Accepted
<1>2. /\ y \in Task /\ \A r \in Rows : Line(r)' = Line(r)
      /\ \A P \in SUBSET Task : Holds(P)' = Holds(P) - In(u.task, P) + In(y, P)
  BY InsertFailEffect DEF KeepsLine
<1>3. /\ u.task \in Open /\ u.task \in Task /\ y.flag = u.task.flag
      /\ ToSet(y.data) \subseteq ToSet(u.task.data)
  BY OpenTasks DEF Cutback, Tasks, GoodRunner
<1> HIDE DEF y
<1>4. \A p \in Nat : Holds(Flagged(t, p))' = Holds(Flagged(t, p))
  <2> SUFFICES ASSUME NEW p \in Nat PROVE Holds(Flagged(t, p))' = Holds(Flagged(t, p))
    OBVIOUS
  <2>1. Flagged(t, p) \in SUBSET Task
    BY DEF Flagged
  <2>2. In(u.task, Flagged(t, p)) = In(y, Flagged(t, p)) /\ In(y, Flagged(t, p)) \in {0, 1}
    <3>1. u.task \in Flagged(t, p) <=> y \in Flagged(t, p)
      BY <1>2, <1>3 DEF Flagged
    <3> DEFINE F == Flagged(t, p)
    <3> HIDE DEF F
    <3>2. u.task \in F <=> y \in F
      BY <3>1 DEF F
    <3>3. In(u.task, F) = In(y, F) /\ In(y, F) \in {0, 1}
      BY <3>2 DEF In
    <3> QED BY <3>3 DEF F
  <2>3. Holds(Flagged(t, p)) \in Nat
    BY <2>1, HoldsType
  <2>4. Holds(Flagged(t, p))' = Holds(Flagged(t, p)) - In(u.task, Flagged(t, p)) + In(y, Flagged(t, p))
    BY <1>2, <2>1
  <2> QED BY <2>2, <2>3, <2>4
<1>5. Open' \subseteq Open \cup {y}
  <2>1. ASSUME NEW P \in SUBSET Task PROVE Holds(P)' <= Holds(P) + In(y, P)
    <3>1. Holds(P) \in Nat /\ In(u.task, P) \in {0, 1} /\ In(y, P) \in {0, 1}
      BY HoldsType, InFacts
    <3>2. Holds(P)' = Holds(P) - In(u.task, P) + In(y, P)
      BY <1>2
    <3> QED BY <3>1, <3>2
  <2> QED BY <2>1, OpenGrows
<1>6. Stack(t)'
  BY <1>1, <1>4, StackStays
<1>7. OpenLag(t)'
  <2>1. \A x \in Open' : \A r \in ToSet(x.data) :
          Of(r, t) => \E z \in Open : x.flag = z.flag /\ r \in ToSet(z.data)
    BY <1>3, <1>5
  <2> QED BY <1>1, <2>1, OpenLagStays
<1>8. LineLag(t)'
  BY <1>1, <1>2, LineLagStays
<1>9. PastLag(t)'
  BY <1>1, <1>2, PastLagStays
<1> QED BY <1>6, <1>7, <1>8, <1>9

\* A row that is offered lies beyond everything the stacks know of its tag.
LEMMA StacksAppend ==
  ASSUME Types, Types', Tasks, Places, Stacks, AppendWithNotify
  PROVE  Stacks'
<1> SUFFICES ASSUME NEW t \in Tags PROVE (Stack(t) /\ OpenLag(t) /\ LineLag(t) /\ PastLag(t))'
  BY DEF Stacks
<1> DEFINE a == HasRoom /\ ~exited
<1>1. UNCHANGED <<tracing, reported, exited>>
  BY DEF AppendWithNotify, scheduleVars
<1>2. PICK n \in Rows : n = offered + 1
  BY AcceptedStep
<1>3. /\ a => Accepted' = Accepted \cup {n}
      /\ ~a => Accepted' = Accepted
      /\ Accepted \subseteq Rows /\ n \notin Accepted /\ \A r \in Accepted : r < n
  <2>1. /\ a => Accepted' = Accepted \cup {n}
        /\ ~a => Accepted' = Accepted
    BY <1>2, AcceptedStep
  <2>2. Accepted \subseteq Rows /\ n \notin Accepted
    BY <1>2, AcceptedFacts
  <2>3. \A r \in Accepted : r \in Nat /\ r <= offered /\ offered \in Nat
    BY <2>2, RowFacts, AcceptedFacts
  <2>4. \A r \in Accepted : r < n
    BY <1>2, <2>3
  <2> QED BY <2>1, <2>2, <2>4
<1>4. Keeps /\ \A r \in Rows : Line(r)' = Line(r) + (IF a /\ r = n THEN 1 ELSE 0)
  BY <1>2, AppendEffect
<1> HIDE DEF a
<1>5. \A r \in Rows : Line(r)' = Line(r) \/ (r = n /\ Line(r)' = 1 /\ a)
  <2> SUFFICES ASSUME NEW r \in Rows PROVE Line(r)' = Line(r) \/ (r = n /\ Line(r)' = 1 /\ a)
    OBVIOUS
  <2>1. Line(r)' = Line(r) + (IF a /\ r = n THEN 1 ELSE 0) /\ Line(r) \in Nat
    BY <1>4, WhereType
  <2>2. CASE a /\ r = n
    <3>1. Line(r) = 0
      <4>1. Where(r) # 1 /\ Where(r) \in {0, 1}
        BY <1>3, <2>2 DEF Places
      <4> QED BY <4>1, WhereType
    <3> QED BY <2>1, <2>2, <3>1
  <2> QED BY <2>1, <2>2
<1>6. \A p \in Nat : Holds(Flagged(t, p))' = Holds(Flagged(t, p))
  <2>1. \A p \in Nat : Flagged(t, p) \in SUBSET Task
    BY DEF Flagged
  <2> QED BY <1>4, <2>1 DEF Keeps
<1>7. Open' = Open
  BY <1>4, OpenKept
<1>8. Stack(t)'
  BY <1>1, <1>3, <1>6, StackStays
<1>9. OpenLag(t)'
  BY <1>1, <1>7, OpenLagStays
<1>10. ASSUME NEW p, Beyond(p, t) PROVE Beyond(p, t)'
  BY <1>1, <1>10 DEF Beyond
<1>11. ASSUME NEW p, ~Beyond(p, t) PROVE ~Beyond(p, t)'
  BY <1>1, <1>11 DEF Beyond
<1>12. ASSUME Of(n, t) PROVE Beyond(Input[n].pos, t)
  <2>1. ASSUME NEW p, Given(t, p) PROVE Input[n].pos > p /\ p \in Nat
    <3>1. PICK r \in Accepted : Of(r, t) /\ Input[r].pos = p
      BY <2>1 DEF Given
    <3>2. r \in Rows /\ r < n
      BY <1>3
    <3>3. Input[r].pos < Input[n].pos /\ Input[r].pos \in Nat /\ Input[n].pos \in Nat
      BY <1>12, <3>1, <3>2, RowFacts
    <3> QED BY <3>1, <3>3
  <2>2. Input[n].pos \in Nat
    BY <1>12, RowFacts
  <2>3. Stack(t)
    BY DEF Stacks
  <2>4. Input[n].pos > reported[t]
    BY <2>1, <2>2, <2>3 DEF Stack, NoMark
  <2>5. ASSUME NEW e \in ToSet(tracing[t]) PROVE Input[n].pos > e.n /\ Input[n].pos > e.mark
    BY <2>1, <2>2, <2>3 DEF Stack, NoMark
  <2> QED BY <2>4, <2>5 DEF Beyond
<1>13. LineLag(t)'
  <2>1. LineLag(t)
    BY DEF Stacks
  <2> SUFFICES ASSUME NEW r \in Rows, Line(r)' # 0, Of(r, t) PROVE Beyond(Input[r].pos, t)'
    BY DEF LineLag
  <2>2. Beyond(Input[r].pos, t)
    BY <1>5, <1>12, <2>1 DEF LineLag
  <2> QED BY <1>10, <2>2
<1>14. PastLag(t)'
  <2>1. PastLag(t)
    BY DEF Stacks
  <2> SUFFICES ASSUME NEW r \in Accepted', ~exited', Of(r, t), Line(r)' = 0
               PROVE  ~Beyond(Input[r].pos, t)'
    BY DEF PastLag
  <2>2. r \in Accepted
    <3>1. CASE r \notin Accepted
      <4>1. a /\ r = n /\ r \in Rows
        BY <1>2, <1>3, <3>1
      <4>2. Line(r)' = Line(r) + 1 /\ Line(r) \in Nat
        BY <1>4, <4>1, WhereType
      <4> QED BY <4>2
    <3> QED BY <3>1
  <2>3. ~exited /\ Line(r) = 0 /\ r \in Rows
    BY <1>1, <1>3, <1>5, <2>2
  <2>4. ~Beyond(Input[r].pos, t)
    BY <2>1, <2>2, <2>3 DEF PastLag
  <2> QED BY <1>11, <2>4
<1> QED BY <1>8, <1>9, <1>13, <1>14

(***************************************************************************)
(* The stacks, when a task is spawned.                                     *)
(***************************************************************************)
LEMMA FlagIsEntry ==
  Types => \A t \in Tags : Stack(t) =>
    \A y \in Open : t \in DOMAIN y.flag =>
      y.flag[t] \in Nat /\ \E e \in ToSet(tracing[t]) : e.n = y.flag[t]
<1> SUFFICES ASSUME Types, NEW t \in Tags, Stack(t), NEW y \in Open, t \in DOMAIN y.flag
             PROVE  y.flag[t] \in Nat /\ \E e \in ToSet(tracing[t]) : e.n = y.flag[t]
  OBVIOUS
<1>1. y \in Task /\ tracing[t] \in Seq(Entry)
  BY OpenTasks DEF Types
<1>2. y.flag \in Flags
  BY <1>1 DEF Task
<1>3. PICK f \in Nat : f = y.flag[t]
  BY <1>2, FlagFacts
<1>4. Flagged(t, f) \in SUBSET Task /\ y \in Flagged(t, f)
  BY <1>1, <1>3 DEF Flagged
<1>5. Holds(Flagged(t, f)) # 0
  BY <1>4, OpenIsHeld
<1>6. Hits(tracing[t], At(f)) # 0
  BY <1>5 DEF Stack
<1>7. PICK j \in DOMAIN tracing[t] : tracing[t][j] \in At(f)
  BY <1>1, <1>6, HitsType
<1> QED BY <1>3, <1>7 DEF At, ToSet

LEMMA FlagIsEntryNext ==
  (Types => \A t \in Tags : Stack(t) =>
     \A y \in Open : t \in DOMAIN y.flag =>
       y.flag[t] \in Nat /\ \E e \in ToSet(tracing[t]) : e.n = y.flag[t])'
  BY FlagIsEntry, PTL

LEMMA InLineIs ==
  ASSUME Types, NEW r \in Rows, Line(r) # 0
  PROVE  Data(r) \in ToSet(chan) \/ \E y \in ToSet(next_task) : r \in ToSet(y.data)
<1>1. chan \in Seq(Message) /\ next_task \in Seq(Task)
  BY DEF Types
<1>2. Hits(chan, OfRow(r)) # 0 \/ Hits(next_task, With(r)) # 0
  BY LineCounts
<1>3. CASE Hits(chan, OfRow(r)) # 0
  <2>1. PICK j \in DOMAIN chan : chan[j] \in OfRow(r)
    BY <1>1, <1>3, HitsType
  <2> QED BY <2>1 DEF OfRow, ToSet
<1>4. CASE Hits(next_task, With(r)) # 0
  <2>1. PICK j \in DOMAIN next_task : next_task[j] \in With(r)
    BY <1>1, <1>4, HitsType
  <2> QED BY <2>1 DEF With, ToSet
<1> QED BY <1>2, <1>3, <1>4

\* The task that is spawned stood at the head of the line.
LEMMA HeadOfLine ==
  ASSUME Types, Tasks, Places, InLine, SpawnNext, NEW x, x = Head(next_task)
  PROVE  /\ x \in Task /\ NewTask(x) /\ ToSet(x.data) \subseteq Accepted
         /\ \A q \in ToSet(x.data) : Line(q) # 0
         /\ \A r \in Rows : Line(r)' # 0 => Line(r) # 0 /\ \A q \in ToSet(x.data) : q < r
         /\ \A r \in Rows : Line(r)' = 0 => Line(r) = 0 \/ r \in ToSet(x.data)
<1>1. next_task \in Seq(Task) /\ next_task # <<>>
  BY DEF Types, SpawnNext
<1>2. x \in Task /\ x \in ToSet(next_task) /\ ToSet(next_task) = {x} \cup ToSet(Tail(next_task))
  BY <1>1, TailElements
<1>3. \A y \in ToSet(Tail(next_task)) : Before(x, y)
  BY <1>1, OrderedTail DEF InLine
<1>4. \A r \in Rows : Line(r)' = Line(r) - In(x, With(r))
  BY NextEffect
<1>5. ToSet(x.data) \subseteq Rows
  <2>1. NewTask(x)
    BY <1>2 DEF Tasks
  <2> QED BY <1>2, <2>1, RowsOf DEF NewTask
<1>6. \A q \in ToSet(x.data) : Line(q) = 1
  BY <1>2, <1>5, OneInLine
<1>7. ASSUME NEW r \in Rows
      PROVE  IF r \in ToSet(x.data) THEN Line(r)' = 0 ELSE Line(r)' = Line(r)
  <2>1. Line(r)' = Line(r) - In(x, With(r)) /\ Line(r) \in Nat
    BY <1>4, WhereType
  <2>2. CASE r \in ToSet(x.data)
    <3>1. x \in With(r)
      BY <1>2, <2>2 DEF With
    <3>2. In(x, With(r)) = 1 /\ Line(r) = 1
      BY <1>6, <2>2, <3>1, InFacts
    <3> QED BY <2>1, <2>2, <3>2
  <2>3. CASE r \notin ToSet(x.data)
    <3>1. x \notin With(r)
      BY <2>3 DEF With
    <3>2. In(x, With(r)) = 0
      BY <3>1 DEF In
    <3> QED BY <2>1, <2>3, <3>2
  <2> QED BY <2>2, <2>3
<1>8. ASSUME NEW r \in Rows, Line(r)' # 0
      PROVE  Line(r) # 0 /\ \A q \in ToSet(x.data) : q < r
  <2>1. r \notin ToSet(x.data) /\ Line(r) # 0
    BY <1>7, <1>8
  <2>2. CASE Data(r) \in ToSet(chan)
    <3>1. \A m \in ToSet(chan) : m.kind = "Data" => \A q \in ToSet(x.data) : q < m.row
      BY <1>2 DEF InLine
    <3>2. Data(r).kind = "Data" /\ Data(r).row = r
      BY KindsMade
    <3>3. \A q \in ToSet(x.data) : q < r
      BY <2>2, <3>1, <3>2
    <3> QED BY <2>1, <3>3
  <2>3. CASE \E y \in ToSet(next_task) : r \in ToSet(y.data)
    <3>1. PICK y \in ToSet(Tail(next_task)) : r \in ToSet(y.data)
      BY <1>2, <2>1, <2>3
    <3>2. \A q \in ToSet(x.data) : q < r
      BY <1>3, <3>1 DEF Before
    <3> QED BY <2>1, <3>2
  <2> QED BY <2>1, <2>2, <2>3, InLineIs
<1>9. ToSet(x.data) \subseteq Accepted
  BY <1>2, LineRows
<1>10. NewTask(x)
  BY <1>2 DEF Tasks
<1> QED BY <1>2, <1>6, <1>7, <1>8, <1>9, <1>10

LEMMA StacksNext ==
  ASSUME Types, Types', Tasks, Tasks', Places, InLine, Stacks, SpawnNext
  PROVE  Stacks'
<1> SUFFICES ASSUME NEW t \in Tags PROVE (Stack(t) /\ OpenLag(t) /\ LineLag(t) /\ PastLag(t))'
  BY DEF Stacks
<1>1. PICK x : x = Head(next_task)
  OBVIOUS
<1>2. UNCHANGED <<reported, exited>> /\ Accepted' = Accepted /\ Accepted \subseteq Rows
  BY AcceptedFacts DEF SpawnNext, clientVars, Accepted
<1>3. tracing'[t] = IF t \in DOMAIN x.flag THEN push_top(tracing[t], x.flag[t]) ELSE tracing[t]
  BY <1>1 DEF SpawnNext, update_from
<1>4. /\ x \in Task /\ NewTask(x) /\ ToSet(x.data) \subseteq Accepted
      /\ \A q \in ToSet(x.data) : Line(q) # 0
      /\ \A r \in Rows : Line(r)' # 0 => Line(r) # 0 /\ \A q \in ToSet(x.data) : q < r
      /\ \A r \in Rows : Line(r)' = 0 => Line(r) = 0 \/ r \in ToSet(x.data)
  BY <1>1, HeadOfLine
<1>5. \A P \in SUBSET Task : Holds(P)' = Holds(P) + In(x, P)
  BY <1>1, NextEffect
<1>6. Open' \subseteq Open \cup {x}
  <2>1. ASSUME NEW P \in SUBSET Task PROVE Holds(P)' <= Holds(P) + In(x, P)
    <3>1. Holds(P) \in Nat /\ In(x, P) \in {0, 1} /\ Holds(P)' = Holds(P) + In(x, P)
      BY <1>5, HoldsType, InFacts
    <3> QED BY <3>1
  <2> QED BY <2>1, OpenGrows
<1>7. GoodTask(x)
  BY <1>4 DEF NewTask
<1>8. Stack(t) /\ OpenLag(t) /\ LineLag(t) /\ PastLag(t)
  BY DEF Stacks
<1>9. CASE t \notin DOMAIN x.flag
  <2>1. UNCHANGED <<tracing[t], reported[t]>>
    BY <1>2, <1>3, <1>9
  <2>2. \A r \in ToSet(x.data) : ~Of(r, t)
    BY <1>7, <1>9 DEF GoodTask, Of
  <2>3. ASSUME NEW p \in Nat PROVE Holds(Flagged(t, p))' = Holds(Flagged(t, p))
    <3>1. Flagged(t, p) \in SUBSET Task /\ x \notin Flagged(t, p)
      BY <1>9 DEF Flagged
    <3>2. In(x, Flagged(t, p)) = 0 /\ Holds(Flagged(t, p)) \in Nat
      BY <3>1, InFacts, HoldsType
    <3>3. Holds(Flagged(t, p))' = Holds(Flagged(t, p)) + In(x, Flagged(t, p))
      BY <1>5, <3>1
    <3> QED BY <3>2, <3>3
  <2>4. Stack(t)'
    BY <1>2, <2>1, <2>3, StackStays
  <2>5. OpenLag(t)'
    BY <1>6, <2>1, <2>2, OpenLagStays
  <2>6. LineLag(t)'
    BY <1>4, <2>1, LineLagStays
  <2>7. PastLag(t)'
    BY <1>2, <1>4, <2>1, <2>2, PastLagStays
  <2> QED BY <2>4, <2>5, <2>6, <2>7
<1>10. CASE t \in DOMAIN x.flag
  <2> DEFINE s == tracing[t]
             q == push_top(tracing[t], x.flag[t])
             new == [n |-> x.flag[t], mark |-> NoMark]
  <2>1. tracing'[t] = q /\ reported'[t] = reported[t]
    BY <1>2, <1>3, <1>10
  <2>2. PICK n \in Nat : n = x.flag[t]
    BY <1>4, <1>10, FlagFacts DEF Task
  <2>3. PICK b \in ToSet(x.data) : Of(b, t) /\ Input[b].pos = n
    BY <1>4, <1>10, <2>2 DEF NewTask
  <2>4. b \in Rows /\ b \in Accepted /\ Line(b) # 0
    BY <1>2, <1>4
  <2>5. Beyond(n, t) /\ Given(t, n)
    BY <1>8, <2>3, <2>4 DEF LineLag, Given
  <2>6. s \in Seq(Entry) /\ Sorted(s) /\ \A d \in ToSet(s) : n > d.n /\ n > d.mark
    BY <1>8, <2>5 DEF Types, Stack, Beyond
  <2>7. /\ Sorted(q) /\ ToSet(q) = ToSet(s) \cup {new} /\ new.n = n /\ new.mark = NoMark
        /\ \A p \in Nat : Hits(q, At(p)) = Hits(s, At(p)) + (IF n = p THEN 1 ELSE 0)
    BY <2>2, <2>6, PushTop
  <2> HIDE DEF q, new
  <2>8. Stack(t)'
    <3>1. \A p : Given(t, p) => Given(t, p)'
      BY <1>2 DEF Given
    <3>2. Sorted(tracing[t])'
      BY <2>1, <2>7 DEF Sorted
    <3>3. ASSUME NEW e \in ToSet(tracing'[t])
          PROVE  /\ reported'[t] < e.n /\ Given(t, e.n)'
                 /\ e.mark # NoMark => Given(t, e.mark)'
      <4>1. CASE e \in ToSet(s)
        BY <1>8, <2>1, <3>1, <4>1 DEF Stack
      <4>2. CASE e = new
        <5>1. reported[t] < n
          BY <2>5 DEF Beyond
        <5>2. Given(t, e.n)'
          BY <2>5, <2>7, <3>1, <4>2
        <5> QED BY <2>1, <2>7, <4>2, <5>1, <5>2
      <4> QED BY <2>1, <2>7, <3>3, <4>1, <4>2
    <3>4. reported'[t] # NoMark => Given(t, reported[t])'
      BY <1>2, <1>8, <2>1 DEF Stack, Given
    <3>5. ASSUME NEW p \in Nat PROVE Holds(Flagged(t, p))' = Hits(tracing'[t], At(p))
      <4>1. Flagged(t, p) \in SUBSET Task /\ (x \in Flagged(t, p) <=> n = p)
        BY <1>4, <1>10, <2>2 DEF Flagged
      <4>2. In(x, Flagged(t, p)) = IF n = p THEN 1 ELSE 0
        BY <4>1, InFacts
      <4>3. Holds(Flagged(t, p))' = Holds(Flagged(t, p)) + In(x, Flagged(t, p))
        BY <1>5, <4>1
      <4>4. Holds(Flagged(t, p)) = Hits(s, At(p))
        BY <1>8 DEF Stack
      <4> QED BY <2>1, <2>7, <4>2, <4>3, <4>4
    <3> QED BY <3>2, <3>3, <3>4, <3>5 DEF Stack
  <2>9. OpenLag(t)'
    <3> SUFFICES ASSUME NEW y \in Open', NEW r \in ToSet(y.data), Of(r, t)
                 PROVE  Above(Input[r].pos, t, y.flag[t])'
      BY DEF OpenLag
    <3> DEFINE p == Input[r].pos
    <3> HIDE DEF p
    <3>1. CASE y = x
      <4>1. r \in Rows /\ Line(r) # 0
        BY <1>2, <1>4, <3>1
      <4>2. Beyond(p, t)
        BY <1>8, <4>1 DEF LineLag, p
      <4>3. p > reported'[t]
        BY <2>1, <4>2 DEF Beyond
      <4>4. ASSUME NEW e \in ToSet(tracing'[t]), e.n < y.flag[t] PROVE p > e.n /\ p > e.mark
        <5>1. e # new
          BY <2>2, <2>7, <3>1, <4>4
        <5> QED BY <2>1, <2>7, <4>2, <4>4, <5>1 DEF Beyond
      <4> QED BY <4>3, <4>4 DEF Above, p
    <3>2. CASE y \in Open
      <4>1. t \in DOMAIN y.flag
        BY <3>2 DEF Tasks, GoodTask, Of
      <4>2. y.flag[t] \in Nat /\ \E e \in ToSet(s) : e.n = y.flag[t]
        BY <1>8, <3>2, <4>1, FlagIsEntry
      <4>3. n > y.flag[t]
        BY <2>6, <4>2
      <4>4. Above(p, t, y.flag[t])
        BY <1>8, <3>2 DEF OpenLag, p
      <4>5. p > reported'[t]
        BY <2>1, <4>4 DEF Above
      <4>6. ASSUME NEW e \in ToSet(tracing'[t]), e.n < y.flag[t] PROVE p > e.n /\ p > e.mark
        <5>1. e # new
          BY <2>7, <4>2, <4>3, <4>6
        <5> QED BY <2>1, <2>7, <4>4, <4>6, <5>1 DEF Above
      <4> QED BY <4>5, <4>6 DEF Above, p
    <3> QED BY <1>6, <3>1, <3>2
  <2>10. LineLag(t)'
    <3> SUFFICES ASSUME NEW r \in Rows, Line(r)' # 0, Of(r, t) PROVE Beyond(Input[r].pos, t)'
      BY DEF LineLag
    <3>1. Line(r) # 0 /\ b < r
      BY <1>4, <2>3
    <3>2. n < Input[r].pos /\ Input[r].pos \in Nat
      BY <2>3, <2>4, <3>1, RowFacts
    <3>3. Beyond(Input[r].pos, t)
      BY <1>8, <3>1 DEF LineLag
    <3>4. Input[r].pos > reported'[t]
      BY <2>1, <3>3 DEF Beyond
    <3>5. \A e \in ToSet(tracing'[t]) : Input[r].pos > e.n /\ Input[r].pos > e.mark
      BY <2>1, <2>7, <3>2, <3>3 DEF Beyond, NoMark
    <3> QED BY <3>4, <3>5 DEF Beyond
  <2>11. PastLag(t)'
    <3> SUFFICES ASSUME NEW r \in Accepted', ~exited', Of(r, t), Line(r)' = 0
                 PROVE  ~Beyond(Input[r].pos, t)'
      BY DEF PastLag
    <3>1. r \in Accepted /\ r \in Rows /\ ~exited
      BY <1>2
    <3>2. CASE Line(r) = 0
      <4>1. ~Beyond(Input[r].pos, t)
        BY <1>8, <3>1, <3>2 DEF PastLag
      <4> QED BY <2>1, <2>7, <4>1 DEF Beyond
    <3>3. CASE r \in ToSet(x.data)
      <4>1. Input[r].pos <= n /\ Input[r].pos \in Nat
        BY <1>4, <1>10, <2>2, <3>1, <3>3, RowFacts DEF NewTask
      <4>2. new \in ToSet(tracing'[t]) /\ ~(Input[r].pos > new.n)
        BY <2>1, <2>7, <4>1
      <4> QED BY <4>2 DEF Beyond
    <3> QED BY <1>4, <3>1, <3>2, <3>3
  <2> QED BY <2>8, <2>9, <2>10, <2>11
<1> QED BY <1>9, <1>10

(***************************************************************************)
(* The stacks, when the end of a task is seen.                             *)
(***************************************************************************)
LEMMA StacksDone ==
  ASSUME Types, Types', Tasks, Tasks', Places, Stacks, ReceiveDone
  PROVE  Stacks'
<1> SUFFICES ASSUME NEW t \in Tags PROVE (Stack(t) /\ OpenLag(t) /\ LineLag(t) /\ PastLag(t))'
  BY DEF Stacks
<1>1. PICK x : x = Head(chan).task
  OBVIOUS
<1>2. /\ Head(chan) \in ToSet(chan) /\ Head(chan).kind = "Done"
      /\ UNCHANGED exited /\ Accepted' = Accepted /\ Accepted \subseteq Rows
  BY Received, AcceptedFacts DEF ReceiveDone, clientVars, Accepted
<1>3. x \in Open /\ x \in Task /\ GoodTask(x)
  BY <1>1, <1>2, OpenTasks DEF Tasks
<1>4. /\ \A P \in SUBSET Task : Holds(P)' = Holds(P) - In(x, P)
      /\ \A r \in Rows : Line(r)' = Line(r)
  BY <1>1, DoneEffect DEF KeepsLine
<1> DEFINE s == tracing[t]
           q == pop_top(tracing[t], x.flag[t]).stack
           out == pop_top(tracing[t], x.flag[t]).out
<1>5. /\ tracing'[t] = IF t \in DOMAIN x.flag THEN q ELSE s
      /\ reported'[t] = IF t \in DOMAIN x.flag /\ out # NoMark THEN out ELSE reported[t]
  BY <1>1 DEF ReceiveDone, finish_from
<1>6. Open' \subseteq Open
  <2>1. ASSUME NEW P \in SUBSET Task PROVE Holds(P)' <= Holds(P) + In(x, P)
    <3>1. Holds(P) \in Nat /\ In(x, P) \in {0, 1} /\ Holds(P)' = Holds(P) - In(x, P)
      BY <1>4, HoldsType, InFacts
    <3> QED BY <3>1
  <2>2. Open' \subseteq Open \cup {x}
    BY <2>1, OpenGrows
  <2> QED BY <1>3, <2>2
<1>7. Stack(t) /\ OpenLag(t) /\ LineLag(t) /\ PastLag(t)
  BY DEF Stacks
<1>8. CASE t \notin DOMAIN x.flag
  <2>1. UNCHANGED <<tracing[t], reported[t]>>
    BY <1>5, <1>8
  <2>2. ASSUME NEW p \in Nat PROVE Holds(Flagged(t, p))' = Holds(Flagged(t, p))
    <3>1. Flagged(t, p) \in SUBSET Task /\ x \notin Flagged(t, p)
      BY <1>8 DEF Flagged
    <3>2. In(x, Flagged(t, p)) = 0 /\ Holds(Flagged(t, p)) \in Nat
      BY <3>1, InFacts, HoldsType
    <3>3. Holds(Flagged(t, p))' = Holds(Flagged(t, p)) - In(x, Flagged(t, p))
      BY <1>4, <3>1
    <3> QED BY <3>2, <3>3
  <2>3. Stack(t)'
    BY <1>2, <2>1, <2>2, StackStays
  <2>4. OpenLag(t)'
    BY <1>6, <2>1, OpenLagStays
  <2>5. LineLag(t)'
    BY <1>4, <2>1, LineLagStays
  <2>6. PastLag(t)'
    BY <1>2, <1>4, <2>1, PastLagStays
  <2> QED BY <2>3, <2>4, <2>5, <2>6
<1>9. CASE t \in DOMAIN x.flag
  <2>1. PICK e \in ToSet(s) : e.n = x.flag[t]
    BY <1>3, <1>7, <1>9, FlagIsEntry
  <2>2. s \in Seq(Entry) /\ Sorted(s)
    BY <1>7 DEF Types, Stack
  <2>3. PICK m : m = Top(e)
    OBVIOUS
  <2>4. /\ Sorted(q) /\ m \in Nat /\ m >= e.n /\ m >= e.mark
        /\ \A p \in Nat : Hits(q, At(p)) = Hits(s, At(p)) - (IF e.n = p THEN 1 ELSE 0)
    BY <2>1, <2>2, <2>3, PopTop
  <2>5. \A d \in ToSet(q) : \E c \in ToSet(s) :
          /\ c.n = d.n /\ c.n # e.n
          /\ \/ d.mark = c.mark
             \/ /\ d.mark = m /\ c.n < e.n
                /\ \A b \in ToSet(s) : b.n > c.n => b.n >= e.n
    BY <2>1, <2>2, <2>3, PopTop
  <2>6. \A c \in ToSet(s) : c = e \/ \E d \in ToSet(q) : d.n = c.n /\ d.mark >= c.mark
    BY <2>1, <2>2, PopTop
  <2>7. \/ out = NoMark /\ \E d \in ToSet(q) : d.mark = m
        \/ out = m /\ \A d \in ToSet(q) : d.n > m
    BY <2>1, <2>2, <2>3, PopTop
  <2>8. e.n \in Nat /\ reported[t] < e.n /\ reported[t] \in Int /\ Given(t, m)
    <3>1. e \in Entry
      BY <2>1, <2>2 DEF ToSet
    <3>2. reported[t] \in Int
      BY DEF Types, NoMark
    <3> QED BY <1>7, <2>1, <2>3, <3>1, <3>2 DEF Stack, Entry, Top
  <2>9. tracing'[t] = q
    BY <1>5, <1>9
  <2>10. \/ reported'[t] = reported[t] /\ \E d \in ToSet(q) : d.mark = m
         \/ reported'[t] = m /\ \A d \in ToSet(q) : d.n > m
    BY <1>5, <1>9, <2>4, <2>7 DEF NoMark
  <2> HIDE DEF q, out
  <2>11. Stack(t)'
    <3>1. \A p : Given(t, p) => Given(t, p)'
      BY <1>2 DEF Given
    <3>2. Sorted(tracing[t])'
      BY <2>4, <2>9 DEF Sorted
    <3>3. ASSUME NEW d \in ToSet(tracing'[t])
          PROVE  /\ reported'[t] < d.n /\ Given(t, d.n)'
                 /\ d.mark # NoMark => Given(t, d.mark)'
      <4>1. PICK c \in ToSet(s) : c.n = d.n /\ (d.mark = c.mark \/ d.mark = m)
        BY <2>5, <2>9, <3>3
      <4>2. reported'[t] < d.n
        BY <1>7, <2>9, <2>10, <3>3, <4>1 DEF Stack
      <4>3. Given(t, c.n) /\ (c.mark # NoMark => Given(t, c.mark))
        BY <1>7, <4>1 DEF Stack
      <4> QED BY <2>8, <3>1, <4>1, <4>2, <4>3
    <3>4. reported'[t] # NoMark => Given(t, reported[t])'
      <4>1. CASE reported'[t] = reported[t]
        BY <1>2, <1>7, <4>1 DEF Stack, Given
      <4>2. CASE reported'[t] = m
        BY <1>2, <2>8, <4>2 DEF Given
      <4> QED BY <2>10, <4>1, <4>2
    <3>5. ASSUME NEW p \in Nat PROVE Holds(Flagged(t, p))' = Hits(tracing'[t], At(p))
      <4>1. Flagged(t, p) \in SUBSET Task /\ (x \in Flagged(t, p) <=> e.n = p)
        BY <1>3, <1>9, <2>1 DEF Flagged
      <4>2. In(x, Flagged(t, p)) = IF e.n = p THEN 1 ELSE 0
        BY <4>1, InFacts
      <4>3. Holds(Flagged(t, p))' = Holds(Flagged(t, p)) - In(x, Flagged(t, p))
        BY <1>4, <4>1
      <4>4. Holds(Flagged(t, p)) = Hits(s, At(p))
        BY <1>7 DEF Stack
      <4> QED BY <2>4, <2>9, <4>2, <4>3, <4>4
    <3> QED BY <3>2, <3>3, <3>4, <3>5 DEF Stack
  <2>12. OpenLag(t)'
    <3> SUFFICES ASSUME NEW y \in Open', NEW r \in ToSet(y.data), Of(r, t)
                 PROVE  Above(Input[r].pos, t, y.flag[t])'
      BY DEF OpenLag
    <3> DEFINE p == Input[r].pos
               f == y.flag[t]
    <3>1. t \in DOMAIN y.flag
      BY <1>6 DEF Tasks, GoodTask, Of
    <3>2. f \in Nat /\ \E d \in ToSet(q) : d.n = f
      BY <2>9, <2>11, <3>1, FlagIsEntryNext
    <3>3. PICK b \in ToSet(s) : b.n = f /\ f # e.n
      BY <2>5, <3>2
    <3>4. p \in Nat
      <4>1. y \in Task
        BY <1>6, OpenTasks
      <4>2. r \in Rows
        BY <4>1 DEF Task, ToSet
      <4> QED BY <4>2, RowFacts
    <3>5. Above(p, t, f)
      BY <1>6, <1>7 DEF OpenLag
    <3> HIDE DEF p, f
    <3>6. f > e.n => p > m
      BY <2>1, <2>3, <3>5 DEF Above, Top
    <3>7. p > reported'[t]
      <4>1. CASE reported'[t] = reported[t]
        BY <3>5, <4>1 DEF Above
      <4>2. CASE reported'[t] = m /\ \A d \in ToSet(q) : d.n > m
        <5>1. f > m
          BY <3>2, <4>2
        <5> QED BY <2>4, <2>8, <3>2, <3>6, <4>2, <5>1
      <4> QED BY <2>10, <4>1, <4>2
    <3>8. ASSUME NEW d \in ToSet(tracing'[t]), d.n < f PROVE p > d.n /\ p > d.mark
      <4>1. PICK c \in ToSet(s) :
              /\ c.n = d.n
              /\ \/ d.mark = c.mark
                 \/ d.mark = m /\ \A z \in ToSet(s) : z.n > c.n => z.n >= e.n
        BY <2>5, <2>9, <3>8
      <4>2. p > c.n /\ p > c.mark
        BY <3>5, <3>8, <4>1 DEF Above
      <4>3. CASE d.mark = m /\ \A z \in ToSet(s) : z.n > c.n => z.n >= e.n
        <5>1. c \in Entry /\ c.n \in Nat
          <6>1. c \in Entry
            BY <2>2 DEF ToSet
          <6> QED BY <6>1 DEF Entry
        <5>2. f >= e.n
          BY <3>2, <3>3, <3>8, <4>1, <4>3, <5>1
        <5>3. f > e.n
          BY <2>8, <3>2, <3>3, <5>2
        <5> QED BY <3>6, <4>1, <4>2, <4>3, <5>3
      <4> QED BY <4>1, <4>2, <4>3
    <3> QED BY <3>7, <3>8 DEF Above, p, f
  <2>13. ASSUME NEW p \in Nat PROVE Beyond(p, t)' <=> Beyond(p, t)
    <3>1. ASSUME Beyond(p, t) PROVE Beyond(p, t)'
      <4>1. p > e.n /\ p > e.mark /\ p > reported[t] /\ p > m
        BY <2>1, <2>3, <3>1 DEF Beyond, Top
      <4>2. p > reported'[t]
        BY <2>10, <4>1
      <4>3. ASSUME NEW d \in ToSet(tracing'[t]) PROVE p > d.n /\ p > d.mark
        <5>1. PICK c \in ToSet(s) : c.n = d.n /\ (d.mark = c.mark \/ d.mark = m)
          BY <2>5, <2>9, <4>3
        <5> QED BY <3>1, <4>1, <5>1 DEF Beyond
      <4> QED BY <4>2, <4>3 DEF Beyond
    <3>2. ASSUME Beyond(p, t)' PROVE Beyond(p, t)
      <4>1. p > m
        BY <2>9, <2>10, <3>2 DEF Beyond
      <4>2. p > reported[t]
        BY <2>4, <2>8, <4>1
      <4>3. ASSUME NEW c \in ToSet(s) PROVE p > c.n /\ p > c.mark
        <5>1. c \in Entry /\ e \in Entry
          BY <2>1, <2>2 DEF ToSet
        <5>2. c.n \in Nat /\ c.mark \in Int /\ e.mark \in Int
          BY <5>1 DEF Entry, NoMark
        <5>3. CASE c = e
          BY <2>4, <2>8, <4>1, <5>2, <5>3
        <5>4. CASE \E d \in ToSet(q) : d.n = c.n /\ d.mark >= c.mark
          <6>1. PICK d \in ToSet(q) : d.n = c.n /\ d.mark >= c.mark
            BY <5>4
          <6>2. p > d.n /\ p > d.mark
            BY <2>9, <3>2, <6>1 DEF Beyond
          <6>3. d.mark \in Int
            <7>1. PICK z \in ToSet(s) : d.mark = z.mark \/ d.mark = m
              BY <2>5, <6>1
            <7>2. z \in Entry
              BY <2>2 DEF ToSet
            <7>3. z.mark \in Int
              BY <7>2 DEF Entry, NoMark
            <7> QED BY <2>4, <7>1, <7>3
          <6> QED BY <5>2, <6>1, <6>2, <6>3
        <5> QED BY <2>6, <5>3, <5>4
      <4> QED BY <4>2, <4>3 DEF Beyond
    <3> QED BY <3>1, <3>2
  <2>14. LineLag(t)'
    <3> SUFFICES ASSUME NEW r \in Rows, Line(r)' # 0, Of(r, t) PROVE Beyond(Input[r].pos, t)'
      BY DEF LineLag
    <3>1. Beyond(Input[r].pos, t)
      BY <1>4, <1>7 DEF LineLag
    <3> QED BY <2>13, <3>1, RowFacts
  <2>15. PastLag(t)'
    <3> SUFFICES ASSUME NEW r \in Accepted', ~exited', Of(r, t), Line(r)' = 0
                 PROVE  ~Beyond(Input[r].pos, t)'
      BY DEF PastLag
    <3>1. ~Beyond(Input[r].pos, t) /\ r \in Rows
      BY <1>2, <1>4, <1>7 DEF PastLag
    <3> QED BY <2>13, <3>1, RowFacts
  <2> QED BY <2>11, <2>12, <2>14, <2>15
<1> QED BY <1>8, <1>9

(***************************************************************************)
(* The invariant holds at the start and is kept by every step.             *)
(***************************************************************************)
LEMMA NothingThere ==
  ASSUME Init
  PROVE  /\ Open = {} /\ \A P : Holds(P) = 0
         /\ \A r : Line(r) = 0 /\ Where(r) = 0
<1>1. chan = <<>> /\ next_task = <<>> /\ error_task = <<>> /\ running = {}
  BY DEF Init
<1>2. \A T : Hits(<<>>, T) = 0
  <2>1. <<>> \in Seq(Task) /\ DOMAIN <<>> = {}
    OBVIOUS
  <2> QED BY <2>1, HitsType
<1>3. ASSUME NEW P PROVE Cardinality(Runs(running, P)) = 0
  <2>1. Runs(running, P) = {}
    BY <1>1 DEF Runs
  <2> QED BY <2>1, FS_EmptySet
<1>4. \A P : Holds(P) = 0
  BY <1>1, <1>2, <1>3 DEF Holds
<1>5. \A r : Line(r) = 0
  BY <1>1, <1>2 DEF Line
<1>6. \A r : Where(r) = 0
  BY <1>4, <1>5 DEF Where
<1>7. ToSet(<<>>) = {}
  BY DEF ToSet
<1>8. Open = {}
  BY <1>1, <1>7 DEF Open
<1> QED BY <1>4, <1>5, <1>6, <1>8

LEMMA InvInit ==
  ASSUME Init
  PROVE  Inv
<1>1. Types
  BY TypesInit
<1>2. /\ chan = <<>> /\ next_task = <<>> /\ error_task = <<>> /\ running = {}
      /\ Accepted = {} /\ table = [r \in Rows |-> 0] /\ doubtful = {}
      /\ pending_count = 0 /\ spawning_tasks = 0 /\ ~exited /\ ~grace_down
  BY DEF Init, Accepted
<1>3. ToSet(<<>>) = {} /\ DOMAIN <<>> = {}
  BY DEF ToSet
<1>4. Stored = {}
  BY <1>2 DEF Stored
<1>5. Tasks
  BY <1>2, <1>3, NothingThere DEF Tasks
<1>6. Places
  BY <1>2, <1>4, NothingThere DEF Places
<1>7. Once
  BY <1>2 DEF Once
<1>8. InLine
  BY <1>2, <1>3 DEF InLine, Ordered, RowsAscend
<1>9. Counters
  <2>1. Queued(next_task) = {}
    BY <1>2, <1>3 DEF Queued
  <2>2. Cardinality(Queued(next_task)) = 0
    BY <2>1, FS_EmptySet
  <2> QED BY <1>2, <1>3, <2>2, NothingThere DEF Counters
<1>10. ASSUME NEW t \in Tags PROVE Stack(t) /\ OpenLag(t) /\ LineLag(t) /\ PastLag(t)
  <2>1. tracing[t] = <<>> /\ reported[t] = NoMark
    BY DEF Init, NoMark
  <2>2. \A T : Hits(<<>>, T) = 0
    <3>1. <<>> \in Seq(Task)
      OBVIOUS
    <3> QED BY <1>3, <3>1, HitsType
  <2>3. Stack(t)
    BY <1>3, <2>1, <2>2, NothingThere DEF Stack, Sorted
  <2> QED BY <1>2, <2>3, NothingThere DEF OpenLag, LineLag, PastLag
<1> QED BY <1>1, <1>5, <1>6, <1>7, <1>8, <1>9, <1>10 DEF Inv, Stacks

LEMMA StacksStep ==
  ASSUME Types, Types', Tasks, Tasks', Places, InLine, Counters, Stacks, [Next]_vars
  PROVE  Stacks'
  BY StepKinds, StacksQuiet, StacksAppend, StacksDone, StacksNext, StacksExit, StacksFail

LEMMA InvStep ==
  ASSUME Inv, [Next]_vars
  PROVE  Inv'
<1>1. Types /\ Tasks /\ Places /\ Once /\ InLine /\ Counters /\ Stacks
  BY DEF Inv
<1>2. Types'
  BY <1>1, TypesStep
<1>3. Tasks'
  BY <1>1, <1>2, TasksStep
<1>4. Places' /\ Once' /\ InLine' /\ Counters'
  BY <1>1, PlacesStep, OnceStep, InLineStep, CountersStep
<1>5. Stacks'
  BY <1>1, <1>2, <1>3, StacksStep
<1> QED BY <1>2, <1>3, <1>4, <1>5 DEF Inv

\* The state of the writer is what its parts say together, at every step of
\* the scheduler, its tasks and its clients (storage/database.rs).
THEOREM WriterInvariant == Spec => []Inv
<1>1. Init => Inv
  BY InvInit
<1>2. Inv /\ [Next]_vars => Inv'
  BY InvStep
<1> QED BY <1>1, <1>2, PTL DEF Spec

(***************************************************************************)
(* The counters.                                                           *)
(***************************************************************************)
LEMMA AllHit ==
  ASSUME NEW T, NEW s \in Seq(T)
  PROVE  Hits(s, T) = Len(s)
<1>1. PICK n \in Nat : n = Len(s) /\ {j \in DOMAIN s : s[j] \in T} = 1..n
  OBVIOUS
<1>2. Cardinality(1..n) = n
  BY FS_Interval
<1> QED BY <1>1, <1>2 DEF Hits

LEMMA SpawningCounts ==
  ASSUME Types
  PROVE  Holds(Task) = Cardinality(running) + Len(error_task)
                         + Cardinality({i \in DOMAIN chan : BackIn(i)})
<1>1. chan \in Seq(Message) /\ error_task \in Seq(Task) /\ running \subseteq Runner
  BY DEF Types
<1>2. Hits(error_task, Task) = Len(error_task)
  BY <1>1, AllHit
<1>3. Runs(running, Task) = running
  BY <1>1 DEF Runs, Runner
<1>4. ASSUME NEW i \in DOMAIN chan PROVE chan[i] \in BackOf(Task) <=> BackIn(i)
  <2>1. chan[i] \in Message
    BY <1>1
  <2> QED BY <2>1, Kinds DEF BackOf, BackIn, Return
<1>5. Hits(chan, BackOf(Task)) = Cardinality({i \in DOMAIN chan : BackIn(i)})
  <2>1. {i \in DOMAIN chan : chan[i] \in BackOf(Task)} = {i \in DOMAIN chan : BackIn(i)}
    BY <1>4
  <2> QED BY <2>1 DEF Hits
<1>6. /\ Hits(error_task, Task) \in Nat /\ Hits(chan, BackOf(Task)) \in Nat
      /\ Cardinality(Runs(running, Task)) \in Nat
  BY HoldsType
<1> QED BY <1>2, <1>3, <1>5, <1>6 DEF Holds

LEMMA TaskIsTask ==
  ASSUME NEW x \in Task
  PROVE  IsTask(x)
<1>1. x.data \in Seq(Rows) /\ x.flag \in Flags
  BY DEF Task
<1> QED BY <1>1, FlagFacts DEF IsTask, ToSet

LEMMA TypeOKHolds ==
  ASSUME Inv
  PROVE  TypeOK
<1>1. Types /\ Tasks /\ Counters
  BY DEF Inv
<1>2. Len(chan) <= CHANNEL_LIMIT /\ \A i \in DOMAIN chan : IsMessage(chan[i])
  <2>1. chan \in Seq(Message) /\ Len(chan) <= CHANNEL_LIMIT
    BY <1>1 DEF Types
  <2>2. ASSUME NEW i \in DOMAIN chan PROVE IsMessage(chan[i])
    <3>1. chan[i] \in Message
      BY <2>1
    <3> QED BY <3>1, Kinds, TaskIsTask DEF IsMessage
  <2> QED BY <2>1, <2>2
<1>3. \A i \in DOMAIN next_task : IsTask(next_task[i]) /\ Len(next_task[i].data) <= INSERT_LIMIT
  <2> SUFFICES ASSUME NEW i \in DOMAIN next_task
               PROVE  IsTask(next_task[i]) /\ Len(next_task[i].data) <= INSERT_LIMIT
    OBVIOUS
  <2>1. next_task[i] \in Task
    BY <1>1 DEF Types
  <2>2. next_task[i] \in ToSet(next_task)
    BY DEF ToSet
  <2> QED BY <1>1, <2>1, <2>2, TaskIsTask DEF Tasks, NewTask
<1>4. \A i \in DOMAIN error_task : IsTask(error_task[i])
  <2> SUFFICES ASSUME NEW i \in DOMAIN error_task PROVE IsTask(error_task[i])
    OBVIOUS
  <2>1. error_task[i] \in Task
    BY <1>1 DEF Types
  <2> QED BY <2>1, TaskIsTask
<1>5. \A u \in running : /\ IsTask(u.task) /\ ToSet(u.left) \subseteq ToSet(u.task.data)
                         /\ u.outcome \in {"running", "Done", "Fail"}
  <2> SUFFICES ASSUME NEW u \in running
               PROVE  /\ IsTask(u.task) /\ ToSet(u.left) \subseteq ToSet(u.task.data)
                      /\ u.outcome \in {"running", "Done", "Fail"}
    OBVIOUS
  <2>1. u \in Runner /\ GoodRunner(u)
    BY <1>1 DEF Types, Tasks
  <2> QED BY <2>1, TaskIsTask DEF Runner, GoodRunner
<1>6. \A t \in Tags : \A i \in DOMAIN tracing[t] :
        tracing[t][i].n \in Nat /\ tracing[t][i].mark \in Nat \cup {NoMark}
  <2> SUFFICES ASSUME NEW t \in Tags, NEW i \in DOMAIN tracing[t]
               PROVE  tracing[t][i].n \in Nat /\ tracing[t][i].mark \in Nat \cup {NoMark}
    OBVIOUS
  <2>1. tracing[t] \in Seq(Entry)
    BY <1>1 DEF Types
  <2> QED BY <2>1, Entries
<1>7. CountersMatch
  BY <1>1, SpawningCounts DEF Counters, CountersMatch, Queued
<1>8. pending_count \in Nat /\ spawning_tasks \in 0..spawn_limit
  <2>1. next_task \in Seq(Task) /\ spawning_tasks <= spawn_limit /\ spawn_limit \in Nat
    BY <1>1, WriterAssumption DEF Types
  <2>2. pending_count \in Nat
    BY <1>1, <2>1, QueuedRows DEF Counters
  <2>3. spawning_tasks \in Nat
    BY <1>1, HoldsType DEF Counters
  <2> QED BY <2>1, <2>2, <2>3
<1>9. /\ table \in [Rows -> Nat]
      /\ offered \in 0..Len(Input) /\ dropped \subseteq 1..offered
      /\ doubtful \subseteq Rows /\ fails \in 0..MaxFails
      /\ {grace_down, exited, finishing} \subseteq BOOLEAN
  BY <1>1 DEF Types
<1>10. reported \in [Tags -> Nat \cup {-1}]
  BY <1>1 DEF Types, NoMark
<1> QED BY <1>2, <1>3, <1>4, <1>5, <1>6, <1>7, <1>8, <1>9, <1>10 DEF TypeOK

\* The types, the limits of channel, tasks and spawned tasks, and that
\* pending_count and spawning_tasks of the scheduler's loop count what they
\* should, whatever fails and is tried again (storage/database.rs).
THEOREM WriterTypes == Spec => []TypeOK
  BY WriterInvariant, TypeOKHolds, PTL

(***************************************************************************)
(* What a row can rely on.                                                 *)
(***************************************************************************)

\* A retry of sql_query_fine starts at the statement that failed: only rows
\* of a statement that failed after it took effect are inserted twice.
THEOREM WrittenOnce == Spec => []TwiceOnlyIfDoubtful
<1>1. ASSUME Inv PROVE TwiceOnlyIfDoubtful
  <2> SUFFICES ASSUME NEW r \in Rows, table[r] > 1, r \notin doubtful PROVE FALSE
    BY DEF TwiceOnlyIfDoubtful
  <2>1. table[r] <= 1 /\ table[r] \in Nat
    BY <1>1 DEF Inv, Once, Types
  <2> QED BY <2>1
<1> QED BY <1>1, WriterInvariant, PTL

\* A writer at rest has reported, for every tag, the last position it was
\* given: pop_top leaves no position behind in a stack (ProgTracing).
THEOREM ReportsEverything == Spec => []ReportComplete
<1>1. ASSUME Inv PROVE ReportComplete
  <2> SUFFICES ASSUME AtRest, NEW t \in Tags, NEW r \in Rows, r \in AcceptedOf(t)
               PROVE  Input[r].pos <= reported[t]
    BY DEF ReportComplete
  <2>1. Types /\ Counters /\ Stack(t) /\ PastLag(t)
    BY <1>1 DEF Inv, Stacks
  <2>2. chan = <<>> /\ next_task = <<>> /\ error_task = <<>> /\ running = {} /\ ~exited
    BY <2>1 DEF AtRest, Counters
  <2>3. ToSet(<<>>) = {}
    BY DEF ToSet
  <2>4. Open = {}
    BY <2>2, <2>3 DEF Open
  <2>5. Line(r) = 0
    BY <2>1, <2>2, <2>3, InLineIs
  <2>6. \A e \in ToSet(tracing[t]) : FALSE
    <3> SUFFICES ASSUME NEW e \in ToSet(tracing[t]) PROVE FALSE
      OBVIOUS
    <3>1. tracing[t] \in Seq(Entry)
      BY <2>1 DEF Types
    <3>2. e \in Entry
      BY <3>1 DEF ToSet
    <3>3. e.n \in Nat /\ e \in At(e.n)
      BY <3>2 DEF Entry, At
    <3>4. Hits(tracing[t], At(e.n)) # 0
      BY <3>1, <3>3, HitIn
    <3>5. Flagged(t, e.n) \in SUBSET Task
      BY DEF Flagged
    <3>6. Holds(Flagged(t, e.n)) = 0
      BY <2>1, <2>4, <3>5, OpenIsHeld
    <3> QED BY <2>1, <3>3, <3>4, <3>6 DEF Stack
  <2>7. r \in Accepted /\ Of(r, t)
    BY DEF AcceptedOf, Of
  <2>8. ~Beyond(Input[r].pos, t)
    BY <2>1, <2>2, <2>5, <2>7 DEF PastLag
  <2>9. ~(Input[r].pos > reported[t])
    BY <2>6, <2>8 DEF Beyond
  <2>10. Input[r].pos \in Nat /\ reported[t] \in Int
    BY <2>1, <2>7, RowFacts DEF Types, NoMark
  <2> QED BY <2>9, <2>10
<1> QED BY <1>1, WriterInvariant, PTL

(***************************************************************************)
(* The refinement of RowStore.                                             *)
(***************************************************************************)
LEMMA ReportAscends ==
  ASSUME Types, Tasks, Stacks, ReceiveDone, NEW t \in Tags
  PROVE  reported'[t] = reported[t] \/ (reported'[t] > reported[t] /\ reported'[t] # NoMark)
<1>1. PICK x : x = Head(chan).task
  OBVIOUS
<1>2. x \in Open
  BY <1>1, Received, OpenTasks DEF ReceiveDone
<1> DEFINE s == tracing[t]
           q == pop_top(tracing[t], x.flag[t]).stack
           out == pop_top(tracing[t], x.flag[t]).out
<1>3. reported'[t] = IF t \in DOMAIN x.flag /\ out # NoMark THEN out ELSE reported[t]
  BY <1>1 DEF ReceiveDone, finish_from
<1>4. CASE t \in DOMAIN x.flag
  <2>1. Stack(t)
    BY DEF Stacks
  <2>2. PICK e \in ToSet(s) : e.n = x.flag[t]
    BY <1>2, <1>4, <2>1, FlagIsEntry
  <2>3. s \in Seq(Entry) /\ Sorted(s)
    BY <2>1 DEF Types, Stack
  <2>4. (out = NoMark \/ out = Top(e)) /\ Top(e) \in Nat /\ Top(e) >= e.n
    BY <2>2, <2>3, PopTop
  <2>5. reported[t] < e.n /\ reported[t] \in Int /\ e.n \in Nat
    <3>1. e \in Entry
      BY <2>2, <2>3 DEF ToSet
    <3>2. reported[t] \in Int
      BY DEF Types, NoMark
    <3> QED BY <2>1, <2>2, <3>1, <3>2 DEF Stack, Entry
  <2> HIDE DEF out
  <2> QED BY <1>3, <2>4, <2>5 DEF NoMark
<1> QED BY <1>3, <1>4

\* What is reported when the end of a task is seen is stored.
LEMMA ReportedIsStored ==
  ASSUME Types, Types', Places', Stacks', ReceiveDone, NEW t \in Tags,
         NEW r \in Accepted, Of(r, t), Input[r].pos <= reported'[t]
  PROVE  r \in Stored
<1>1. ~exited /\ exited' = exited /\ UNCHANGED <<table, clientVars>>
  BY Received DEF ReceiveDone, dbVars
<1>2. Accepted' = Accepted /\ Stored' = Stored /\ Accepted \subseteq Rows
  BY <1>1, AcceptedFacts DEF Accepted, Stored, clientVars
<1>3. Input[r].pos \in Nat /\ reported'[t] \in Int
  <2>1. Input[r].pos \in Nat
    BY <1>2, RowFacts
  <2>2. reported'[t] \in Int
    BY DEF Types, NoMark
  <2> QED BY <2>1, <2>2
<1>4. ~(Input[r].pos > reported'[t])
  BY <1>3
<1>5. Line(r)' = 0
  <2>1. LineLag(t)'
    BY DEF Stacks
  <2>2. ~Beyond(Input[r].pos, t)'
    BY <1>4 DEF Beyond
  <2> QED BY <1>2, <2>1, <2>2 DEF LineLag
<1>6. Holds(With(r))' = 0
  <2>1. OpenLag(t)'
    BY DEF Stacks
  <2>2. ASSUME NEW x \in Open', x \in With(r) PROVE FALSE
    <3>1. r \in ToSet(x.data)
      BY <2>2 DEF With
    <3>2. Above(Input[r].pos, t, x.flag[t])'
      BY <2>1, <3>1 DEF OpenLag
    <3> QED BY <1>4, <3>2 DEF Above
  <2>3. With(r) \in SUBSET Task
    BY DEF With
  <2> QED BY <2>2, <2>3, HeldIsOpenNext
<1>7. Where(r)' = 0
  BY <1>2, <1>5, <1>6, WhereType
<1> QED BY <1>1, <1>2, <1>7 DEF Places

LEMMA StepStores ==
  ASSUME Inv, Inv', [Next]_vars
  PROVE  S!StoreNext \/ UNCHANGED S!storeVars
<1>1. Types /\ Tasks /\ Places /\ Stacks /\ Types' /\ Tasks' /\ Places' /\ Stacks'
  BY DEF Inv
<1>2. Stored \subseteq Stored' /\ Stored' \subseteq Accepted
  BY <1>1, StoredStep
<1>3. ASSUME UNCHANGED <<offered, dropped, reported>> PROVE S!Store
  BY <1>2, <1>3 DEF S!Store, Accepted
<1>4. CASE Moves
  <2>1. Quiet
    BY <1>1, <1>4, MovesAreQuiet
  <2> QED BY <1>3, <2>1 DEF Quiet, S!StoreNext
<1>5. CASE SpawnNext
  BY <1>3, <1>5 DEF SpawnNext, clientVars, S!StoreNext
<1>6. CASE SchedulerExit
  BY <1>3, <1>6 DEF SchedulerExit, clientVars, S!StoreNext
<1>7. ASSUME NEW u \in running, NEW committed \in BOOLEAN, InsertFail(u, committed)
      PROVE  S!StoreNext
  BY <1>3, <1>7 DEF InsertFail, clientVars, S!StoreNext
<1>8. CASE AppendWithNotify
  <2>1. reported' = reported /\ Stored' = Stored
    BY <1>8 DEF AppendWithNotify, dbVars, Stored
  <2>2. PICK n \in Rows : n = offered + 1 /\ n \notin Accepted
    BY <1>1, <1>8, AcceptedStep, AcceptedFacts
  <2>3. CASE ~(HasRoom /\ ~exited)
    <3>1. Accepted' = Accepted
      BY <1>1, <1>8, <2>3, AcceptedStep
    <3> QED BY <2>1, <3>1 DEF S!storeVars
  <2>4. CASE HasRoom /\ ~exited
    <3>1. Accepted' = Accepted \cup {n}
      BY <1>1, <1>8, <2>2, <2>4, AcceptedStep
    <3>2. Line(n)' = Line(n) + 1 /\ Line(n) \in Nat
      BY <1>1, <1>8, <2>2, <2>4, AppendEffect, WhereType
    <3>3. ASSUME NEW t \in Tags, Of(n, t) PROVE Input[n].pos > reported[t]
      <4>1. LineLag(t)'
        BY <1>1 DEF Stacks
      <4>2. Line(n)' # 0
        BY <3>2
      <4>3. Beyond(Input[n].pos, t)'
        BY <3>3, <4>1, <4>2 DEF LineLag
      <4> QED BY <2>1, <4>3 DEF Beyond
    <3>4. n \in DOMAIN Input
      BY WriterAssumption DEF Rows
    <3>5. S!Take(n)
      BY <2>1, <2>2, <3>1, <3>3 DEF S!Take, S!Of, Of, Carries
    <3> QED BY <3>4, <3>5 DEF S!StoreNext
  <2> QED BY <2>3, <2>4
<1>9. CASE ReceiveDone
  <2>1. Accepted' = Accepted /\ Stored' = Stored /\ Accepted \subseteq Rows
    BY <1>1, <1>9, Received, AcceptedFacts DEF ReceiveDone, dbVars, clientVars, Accepted, Stored
  <2>2. DOMAIN reported' = Tags
    BY <1>1 DEF Types
  <2>3. ASSUME NEW t \in Tags, reported'[t] # reported[t]
        PROVE  /\ reported'[t] > reported[t]
               /\ \E r \in Accepted : S!Of(r, t) /\ Input[r].pos = reported'[t]
               /\ \A r \in Accepted : S!Of(r, t) /\ Input[r].pos <= reported'[t] => r \in Stored
    <3>1. reported'[t] > reported[t] /\ reported'[t] # NoMark
      BY <1>1, <1>9, <2>3, ReportAscends
    <3>2. \E r \in Accepted : Of(r, t) /\ Input[r].pos = reported'[t]
      <4>1. Stack(t)'
        BY <1>1 DEF Stacks
      <4> QED BY <2>1, <3>1, <4>1 DEF Stack, Given
    <3>3. \A r \in Accepted : Of(r, t) /\ Input[r].pos <= reported'[t] => r \in Stored
      BY <1>1, <1>9, ReportedIsStored
    <3> QED BY <3>1, <3>2, <3>3 DEF S!Of, Of, Carries
  <2> QED BY <2>1, <2>2, <2>3 DEF S!StoreNext, S!Report
<1> QED BY <1>4, <1>5, <1>6, <1>7, <1>8, <1>9, StepKinds

\* The writer keeps what RowStore promises: only what append_with_notify
\* accepted is in the table, and complete_notify reports a position of a tag,
\* higher than the last, only when every row up to it is in the table, though
\* tasks end in any order and some are tried again.
THEOREM WriterImplementsRowStore == Spec => ImplementsRowStore
<1>1. Init => S!StoreInit
  <2> SUFFICES ASSUME Init PROVE S!StoreInit
    OBVIOUS
  <2>1. offered = 0 /\ dropped = {} /\ table = [r \in Rows |-> 0]
    BY DEF Init
  <2>2. Accepted = {} /\ Stored = {}
    BY <2>1 DEF Accepted, Stored
  <2> QED BY <2>2 DEF Init, S!StoreInit
<1>2. Inv /\ Inv' /\ [Next]_vars => [S!StoreNext]_S!storeVars
  BY StepStores
<1> QED BY <1>1, <1>2, WriterInvariant, PTL DEF Spec, ImplementsRowStore, S!StoreSpec

=============================================================================
