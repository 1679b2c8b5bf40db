-------------------------- MODULE PersistorProofs --------------------------
(***************************************************************************)
(* The persistor, for any topic, any chain of writers and any sizes of     *)
(* tasks and queues: an offset is committed only when the rows of the      *)
(* messages below it are stored, and at rest every offset is committed     *)
(* that nothing has got in the way of.                                     *)
(***************************************************************************)
EXTENDS Persistor, SequenceFacts

(***************************************************************************)
(* Rows and where they are.                                                *)
(***************************************************************************)
Tag(r) == r.msg[1]
Off(r) == r.msg[2]
To(r) == Chain[r.level]
Offsets(p) == 0..Len(Log[p]) - 1

InQueue(w) == ToSet(queue[w])
InTask(w, k) == ToSet(open[w][k])
InOpen(w) == UNION {InTask(w, k) : k \in DOMAIN open[w]}
Held(w) == InQueue(w) \cup InOpen(w)

\* A row that is not stored, of a message that no exception is made for.
Live(r) == r.msg \notin exposed /\ r \notin stored

Same(q, r) == Tag(q) = Tag(r)
Precedes(q, r) == Off(q) < Off(r) \/ (Off(q) = Off(r) /\ q.level < r.level)

(***************************************************************************)
(* Types.                                                                  *)
(***************************************************************************)
EntryOf(N) == [n : N, mark : N \cup {NoMark}]
Flags == {f \in UNION {[T -> Nat] : T \in SUBSET Tags} : \A p \in DOMAIN f : f[p] \in Offsets(p)}
Mark == [left : BOOLEAN, val : Nat]
Marks == {f \in UNION {[T -> Mark] : T \in SUBSET Tags} : \A p \in DOMAIN f : f[p].val \in Offsets(p)}

Types ==
  /\ phase \in {"run", "finishing", "finished", "down"}
  /\ position \in [Tags -> Nat] /\ \A p \in Tags : position[p] <= Len(Log[p])
  /\ committed \in [Tags -> Nat] /\ \A p \in Tags : committed[p] <= Len(Log[p])
  /\ queue \in [Writers -> Seq(Rows)] /\ open \in [Writers -> Seq(Seq(Rows))]
  /\ \A w \in Writers : Len(open[w]) <= spawn_limit /\ \A k \in DOMAIN open[w] : open[w][k] # <<>>
  /\ \A w \in Writers : \A r \in Held(w) : To(r) = w
  /\ DOMAIN tracing = Writers
  /\ \A w \in Writers : DOMAIN tracing[w] = Tags
  /\ \A w \in Writers, p \in Tags : tracing[w][p] \in Seq(EntryOf(Offsets(p)))
  /\ watch \in [Writers -> Flags] /\ overwritten \in [Writers -> SUBSET Tags]
  /\ fresh \in [Levels -> BOOLEAN] /\ status \in [Levels -> Marks]
  /\ stored \subseteq Rows /\ exposed \subseteq Good /\ reread \subseteq Tags /\ refused \subseteq Tags
  /\ rewinds \in Nat /\ fails \in Nat

(***************************************************************************)
(* The order of what is held.  From a live row on, a queue ascends; what   *)
(* is in the tasks comes before a live row of the queue, and a task with a *)
(* live row stands between the tasks before and after it.                  *)
(***************************************************************************)
QueueAscends(w) ==
  \A i \in DOMAIN queue[w] : Live(queue[w][i]) =>
    /\ \A j \in DOMAIN queue[w] :
         j < i /\ Same(queue[w][j], queue[w][i]) => Precedes(queue[w][j], queue[w][i])
    /\ \A j, l \in DOMAIN queue[w] :
         i <= j /\ j < l /\ Same(queue[w][j], queue[w][i]) /\ Same(queue[w][l], queue[w][i])
            => Precedes(queue[w][j], queue[w][l])

QueueBehind(w) ==
  \A r \in InQueue(w) : Live(r) => \A q \in InOpen(w) : Same(q, r) => Off(q) < Off(r)

TaskBetween(w, k, r) ==
  /\ \A q \in InQueue(w), s \in InTask(w, k) : Same(q, r) /\ Same(s, r) => Off(s) < Off(q)
  /\ \A l \in DOMAIN open[w] : \A q \in InTask(w, l) : l < k /\ Same(q, r) => Off(q) < Off(r)
  /\ \A l \in DOMAIN open[w] : \A q \in InTask(w, l), s \in InTask(w, k) :
       l > k /\ Same(q, r) /\ Same(s, r) => Off(s) < Off(q)

TasksAscend(w) ==
  \A k \in DOMAIN open[w] : \A r \in InTask(w, k) : Live(r) => TaskBetween(w, k, r)

\* No partition with a live row was read again since.
LiveIsRead(w) ==
  \A r \in Held(w) : Live(r) => \A q \in Held(w) : Same(q, r) => Off(q) < position[Tag(r)]

Order ==
  \A w \in Writers : QueueAscends(w) /\ QueueBehind(w) /\ TasksAscend(w) /\ LiveIsRead(w)

(***************************************************************************)
(* No live row is left behind: up to the position and to every offset that *)
(* is held, reported or remembered, the live rows are held.                *)
(***************************************************************************)
Reached(p, x) ==
  \A r \in Rows : Tag(r) = p /\ Off(r) <= x /\ Live(r) => r \in Held(To(r))

Coverage ==
  /\ \A p \in Tags : Reached(p, position[p] - 1)
  /\ \A w \in Writers : \A r \in Held(w) : Reached(Tag(r), Off(r))

\* The rows of level i have been written.
Written(i, p, x) ==
  \A r \in Rows : r.level = i /\ Tag(r) = p /\ Off(r) <= x => ~Live(r)

(***************************************************************************)
(* The stacks: one entry for every open task, ascending.  A mark says that *)
(* only what is held at or below its entry is still to be written.         *)
(***************************************************************************)
Sorted(s) == \A i, j \in DOMAIN s : i < j => s[i].n <= s[j].n

With(p, V) == {x \in Seq(Rows) : p \in DOMAIN FlagOf(x) /\ FlagOf(x)[p] \in V}
At(p, V) == {e \in EntryOf(Offsets(p)) : e.n \in V}

Balanced(w, p) == \A V \in SUBSET Nat : Hits(tracing[w][p], At(p, V)) = Hits(open[w], With(p, V))

Above(w, p, n, x) ==
  /\ \A r \in InQueue(w) : Live(r) /\ Tag(r) = p => x < Off(r)
  /\ \A k \in DOMAIN open[w] : \A r \in InTask(w, k) :
       Live(r) /\ Tag(r) = p /\ FlagOf(open[w][k])[p] > n => x < Off(r)

Marked(w, p) ==
  \A i \in DOMAIN tracing[w][p] : LET e == tracing[w][p][i] IN
    e.mark # NoMark => Reached(p, e.mark) /\ Above(w, p, e.n, e.mark)

Stacks == \A w \in Writers, p \in Tags : Sorted(tracing[w][p]) /\ Balanced(w, p) /\ Marked(w, p)

(***************************************************************************)
(* What is reported has been written, by the writers it is known of.       *)
(***************************************************************************)
Reports ==
  \A i \in Levels : \A p \in DOMAIN watch[Chain[i]] :
    Written(i, p, watch[Chain[i]][p]) /\ Reached(p, watch[Chain[i]][p])

Trackers ==
  \A i \in Levels : \A p \in DOMAIN status[i] :
    /\ Reached(p, status[i][p].val)
    /\ status[i][p].left => Written(i, p, status[i][p].val)
    /\ ~status[i][p].left => \A j \in Levels : j > i => Written(j, p, status[i][p].val)

Ended == phase \in {"finished", "down"} => \A w \in Writers : queue[w] = <<>> /\ open[w] = <<>>

Committed == \A r \in Rows : Off(r) < committed[Tag(r)] => ~Live(r)

Inv == Types /\ Order /\ Coverage /\ Stacks /\ Reports /\ Trackers /\ Ended /\ Committed

(***************************************************************************)
(* The constants.                                                          *)
(***************************************************************************)
LEMMA ChainFacts ==
  /\ Bottom \in Nat \ {0} /\ Levels = 1..Bottom
  /\ \A i \in Levels : Chain[i] \in Writers
  /\ \A w \in Writers : \E i \in Levels : Chain[i] = w
<1>1. Chain \in Seq(Writers) /\ Chain # <<>>
  BY PersistorAssumption
<1>2. Bottom \in Nat \ {0} /\ DOMAIN Chain = 1..Bottom
  BY <1>1 DEF Bottom
<1> QED BY <1>2 DEF Levels, Writers, ToSet

LEMMA LogFacts ==
  ASSUME NEW p \in Tags
  PROVE  Len(Log[p]) \in Nat /\ Offsets(p) \subseteq Nat /\ Offsets(p) \subseteq Int
<1>1. Log[p] \in Seq(BOOLEAN)
  BY PersistorAssumption
<1> QED BY <1>1 DEF Offsets

LEMMA GoodFacts ==
  ASSUME NEW m \in Good
  PROVE  /\ m = <<m[1], m[2]>> /\ m[1] \in Tags /\ m[2] \in Offsets(m[1]) /\ m[2] \in Nat
         /\ m[2] < Len(Log[m[1]])
<1>1. PICK p \in Tags : m \in {p} \X (0..Len(Log[p]) - 1)
  BY DEF Good
<1>2. Len(Log[p]) \in Nat
  BY LogFacts
<1> QED BY <1>1, <1>2 DEF Offsets

LEMMA RowFacts ==
  ASSUME NEW r \in Rows
  PROVE  /\ r.msg \in Good /\ r.level \in Levels /\ r = Row(r.msg, r.level)
         /\ r.msg = <<Tag(r), Off(r)>> /\ Tag(r) \in Tags /\ Off(r) \in Nat /\ Off(r) \in Offsets(Tag(r))
         /\ To(r) \in Writers /\ r.level \in Nat
<1>1. r.msg \in Good /\ r.level \in Levels /\ r = Row(r.msg, r.level)
  BY DEF Rows, Row
<1> QED BY <1>1, GoodFacts, ChainFacts DEF Tag, Off, To

LEMMA RowMade ==
  ASSUME NEW m \in Good, NEW i \in Levels
  PROVE  /\ Row(m, i) \in Rows /\ Row(m, i).msg = m /\ Row(m, i).level = i
         /\ Tag(Row(m, i)) = m[1] /\ Off(Row(m, i)) = m[2] /\ To(Row(m, i)) = Chain[i]
BY DEF Row, Rows, Tag, Off, To

LEMMA Twins ==
  ASSUME NEW q \in Rows, NEW r \in Rows, Same(q, r), Off(q) = Off(r)
  PROVE  q.msg = r.msg
BY RowFacts DEF Same

LEMMA PrecedesOrders ==
  ASSUME NEW q \in Rows, NEW r \in Rows
  PROVE  /\ ~Precedes(q, q)
         /\ Precedes(q, r) => ~Precedes(r, q)
         /\ \A s \in Rows : Precedes(q, r) /\ Precedes(r, s) => Precedes(q, s)
<1>1. \A s \in Rows : Off(s) \in Nat /\ s.level \in Nat
  BY RowFacts
<1> QED BY <1>1 DEF Precedes

(***************************************************************************)
(* What RowsFor computes.                                                  *)
(***************************************************************************)
UpTo(f, w, m, n) ==
  \A i \in 0..n :
    f[i] = IF i = 0 THEN <<>>
           ELSE IF Chain[i] = w THEN Append(f[i - 1], Row(m, i)) ELSE f[i - 1]

LEMMA UpToExists ==
  ASSUME NEW w, NEW m, NEW n \in Nat
  PROVE  \E f : DOMAIN f = 0..n /\ f = [i \in 0..n |-> f[i]] /\ UpTo(f, w, m, n)
<1> DEFINE P(k) == \E f : DOMAIN f = 0..k /\ f = [i \in 0..k |-> f[i]] /\ UpTo(f, w, m, k)
           T == {k \in Nat : P(k)}
<1>1. 0 \in T
  <2> DEFINE f == [i \in 0..0 |-> <<>>]
  <2>1. DOMAIN f = 0..0 /\ f = [i \in 0..0 |-> f[i]] /\ UpTo(f, w, m, 0)
    BY DEF UpTo
  <2> HIDE DEF f
  <2> QED BY <2>1
<1>2. ASSUME NEW k \in Nat, k \in T PROVE k + 1 \in T
  <2>1. PICK f : DOMAIN f = 0..k /\ UpTo(f, w, m, k)
    BY <1>2
  <2> DEFINE next == IF Chain[k + 1] = w THEN Append(f[k], Row(m, k + 1)) ELSE f[k]
             g == [i \in 0..k + 1 |-> IF i = k + 1 THEN next ELSE f[i]]
  <2>2. DOMAIN g = 0..k + 1 /\ g = [i \in 0..k + 1 |-> g[i]]
    OBVIOUS
  <2>3. \A i \in 0..k : g[i] = f[i]
    <3> HIDE DEF next
    <3> QED OBVIOUS
  <2>4. g[k + 1] = next
    OBVIOUS
  <2> HIDE DEF g, next
  <2>5. ASSUME NEW i \in 0..k + 1
        PROVE  g[i] = IF i = 0 THEN <<>>
                      ELSE IF Chain[i] = w THEN Append(g[i - 1], Row(m, i)) ELSE g[i - 1]
    <3>1. CASE i = k + 1
      <4>1. i # 0 /\ i - 1 = k /\ k \in 0..k
        BY <3>1
      <4> QED BY <2>3, <2>4, <3>1, <4>1 DEF next
    <3>2. CASE i \in 0..k
      <4>1. i # 0 => i - 1 \in 0..k
        BY <3>2
      <4> QED BY <2>1, <2>3, <3>2, <4>1 DEF UpTo
    <3> QED BY <3>1, <3>2
  <2>6. UpTo(g, w, m, k + 1)
    BY <2>5 DEF UpTo
  <2>7. P(k + 1)
    BY <2>2, <2>6
  <2> QED BY <2>7
<1>3. Nat \subseteq T
  <2> HIDE DEF T
  <2> QED BY <1>1, <1>2, SetInduction
<1> QED BY <1>3

LEMMA RowsForFacts ==
  ASSUME NEW w \in Writers, NEW m \in Good
  PROVE  /\ RowsFor(w, m) \in Seq(Rows)
         /\ \A j \in DOMAIN RowsFor(w, m) : RowsFor(w, m)[j].msg = m /\ To(RowsFor(w, m)[j]) = w
         /\ \A j, l \in DOMAIN RowsFor(w, m) :
              j < l => RowsFor(w, m)[j].level < RowsFor(w, m)[l].level
         /\ \A i \in Levels : Chain[i] = w => Row(m, i) \in ToSet(RowsFor(w, m))
<1> DEFINE Solves(f) == f = [i \in 0..Bottom |->
                          IF i = 0 THEN <<>>
                          ELSE IF Chain[i] = w THEN Append(f[i - 1], Row(m, i)) ELSE f[i - 1]]
           s == CHOOSE f : Solves(f)
<1>1. Bottom \in Nat \ {0} /\ Levels = 1..Bottom
  BY ChainFacts
<1>2. PICK r : DOMAIN r = 0..Bottom /\ r = [i \in 0..Bottom |-> r[i]] /\ UpTo(r, w, m, Bottom)
  BY <1>1, UpToExists
<1>3. Solves(r)
  BY <1>2 DEF UpTo
<1>4. Solves(s)
  <2> HIDE DEF Solves
  <2> QED BY <1>3
<1>5. RowsFor(w, m) = s[Bottom]
  BY DEF RowsFor
<1> HIDE DEF s
<1>6. UpTo(s, w, m, Bottom)
  BY <1>4 DEF UpTo
<1> DEFINE Is(q, k) == /\ q \in Seq(Rows)
                       /\ \A j \in DOMAIN q : q[j].msg = m /\ To(q[j]) = w /\ q[j].level <= k
                       /\ \A j, l \in DOMAIN q : j < l => q[j].level < q[l].level
                       /\ \A i \in 1..k : Chain[i] = w => Row(m, i) \in ToSet(q)
           T == {k \in Nat : k <= Bottom => Is(s[k], k)}
<1>7. 0 \in T
  <2>1. s[0] = <<>>
    BY <1>1, <1>6 DEF UpTo
  <2>2. <<>> \in Seq(Rows) /\ DOMAIN <<>> = {} /\ 1..0 = {}
    OBVIOUS
  <2>3. Is(<<>>, 0)
    BY <2>2
  <2> HIDE DEF Is
  <2> QED BY <2>1, <2>3
<1>8. ASSUME NEW k \in Nat, k \in T PROVE k + 1 \in T
  <2> SUFFICES ASSUME k + 1 <= Bottom PROVE Is(s[k + 1], k + 1)
    OBVIOUS
  <2>1. k + 1 \in Levels /\ k + 1 \in 0..Bottom /\ k + 1 # 0 /\ (k + 1) - 1 = k
    BY <1>1
  <2>2. Is(s[k], k)
    BY <1>1, <1>8, <2>1
  <2>3. s[k + 1] = IF Chain[k + 1] = w THEN Append(s[k], Row(m, k + 1)) ELSE s[k]
    BY <1>6, <2>1 DEF UpTo
  <2>4. 1..k + 1 = (1..k) \cup {k + 1}
    OBVIOUS
  <2>5. \A q \in Rows : q.level \in Nat
    BY RowFacts
  <2>6. CASE Chain[k + 1] # w
    <3>1. s[k + 1] = s[k]
      BY <2>3, <2>6
    <3>2. \A j \in DOMAIN s[k] : s[k][j].level <= k + 1
      BY <2>2, <2>5
    <3> HIDE DEF T
    <3> QED BY <2>2, <2>4, <2>6, <3>1, <3>2
  <2>7. CASE Chain[k + 1] = w
    <3> DEFINE q == s[k]
               x == Row(m, k + 1)
               a == Append(q, x)
    <3>1. x \in Rows /\ x.msg = m /\ x.level = k + 1 /\ To(x) = w
      BY <2>1, <2>7, RowMade
    <3>2. q \in Seq(Rows)
      BY <2>2
    <3> HIDE DEF x, q
    <3>3. /\ a \in Seq(Rows) /\ DOMAIN q = 1..Len(q) /\ DOMAIN a = 1..Len(q) + 1 /\ Len(q) \in Nat
          /\ \A j \in 1..Len(q) : a[j] = q[j]
          /\ a[Len(q) + 1] = x
      BY <3>1, <3>2
    <3>4. ToSet(a) = ToSet(q) \cup {x}
      BY <3>1, <3>2, AppendElements
    <3>5. \A j \in DOMAIN q : q[j].msg = m /\ To(q[j]) = w /\ q[j].level <= k /\ q[j].level \in Nat
      BY <2>2, <2>5, <3>2 DEF q
    <3>6. \A j, l \in DOMAIN q : j < l => q[j].level < q[l].level
      BY <2>2 DEF q
    <3>7. \A j \in DOMAIN a : j \in DOMAIN q \/ j = Len(q) + 1
      BY <3>3
    <3> HIDE DEF a
    <3>8. \A j \in DOMAIN a : a[j].msg = m /\ To(a[j]) = w /\ a[j].level <= k + 1
      BY <3>1, <3>3, <3>5, <3>7
    <3>9. ASSUME NEW j \in DOMAIN a, NEW l \in DOMAIN a, j < l PROVE a[j].level < a[l].level
      <4>1. j \in DOMAIN q
        BY <3>3, <3>9
      <4>2. CASE l \in DOMAIN q
        BY <3>3, <3>6, <3>9, <4>1, <4>2
      <4>3. CASE l = Len(q) + 1
        BY <3>1, <3>3, <3>5, <4>1, <4>3
      <4> QED BY <3>7, <4>2, <4>3
    <3>10. \A i \in 1..k + 1 : Chain[i] = w => Row(m, i) \in ToSet(a)
      <4>1. \A i \in 1..k : Chain[i] = w => Row(m, i) \in ToSet(q)
        BY <2>2 DEF q
      <4> QED BY <2>4, <3>4, <4>1 DEF x
    <3>11. s[k + 1] = a
      BY <2>3, <2>7 DEF a, q, x
    <3> HIDE DEF T
    <3> QED BY <3>3, <3>8, <3>9, <3>10, <3>11
  <2> QED BY <2>6, <2>7
<1>9. Nat \subseteq T
  <2> HIDE DEF T
  <2> QED BY <1>7, <1>8, SetInduction
<1>10. Is(s[Bottom], Bottom)
  BY <1>1, <1>9
<1> HIDE DEF T
<1> QED BY <1>1, <1>5, <1>10

(***************************************************************************)
(* The flag of a task.                                                     *)
(***************************************************************************)
LEMMA Largest ==
  ASSUME NEW n \in Nat, NEW S \in SUBSET (0..n), S # {}
  PROVE  Max(S) \in S /\ \A y \in S : y <= Max(S)
<1> DEFINE T == {n - x : x \in S}
<1>1. T # {} /\ T \subseteq Nat
  <2>1. \A x \in S : x \in Int /\ n - x \in Nat
    OBVIOUS
  <2> QED BY <2>1
<1>2. PICK d \in T : \A y \in T : <<y, d>> \notin OpToRel(<, Nat)
  BY <1>1, NatLessThanWellFounded, WFMin
<1>3. ASSUME NEW y \in T PROVE d <= y
  <2> HIDE DEF T
  <2>1. y \in Nat /\ d \in Nat
    BY <1>1, <1>3
  <2>2. ~(y < d)
    BY <1>2, <1>3, <2>1 DEF OpToRel
  <2> QED BY <2>1, <2>2
<1>4. PICK x \in S : d = n - x
  OBVIOUS
<1>5. ASSUME NEW y \in S PROVE x >= y
  <2>1. n - y \in T
    OBVIOUS
  <2>2. n - x <= n - y
    <3> HIDE DEF T
    <3> QED BY <1>3, <1>4, <2>1
  <2>3. x \in Int /\ y \in Int
    OBVIOUS
  <2> QED BY <2>2, <2>3
<1>6. \E x1 \in S : \A y \in S : x1 >= y
  BY <1>5
<1>7. Max(S) \in S /\ \A y \in S : Max(S) >= y
  BY <1>6 DEF Max
<1>8. \A y \in S : y \in Int
  OBVIOUS
<1> QED BY <1>7, <1>8

LEMMA FlagFacts ==
  ASSUME NEW x \in Seq(Rows)
  PROVE  /\ FlagOf(x) \in Flags
         /\ \A r \in ToSet(x) : Tag(r) \in DOMAIN FlagOf(x) /\ Off(r) <= FlagOf(x)[Tag(r)]
         /\ \A p \in DOMAIN FlagOf(x) : \E r \in ToSet(x) : Tag(r) = p /\ Off(r) = FlagOf(x)[p]
<1> DEFINE D == {r.msg[1] : r \in ToSet(x)}
           S(p) == {r.msg[2] : r \in {q \in ToSet(x) : q.msg[1] = p}}
<1>1. ToSet(x) \subseteq Rows
  BY DEF ToSet
<1>2. DOMAIN FlagOf(x) = D /\ FlagOf(x) = [p \in D |-> FlagOf(x)[p]]
      /\ \A p \in D : FlagOf(x)[p] = Max(S(p))
  BY DEF FlagOf
<1>3. D \subseteq Tags
  BY <1>1, RowFacts DEF Tag
<1>4. ASSUME NEW p \in D
      PROVE  /\ \E r \in ToSet(x) : Tag(r) = p /\ Off(r) = FlagOf(x)[p]
             /\ \A r \in ToSet(x) : Tag(r) = p => Off(r) <= FlagOf(x)[p]
             /\ FlagOf(x)[p] \in Offsets(p) /\ FlagOf(x)[p] \in Nat
  <2>1. \A r \in ToSet(x) : Tag(r) = p => Off(r) \in Offsets(p) /\ Off(r) \in Nat
    BY <1>1, RowFacts
  <2>2. Len(Log[p]) \in Nat /\ Offsets(p) = 0..Len(Log[p]) - 1
    BY <1>3, LogFacts DEF Offsets
  <2>3. \A y : y \in S(p) <=> \E r \in ToSet(x) : Tag(r) = p /\ y = Off(r)
    BY DEF Tag, Off
  <2>4. S(p) # {}
    <3>1. PICK r \in ToSet(x) : p = r.msg[1]
      OBVIOUS
    <3> QED BY <3>1
  <2> DEFINE n == Len(Log[p]) - 1
  <2> HIDE DEF S, D
  <2>5. S(p) \in SUBSET (0..n)
    BY <2>1, <2>2, <2>3
  <2>6. n \in Nat
    <3>1. PICK y \in S(p) : y \in 0..n
      BY <2>4, <2>5
    <3> QED BY <2>2, <3>1
  <2>7. Max(S(p)) \in S(p) /\ \A y \in S(p) : y <= Max(S(p))
    <3> HIDE DEF n
    <3> QED BY <2>4, <2>5, <2>6, Largest
  <2> QED BY <1>2, <2>1, <2>3, <2>7
<1> HIDE DEF D, S
<1>5. FlagOf(x) \in [D -> Nat]
  BY <1>2, <1>4
<1>6. FlagOf(x) \in Flags
  BY <1>2, <1>3, <1>4, <1>5 DEF Flags
<1>7. \A r \in ToSet(x) : Tag(r) \in D
  BY DEF D, Tag
<1> QED BY <1>2, <1>4, <1>6, <1>7

(***************************************************************************)
(* What the operations do to a stack.                                      *)
(***************************************************************************)
Top(e) == IF e.mark # NoMark THEN e.mark ELSE e.n

LEMMA Entries ==
  ASSUME NEW N \in SUBSET Nat, NEW s \in Seq(EntryOf(N))
  PROVE  /\ DOMAIN s = 1..Len(s) /\ Len(s) \in Nat
         /\ \A i \in DOMAIN s : /\ s[i] \in EntryOf(N) /\ s[i].n \in N /\ s[i].n \in Nat
                                /\ s[i].mark \in N \cup {NoMark} /\ s[i].mark \in Int
                                /\ Top(s[i]) \in N
<1>1. DOMAIN s = 1..Len(s) /\ Len(s) \in Nat /\ \A i \in DOMAIN s : s[i] \in EntryOf(N)
  OBVIOUS
<1>2. ASSUME NEW e \in EntryOf(N)
      PROVE  /\ e.n \in N /\ e.n \in Nat /\ e.mark \in N \cup {NoMark} /\ e.mark \in Int
             /\ Top(e) \in N
  <2>1. e.n \in N /\ (e.mark \in N \/ e.mark = NoMark)
    BY DEF EntryOf
  <2>2. \A x \in N : x \in Nat /\ x \in Int
    OBVIOUS
  <2>3. NoMark \in Int
    BY DEF NoMark
  <2> QED BY <2>1, <2>2, <2>3 DEF Top
<1> QED BY <1>1, <1>2

LEMMA PushForm ==
  ASSUME NEW N \in SUBSET Nat, NEW s \in Seq(EntryOf(N)), Sorted(s), NEW n \in N
  PROVE  \E k \in 1..Len(s) + 1 :
           /\ push_top(s, n) \in Seq(EntryOf(N)) /\ Len(push_top(s, n)) = Len(s) + 1
           /\ \A i \in 1..Len(s) + 1 :
                push_top(s, n)[i] = IF i < k THEN s[i]
                                    ELSE IF i = k THEN [n |-> n, mark |-> NoMark] ELSE s[i - 1]
           /\ \A i \in DOMAIN s : i < k => s[i].n <= n
           /\ \A i \in DOMAIN s : i >= k => n <= s[i].n
           /\ RemoveAt(push_top(s, n), k) = s
<1> DEFINE D == {i \in DOMAIN s : s[i].n <= n}
           e == [n |-> n, mark |-> NoMark]
           q == push_top(s, n)
<1>1. /\ DOMAIN s = 1..Len(s) /\ Len(s) \in Nat /\ n \in Nat
      /\ \A i \in DOMAIN s : s[i] \in EntryOf(N) /\ s[i].n \in Nat
  BY Entries
<1>2. \E c \in 0..Len(s) : D = 1..c
  <2>1. CASE D = {}
    <3>1. D = 1..0
      BY <2>1
    <3> QED BY <1>1, <3>1
  <2>2. CASE D # {}
    <3>1. D \in SUBSET (0..Len(s))
      BY <1>1
    <3> DEFINE c == Max(D)
    <3>2. c \in D /\ \A y \in D : y <= c
      <4> HIDE DEF D
      <4> QED BY <1>1, <2>2, <3>1, Largest
    <3> HIDE DEF c
    <3>3. ASSUME NEW i \in DOMAIN s, i < c PROVE s[i].n <= n
      <4>1. s[i].n <= s[c].n /\ s[c].n <= n /\ c \in DOMAIN s
        BY <3>2, <3>3 DEF Sorted
      <4> QED BY <1>1, <4>1
    <3>4. c \in 1..Len(s)
      BY <1>1, <3>2
    <3>5. D = 1..c
      BY <1>1, <3>2, <3>3, <3>4
    <3> HIDE DEF D
    <3> QED BY <1>1, <3>4, <3>5
  <2> QED BY <2>1, <2>2
<1>3. PICK c \in 0..Len(s) : D = 1..c
  BY <1>2
<1> DEFINE k == 1 + c
<1>4. Cardinality(D) = c
  <2>1. c \in Nat
    BY <1>1
  <2>2. Cardinality(1..c) = c
    BY <2>1, FS_Interval
  <2> HIDE DEF D
  <2> QED BY <1>3, <2>2
<1> DEFINE a == SubSeq(s, 1, k - 1)
           b == SubSeq(s, k, Len(s))
<1>5. q = a \o <<e>> \o b
  BY <1>4 DEF push_top, InsertAt
<1>6. e \in EntryOf(N) /\ e.n = n
  BY DEF EntryOf
<1> HIDE DEF e
<1>7. k \in 1..Len(s) + 1 /\ k - 1 = c
  BY <1>1
<1>8. a \in Seq(EntryOf(N)) /\ Len(a) = c /\ \A i \in 1..c : a[i] = s[i]
  BY <1>1
<1>9. b \in Seq(EntryOf(N)) /\ Len(b) = Len(s) - c /\ \A i \in 1..Len(s) - c : b[i] = s[i + c]
  <2>1. k \in 1..Len(s) + 1 /\ (Len(s) + 1) - k = Len(s) - c /\ \A i \in Int : (i + k) - 1 = i + c
    BY <1>1
  <2>2. b \in Seq(EntryOf(N)) /\ Len(b) = (Len(s) + 1) - k /\ \A i \in 1..Len(s) - c : b[i] = s[(i + k) - 1]
    BY <1>1
  <2> HIDE DEF b, k
  <2> QED BY <2>1, <2>2
<1> HIDE DEF a, b, q
<1> DEFINE d == a \o <<e>>
<1>10. d \in Seq(EntryOf(N)) /\ Len(d) = c + 1 /\ d[c + 1] = e /\ \A i \in 1..c : d[i] = s[i]
  BY <1>1, <1>6, <1>8
<1> HIDE DEF d
<1>11. q = d \o b
  BY <1>5 DEF d
<1>12. q \in Seq(EntryOf(N)) /\ Len(q) = Len(s) + 1 /\ DOMAIN q = 1..Len(s) + 1
  <2>1. d \o b \in Seq(EntryOf(N)) /\ Len(d \o b) = Len(d) + Len(b)
    <3>1. d \in Seq(EntryOf(N)) /\ b \in Seq(EntryOf(N))
      BY <1>9, <1>10
    <3> QED BY <3>1
  <2>2. Len(q) = Len(s) + 1 /\ q \in Seq(EntryOf(N))
    BY <1>1, <1>9, <1>10, <1>11, <2>1
  <2> QED BY <2>2
<1>13. ASSUME NEW i \in 1..Len(s) + 1
       PROVE  q[i] = IF i < k THEN s[i] ELSE IF i = k THEN e ELSE s[i - 1]
  <2>1. q[i] = IF i <= Len(d) THEN d[i] ELSE b[i - Len(d)]
    <3>1. i \in 1..Len(d) + Len(b)
      BY <1>1, <1>9, <1>10
    <3> QED BY <1>9, <1>10, <1>11, <3>1, ConcatProperties, Zenon
  <2>2. CASE i <= c + 1
    BY <1>1, <1>10, <2>1, <2>2
  <2>3. CASE i > c + 1
    <3>1. i - Len(d) \in 1..Len(s) - c /\ (i - Len(d)) + c = i - 1 /\ ~(i <= Len(d)) /\ i > k
      BY <1>1, <1>10, <2>3
    <3> QED BY <1>9, <2>1, <3>1
  <2> QED BY <1>1, <2>2, <2>3
<1>14. ASSUME NEW i \in DOMAIN s PROVE (i < k => s[i].n <= n) /\ (i >= k => n <= s[i].n)
  <2>1. i \in D <=> s[i].n <= n
    OBVIOUS
  <2>2. i \in D <=> i <= c
    BY <1>1, <1>3
  <2> QED BY <1>1, <2>1, <2>2
<1>15. RemoveAt(q, k) = s
  <2>1. k \in DOMAIN q
    BY <1>7, <1>12
  <2> DEFINE t == RemoveAt(q, k)
  <2>2. /\ t \in Seq(EntryOf(N)) /\ DOMAIN t = 1..Len(q) - 1
        /\ \A i \in 1..Len(q) - 1 : t[i] = IF i < k THEN q[i] ELSE q[i + 1]
    <3> HIDE DEF k
    <3> QED BY <1>12, <2>1, RemovedIndexes
  <2> HIDE DEF t, k
  <2>3. DOMAIN t = DOMAIN s
    BY <1>1, <1>12, <2>2
  <2>4. ASSUME NEW i \in DOMAIN s PROVE t[i] = s[i]
    <3>1. i \in 1..Len(s) + 1 /\ i + 1 \in 1..Len(s) + 1 /\ (i + 1) - 1 = i /\ i \in 1..Len(q) - 1
      BY <1>1, <1>12
    <3>2. CASE i < k
      BY <1>13, <2>2, <3>1, <3>2
    <3>3. CASE ~(i < k)
      <4>1. ~(i + 1 < k) /\ i + 1 # k
        BY <1>1, <1>7, <3>3
      <4>2. q[i + 1] = s[i]
        BY <1>13, <3>1, <4>1
      <4> QED BY <2>2, <3>1, <3>3, <4>2
    <3> QED BY <3>2, <3>3
  <2>5. t = [i \in DOMAIN t |-> t[i]] /\ s = [i \in DOMAIN s |-> s[i]]
    BY <2>2
  <2> QED BY <2>3, <2>4, <2>5 DEF t
<1> HIDE DEF k, D
<1> QED BY <1>7, <1>12, <1>13, <1>14, <1>15 DEF q, e

LEMMA PushSorts ==
  ASSUME NEW N \in SUBSET Nat, NEW s \in Seq(EntryOf(N)), Sorted(s), NEW n \in N
  PROVE  /\ push_top(s, n) \in Seq(EntryOf(N)) /\ Sorted(push_top(s, n))
         /\ \A i \in DOMAIN push_top(s, n) :
              \/ push_top(s, n)[i] = [n |-> n, mark |-> NoMark]
              \/ \E j \in DOMAIN s : push_top(s, n)[i] = s[j]
         /\ \A V : Hits(push_top(s, n), {e \in EntryOf(N) : e.n \in V})
                     = Hits(s, {e \in EntryOf(N) : e.n \in V}) + (IF n \in V THEN 1 ELSE 0)
<1> DEFINE q == push_top(s, n)
           e == [n |-> n, mark |-> NoMark]
<1>1. /\ DOMAIN s = 1..Len(s) /\ Len(s) \in Nat /\ n \in Nat
      /\ \A i \in DOMAIN s : s[i] \in EntryOf(N) /\ s[i].n \in Nat
  BY Entries
<1>2. e \in EntryOf(N) /\ e.n = n
  BY DEF EntryOf
<1> HIDE DEF e
<1>3. PICK k \in 1..Len(s) + 1 :
        /\ q \in Seq(EntryOf(N)) /\ Len(q) = Len(s) + 1
        /\ \A i \in 1..Len(s) + 1 :
             q[i] = IF i < k THEN s[i] ELSE IF i = k THEN e ELSE s[i - 1]
        /\ \A i \in DOMAIN s : i < k => s[i].n <= n
        /\ \A i \in DOMAIN s : i >= k => n <= s[i].n
        /\ RemoveAt(q, k) = s
  BY PushForm DEF e
<1> HIDE DEF q
<1>4. DOMAIN q = 1..Len(s) + 1
  BY <1>1, <1>3
<1>5. ASSUME NEW i \in DOMAIN q
      PROVE  \/ i = k /\ q[i] = e
             \/ i < k /\ i \in DOMAIN s /\ q[i] = s[i]
             \/ i > k /\ i - 1 \in DOMAIN s /\ q[i] = s[i - 1] /\ i - 1 >= k
  BY <1>1, <1>3, <1>4
<1>6. Sorted(q)
  <2> SUFFICES ASSUME NEW i \in DOMAIN q, NEW j \in DOMAIN q, i < j PROVE q[i].n <= q[j].n
    BY DEF Sorted
  <2>1. i \in Nat /\ j \in Nat /\ k \in Nat
    BY <1>1, <1>4
  <2>2. CASE i = k
    <3>1. q[i] = e /\ j - 1 \in DOMAIN s /\ q[j] = s[j - 1] /\ j - 1 >= k
      BY <1>5, <2>1, <2>2
    <3> QED BY <1>2, <1>3, <3>1
  <2>3. CASE i < k
    <3>1. i \in DOMAIN s /\ q[i] = s[i]
      BY <1>5, <2>1, <2>3
    <3>2. CASE j = k
      BY <1>2, <1>3, <1>5, <2>1, <2>3, <3>1, <3>2
    <3>3. CASE j < k
      BY <1>5, <2>1, <3>1, <3>3 DEF Sorted
    <3>4. CASE j > k
      <4>1. j - 1 \in DOMAIN s /\ q[j] = s[j - 1] /\ i < j - 1
        BY <1>5, <2>1, <2>3, <3>4
      <4> QED BY <3>1, <4>1 DEF Sorted
    <3> QED BY <2>1, <3>2, <3>3, <3>4
  <2>4. CASE i > k
    <3>1. i - 1 \in DOMAIN s /\ q[i] = s[i - 1] /\ j - 1 \in DOMAIN s /\ q[j] = s[j - 1] /\ i - 1 < j - 1
      BY <1>5, <2>1, <2>4
    <3> QED BY <3>1 DEF Sorted
  <2> QED BY <2>1, <2>2, <2>3, <2>4
<1>7. \A i \in DOMAIN q : q[i] = e \/ \E j \in DOMAIN s : q[i] = s[j]
  BY <1>5
<1>8. ASSUME NEW V
      PROVE  Hits(q, {d \in EntryOf(N) : d.n \in V})
               = Hits(s, {d \in EntryOf(N) : d.n \in V}) + (IF n \in V THEN 1 ELSE 0)
  <2> DEFINE T == {d \in EntryOf(N) : d.n \in V}
  <2>1. k \in DOMAIN q /\ q[k] = e /\ (e \in T <=> n \in V)
    BY <1>2, <1>3, <1>4
  <2> HIDE DEF T
  <2>2. Hits(s, T) = Hits(q, T) - (IF q[k] \in T THEN 1 ELSE 0)
    BY <1>3, <2>1, RemoveHits
  <2>3. Hits(q, T) \in Nat /\ Hits(s, T) \in Nat
    BY <1>3, HitsType
  <2>4. Hits(q, T) = Hits(s, T) + (IF n \in V THEN 1 ELSE 0)
    BY <2>1, <2>2, <2>3
  <2> QED BY <2>4 DEF T
<1> QED BY <1>3, <1>6, <1>7, <1>8 DEF q, e

LEMMA Prefix ==
  ASSUME NEW L \in Nat, NEW D \in SUBSET (1..L),
         \A i \in 1..L, j \in D : i < j => i \in D
  PROVE  \E c \in 0..L : D = 1..c /\ Cardinality(D) = c
<1>1. CASE D = {}
  <2>1. D = 1..0 /\ 0 \in 0..L
    BY <1>1
  <2> QED BY <1>1, <2>1, FS_EmptySet
<1>2. CASE D # {}
  <2>1. D \in SUBSET (0..L)
    OBVIOUS
  <2>2. PICK c \in D : \A y \in D : y <= c
    BY <1>2, <2>1, Largest
  <2>3. D = 1..c /\ c \in 0..L /\ c \in Nat
    <3>1. c \in 1..L
      BY <2>2
    <3>2. \A i \in 1..c : i \in D
      <4> SUFFICES ASSUME NEW i \in 1..c, i # c PROVE i \in D
        BY <2>2
      <4>1. i \in 1..L /\ i < c
        BY <3>1
      <4> QED BY <2>2, <4>1
    <3>3. \A i \in D : i \in 1..c
      BY <2>2, <3>1
    <3>4. D = 1..c
      BY <3>2, <3>3
    <3>5. c \in 0..L /\ c \in Nat
      BY <3>1
    <3> QED BY <3>4, <3>5
  <2>4. Cardinality(1..c) = c
    BY <2>3, FS_Interval
  <2> QED BY <2>3, <2>4
<1> QED BY <1>1, <1>2

\* The entry that finishes is the first with its position.  The one below it,
\* if there is one, takes over what has been finished.
LEMMA PopForm ==
  ASSUME NEW N \in SUBSET Nat, NEW s \in Seq(EntryOf(N)), Sorted(s), NEW n,
         \E i \in DOMAIN s : s[i].n = n
  PROVE  \E k \in DOMAIN s, w \in Seq(EntryOf(N)) :
           /\ s[k].n = n /\ \A i \in DOMAIN s : i < k => s[i].n < n
           /\ DOMAIN w = DOMAIN s
           /\ \A i \in DOMAIN s :
                w[i].n = s[i].n /\ w[i].mark = IF i = k - 1 THEN Top(s[k]) ELSE s[i].mark
           /\ pop_top(s, n).stack = RemoveAt(w, k)
           /\ pop_top(s, n).out = IF k = 1 THEN Top(s[k]) ELSE NoMark
<1> DEFINE D == {i \in 1..Len(s) - 1 : s[i].n < n}
           j == Cardinality(D)
           Or(m) == IF s[j + 1].mark # NoMark THEN s[j + 1].mark ELSE m
<1>1. /\ DOMAIN s = 1..Len(s) /\ Len(s) \in Nat
      /\ \A i \in DOMAIN s : /\ s[i] \in EntryOf(N) /\ s[i].n \in N /\ s[i].n \in Nat
                             /\ s[i].mark \in N \cup {NoMark} /\ Top(s[i]) \in N
  BY Entries
<1>2. PICK z \in DOMAIN s : s[z].n = n
  OBVIOUS
<1> DEFINE L == Len(s) - 1
<1>3. PICK c \in 0..L : D = 1..c /\ j = c
  <2>1. L \in Nat /\ D \in SUBSET (1..L)
    BY <1>1, <1>2
  <2>2. ASSUME NEW i \in 1..L, NEW l \in D, i < l PROVE i \in D
    <3>1. i \in DOMAIN s /\ l \in DOMAIN s /\ s[l].n < n
      BY <1>1, <2>2
    <3>2. s[i].n <= s[l].n /\ s[i].n \in Nat /\ s[l].n \in Nat /\ n \in Nat
      BY <1>1, <1>2, <2>2, <3>1 DEF Sorted
    <3> QED BY <3>1, <3>2
  <2> HIDE DEF D, L
  <2> QED BY <2>1, <2>2, Prefix
<1> DEFINE k == c + 1
<1>4. k \in DOMAIN s /\ D = 1..k - 1 /\ k \in Nat
  <2>1. c \in Nat /\ c <= Len(s) - 1 /\ k - 1 = c
    BY <1>1, <1>2
  <2> HIDE DEF D, j
  <2> QED BY <1>1, <1>3, <2>1
<1>5. \A i \in DOMAIN s : i < k => s[i].n < n
  <2> SUFFICES ASSUME NEW i \in DOMAIN s, i < k PROVE s[i].n < n
    OBVIOUS
  <2>1. i \in 1..k - 1
    BY <1>1, <1>4
  <2>2. i \in D
    BY <1>4, <2>1
  <2> QED BY <2>2
<1>6. s[k].n = n
  <2>1. z >= k
    <3>1. ~(s[z].n < n)
      BY <1>1, <1>2
    <3> HIDE DEF k
    <3> QED BY <1>1, <1>2, <1>4, <1>5, <3>1
  <2>2. s[k].n <= n
    BY <1>1, <1>2, <1>4, <2>1 DEF Sorted
  <2>3. CASE k = Len(s)
    <3>1. z = k
      BY <1>1, <2>1, <2>3
    <3> QED BY <1>2, <3>1
  <2>4. CASE k # Len(s)
    <3>1. k \in 1..Len(s) - 1 /\ k \notin 1..k - 1
      <4> HIDE DEF k
      <4> QED BY <1>1, <1>4, <2>4
    <3>2. k \notin D
      <4> HIDE DEF k, D
      <4> QED BY <1>4, <3>1
    <3>3. ~(s[k].n < n)
      <4> HIDE DEF k
      <4> QED BY <3>1, <3>2
    <3> HIDE DEF k
    <3> QED BY <1>1, <1>2, <1>4, <2>2, <3>3
  <2> QED BY <2>3, <2>4
<1>7. s # <<>>
  BY <1>1, <1>2
<1>8. pop_top(s, n) =
        IF j = 0 THEN [stack |-> Tail(s), out |-> Or(s[j + 1].n)]
        ELSE [stack |-> RemoveAt([s EXCEPT ![j].mark = Or(n)], j + 1), out |-> NoMark]
  BY <1>7 DEF pop_top
<1>9. Or(s[j + 1].n) = Top(s[k]) /\ Or(n) = Top(s[k]) /\ j + 1 = k /\ j = k - 1
  <2>1. j + 1 = k /\ j = k - 1
    <3>1. c \in Int
      BY <1>1, <1>3
    <3> HIDE DEF j, D, L
    <3> QED BY <1>3, <3>1
  <2>2. s[j + 1] = s[k]
    BY <2>1
  <2> HIDE DEF j, k
  <2> QED BY <1>6, <2>1, <2>2 DEF Top
<1> HIDE DEF j, Or, k, D, L
<1>10. CASE k = 1
  <2>1. pop_top(s, n) = [stack |-> Tail(s), out |-> Top(s[k])]
    BY <1>8, <1>9, <1>10
  <2>2. RemoveAt(s, k) = Tail(s)
    BY <1>7, <1>10, RemoveFirstIsTail
  <2>3. \A i \in DOMAIN s : i # k - 1
    BY <1>1, <1>10
  <2> QED BY <1>4, <1>5, <1>6, <1>10, <2>1, <2>2, <2>3
<1>11. CASE k # 1
  <2> DEFINE w == [s EXCEPT ![k - 1].mark = Top(s[k])]
  <2>1. k - 1 \in DOMAIN s /\ k - 1 # 0
    BY <1>1, <1>4, <1>11
  <2>2. pop_top(s, n) = [stack |-> RemoveAt(w, k), out |-> NoMark]
    BY <1>8, <1>9, <2>1
  <2>3. [s[k - 1] EXCEPT !.mark = Top(s[k])] \in EntryOf(N)
    BY <1>1, <1>4, <2>1 DEF EntryOf
  <2>4. w \in Seq(EntryOf(N)) /\ DOMAIN w = DOMAIN s
    BY <2>1, <2>3
  <2>5. ASSUME NEW i \in DOMAIN s
        PROVE  w[i].n = s[i].n /\ w[i].mark = IF i = k - 1 THEN Top(s[k]) ELSE s[i].mark
    BY <1>1, <1>4, <2>1, <2>5 DEF EntryOf
  <2> HIDE DEF w
  <2> QED BY <1>4, <1>5, <1>6, <1>11, <2>2, <2>4, <2>5
<1> QED BY <1>10, <1>11

\* The stack that is left, entry by entry: the others are as they were, and the
\* one below the entry that left has its mark, or its position as a mark.
Popped(N, s, n, q, out) ==
  /\ q \in Seq(EntryOf(N)) /\ Sorted(q) /\ out \in N \cup {NoMark}
  /\ \A V : Hits(q, {e \in EntryOf(N) : e.n \in V})
              = Hits(s, {e \in EntryOf(N) : e.n \in V}) - (IF n \in V THEN 1 ELSE 0)
  /\ \E k \in DOMAIN s :
       /\ s[k].n = n
       /\ out # NoMark => out = Top(s[k]) /\ \A i \in DOMAIN s : n <= s[i].n
       /\ \A i \in DOMAIN q :
            \/ \E l \in DOMAIN s : q[i] = s[l]
            \/ /\ \E l \in DOMAIN s : q[i].n = s[l].n
               /\ q[i].mark = Top(s[k]) /\ q[i].n < n
               /\ \A l \in DOMAIN s : s[l].n <= q[i].n \/ n <= s[l].n

LEMMA PopTop ==
  ASSUME NEW N \in SUBSET Nat, NEW s \in Seq(EntryOf(N)), Sorted(s), NEW n,
         \E i \in DOMAIN s : s[i].n = n,
         NEW q, q = pop_top(s, n).stack, NEW out, out = pop_top(s, n).out
  PROVE  Popped(N, s, n, q, out)
<1>1. PICK k \in DOMAIN s, w \in Seq(EntryOf(N)) :
           /\ s[k].n = n /\ \A i \in DOMAIN s : i < k => s[i].n < n
           /\ DOMAIN w = DOMAIN s
           /\ \A i \in DOMAIN s :
                w[i].n = s[i].n /\ w[i].mark = IF i = k - 1 THEN Top(s[k]) ELSE s[i].mark
           /\ q = RemoveAt(w, k)
           /\ out = IF k = 1 THEN Top(s[k]) ELSE NoMark
  BY PopForm
<1>2. /\ DOMAIN s = 1..Len(s) /\ Len(s) \in Nat
      /\ \A i \in DOMAIN s : /\ s[i] \in EntryOf(N) /\ s[i].n \in N /\ s[i].n \in Nat
                             /\ s[i].mark \in N \cup {NoMark} /\ Top(s[i]) \in N
  BY Entries
<1>3. /\ q \in Seq(EntryOf(N)) /\ DOMAIN q = 1..Len(s) - 1
      /\ \A i \in 1..Len(s) - 1 : q[i] = IF i < k THEN w[i] ELSE w[i + 1]
  <2>1. k \in DOMAIN w /\ Len(w) = Len(s) /\ q = RemoveAt(w, k)
    BY <1>1, <1>2
  <2> DEFINE E == EntryOf(N)
  <2> HIDE DEF E
  <2>2. /\ RemoveAt(w, k) \in Seq(E) /\ DOMAIN RemoveAt(w, k) = 1..Len(w) - 1
        /\ \A i \in 1..Len(w) - 1 : RemoveAt(w, k)[i] = IF i < k THEN w[i] ELSE w[i + 1]
    <3>1. w \in Seq(E)
      BY DEF E
    <3> QED BY <2>1, <3>1, RemovedIndexes
  <2> QED BY <2>1, <2>2 DEF E
<1>4. \A i, l \in DOMAIN s : i <= l => s[i].n <= s[l].n
  BY <1>2 DEF Sorted
<1>5. ASSUME NEW i \in DOMAIN s, i # k - 1 PROVE w[i] = s[i]
  <2>1. w[i] \in EntryOf(N) /\ s[i] \in EntryOf(N) /\ w[i].n = s[i].n /\ w[i].mark = s[i].mark
    BY <1>1, <1>2, <1>5
  <2> QED BY <2>1 DEF EntryOf
<1> DEFINE from(i) == IF i < k THEN i ELSE i + 1
<1>6. ASSUME NEW i \in DOMAIN q
      PROVE  from(i) \in DOMAIN s /\ from(i) # k /\ q[i] = w[from(i)] /\ q[i].n = s[from(i)].n
  BY <1>1, <1>2, <1>3
<1>7. Sorted(q)
  <2> SUFFICES ASSUME NEW i \in DOMAIN q, NEW j \in DOMAIN q, i < j PROVE q[i].n <= q[j].n
    BY DEF Sorted
  <2>1. from(i) <= from(j)
    BY <1>2, <1>3
  <2> QED BY <1>4, <1>6, <2>1
<1>8. ASSUME NEW V
      PROVE  Hits(q, {e \in EntryOf(N) : e.n \in V})
               = Hits(s, {e \in EntryOf(N) : e.n \in V}) - (IF n \in V THEN 1 ELSE 0)
  <2> DEFINE T == {e \in EntryOf(N) : e.n \in V}
  <2>1. k \in DOMAIN w /\ (w[k] \in T <=> n \in V)
    BY <1>1, <1>2
  <2>2. {i \in DOMAIN w : w[i] \in T} = {i \in DOMAIN s : s[i] \in T}
    BY <1>1, <1>2
  <2> HIDE DEF T
  <2>3. Hits(q, T) = Hits(w, T) - (IF w[k] \in T THEN 1 ELSE 0)
    BY <1>1, <2>1, RemoveHits
  <2>4. Hits(w, T) = Hits(s, T)
    BY <2>2 DEF Hits
  <2>5. Hits(q, T) = Hits(s, T) - (IF n \in V THEN 1 ELSE 0)
    BY <2>1, <2>3, <2>4
  <2> QED BY <2>5 DEF T
<1>9. out # NoMark => out = Top(s[k]) /\ \A i \in DOMAIN s : n <= s[i].n
  <2>1. k = 1 => \A i \in DOMAIN s : k <= i
    BY <1>2
  <2> QED BY <1>1, <1>4, <2>1
<1>10. ASSUME NEW i \in DOMAIN q
       PROVE  \/ \E l \in DOMAIN s : q[i] = s[l]
              \/ /\ \E l \in DOMAIN s : q[i].n = s[l].n
                 /\ q[i].mark = Top(s[k]) /\ q[i].n < n
                 /\ \A l \in DOMAIN s : s[l].n <= q[i].n \/ n <= s[l].n
  <2>1. CASE from(i) # k - 1
    <3>1. q[i] = s[from(i)]
      BY <1>5, <1>6, <2>1
    <3> QED BY <1>6, <3>1
  <2>2. CASE from(i) = k - 1
    <3>1. k - 1 \in DOMAIN s /\ q[i] = w[k - 1] /\ q[i].n = s[k - 1].n /\ q[i].mark = Top(s[k])
      BY <1>1, <1>6, <2>2
    <3>2. k - 1 < k /\ \A l \in DOMAIN s : l <= k - 1 \/ k <= l
      BY <1>2
    <3> HIDE DEF from
    <3> QED BY <1>1, <1>4, <3>1, <3>2
  <2> QED BY <2>1, <2>2
<1>11. out \in N \cup {NoMark}
  BY <1>1, <1>2
<1> HIDE DEF from
<1> QED BY <1>1, <1>3, <1>7, <1>8, <1>9, <1>10, <1>11 DEF Popped

(***************************************************************************)
(* Out(i): what level i and the levels above it make known.                *)
(***************************************************************************)
LEMMA DownInduction ==
  ASSUME NEW i \in Nat, NEW S, i \in S, \A j \in 1..i - 1 : j + 1 \in S => j \in S
  PROVE  1..i \subseteq S
<1> DEFINE T == {k \in Nat : k < i => i - k \in S}
<1>1. 0 \in T
  OBVIOUS
<1>2. ASSUME NEW k \in Nat, k \in T PROVE k + 1 \in T
  <2> SUFFICES ASSUME k + 1 < i PROVE i - (k + 1) \in S
    OBVIOUS
  <2>1. i - k \in S
    BY <1>2
  <2>2. i - (k + 1) \in 1..i - 1 /\ (i - (k + 1)) + 1 = i - k
    OBVIOUS
  <2> QED BY <2>1, <2>2
<1>3. Nat \subseteq T
  <2> HIDE DEF T
  <2> QED BY <1>1, <1>2, SetInduction
<1> SUFFICES ASSUME NEW j \in 1..i PROVE j \in S
  OBVIOUS
<1>4. i - j \in Nat /\ i - j < i /\ i - (i - j) = j
  OBVIOUS
<1>5. i - j \in T
  BY <1>3, <1>4
<1> QED BY <1>4, <1>5

Seen(i) == IF i = Bottom THEN watch[Chain[i]] ELSE Resolved(status[i], TRUE, watch[Chain[i]])

Outs(f, i, n) ==
  \A j \in n..i : f[j] = IF j = i THEN Seen(i) ELSE Resolved(status[j], FALSE, f[j + 1])

LEMMA OutExists ==
  ASSUME NEW i \in Nat \ {0}
  PROVE  \E f : DOMAIN f = 1..i /\ f = [j \in 1..i |-> f[j]] /\ Outs(f, i, 1)
<1> DEFINE P(n) == \E f : DOMAIN f = n..i /\ f = [j \in n..i |-> f[j]] /\ Outs(f, i, n)
           S == {n \in Int : P(n)}
<1>1. i \in S
  <2> DEFINE f == [j \in i..i |-> Seen(i)]
  <2>1. DOMAIN f = i..i /\ f = [j \in i..i |-> f[j]] /\ Outs(f, i, i)
    BY DEF Outs
  <2> HIDE DEF f
  <2> QED BY <2>1
<1>2. ASSUME NEW n \in 1..i - 1, n + 1 \in S PROVE n \in S
  <2>1. PICK f : DOMAIN f = n + 1..i /\ Outs(f, i, n + 1)
    BY <1>2
  <2> DEFINE next == Resolved(status[n], FALSE, f[n + 1])
             g == [j \in n..i |-> IF j = n THEN next ELSE f[j]]
  <2>2. DOMAIN g = n..i /\ g = [j \in n..i |-> g[j]]
    OBVIOUS
  <2> HIDE DEF next
  <2>3. \A j \in n + 1..i : g[j] = f[j] /\ j \in n..i
    OBVIOUS
  <2>4. g[n] = next
    OBVIOUS
  <2> HIDE DEF g
  <2>5. ASSUME NEW j \in n..i
        PROVE  g[j] = IF j = i THEN Seen(i) ELSE Resolved(status[j], FALSE, g[j + 1])
    <3>1. CASE j = n
      <4>1. j # i /\ n + 1 \in n + 1..i
        BY <3>1
      <4> QED BY <2>3, <2>4, <3>1, <4>1 DEF next
    <3>2. CASE j # n
      <4>1. j \in n + 1..i /\ (j # i => j + 1 \in n + 1..i)
        BY <3>2
      <4> QED BY <2>1, <2>3, <4>1 DEF Outs
    <3> QED BY <3>1, <3>2
  <2>6. Outs(g, i, n)
    BY <2>5 DEF Outs
  <2> QED BY <2>2, <2>6
<1>3. 1..i \subseteq S
  <2> HIDE DEF S
  <2> QED BY <1>1, <1>2, DownInduction
<1>4. 1 \in S
  BY <1>3
<1> QED BY <1>4

LEMMA OutForm ==
  ASSUME NEW i \in Levels
  PROVE  /\ Out(i)[i] = Seen(i)
         /\ \A j \in 1..i - 1 : Out(i)[j] = Resolved(status[j], FALSE, Out(i)[j + 1])
<1> DEFINE Solves(f) == f = [j \in 1..i |->
                          IF j = i THEN IF i = Bottom THEN watch[Chain[i]]
                                        ELSE Resolved(status[i], TRUE, watch[Chain[i]])
                          ELSE Resolved(status[j], FALSE, f[j + 1])]
           s == CHOOSE f : Solves(f)
<1>1. i \in Nat \ {0}
  BY ChainFacts
<1>2. PICK r : DOMAIN r = 1..i /\ r = [j \in 1..i |-> r[j]] /\ Outs(r, i, 1)
  BY <1>1, OutExists
<1>3. Solves(r)
  BY <1>2 DEF Outs, Seen
<1>4. Solves(s)
  <2> HIDE DEF Solves
  <2> QED BY <1>3
<1>5. Out(i) = s
  BY DEF Out
<1> HIDE DEF s
<1>6. Outs(s, i, 1)
  BY <1>4 DEF Outs, Seen
<1>7. i \in 1..i /\ \A j \in 1..i - 1 : j \in 1..i /\ j # i
  BY <1>1
<1> QED BY <1>5, <1>6, <1>7 DEF Outs

(***************************************************************************)
(* Flags and marks.                                                        *)
(***************************************************************************)
LEMMA FlagType ==
  ASSUME NEW f \in Flags
  PROVE  /\ DOMAIN f \subseteq Tags
         /\ \A p \in DOMAIN f : p \in Tags /\ f[p] \in Nat /\ f[p] \in Offsets(p)
BY DEF Flags

LEMMA MarkType ==
  ASSUME NEW f \in Marks
  PROVE  /\ DOMAIN f \subseteq Tags
         /\ \A p \in DOMAIN f : /\ p \in Tags /\ f[p] \in Mark /\ f[p].left \in BOOLEAN
                                /\ f[p].val \in Nat /\ f[p].val \in Offsets(p)
BY DEF Marks, Mark

LEMMA NoFlagType == NoFlag \in Flags /\ NoFlag \in Marks /\ DOMAIN NoFlag = {}
<1>1. NoFlag \in [{} -> Nat] /\ NoFlag \in [{} -> Mark] /\ DOMAIN NoFlag = {}
  BY DEF NoFlag
<1>2. {} \in SUBSET Tags
  OBVIOUS
<1>3. NoFlag \in Flags
  BY <1>1, <1>2 DEF Flags
<1>4. NoFlag \in Marks
  BY <1>1, <1>2 DEF Marks
<1> QED BY <1>1, <1>3, <1>4

LEMMA ResolvedType ==
  ASSUME NEW st \in Marks, NEW left \in BOOLEAN, NEW f \in Flags
  PROVE  /\ Resolved(st, left, f) \in Flags
         /\ \A p \in DOMAIN Resolved(st, left, f) :
              /\ p \in DOMAIN st /\ p \in DOMAIN f /\ st[p].left # left
              /\ Resolved(st, left, f)[p] \in Nat /\ f[p] \in Nat /\ st[p].val \in Nat
              /\ Resolved(st, left, f)[p] <= f[p] /\ Resolved(st, left, f)[p] <= st[p].val
<1> DEFINE g == Resolved(st, left, f)
           D == {q \in DOMAIN f \cap DOMAIN st : st[q].left # left}
<1>1. DOMAIN g = D /\ g = [p \in D |-> resolve(st[p], f[p])] /\ D \subseteq Tags
  BY FlagType DEF Resolved
<1>2. ASSUME NEW p \in D
      PROVE  g[p] \in Nat /\ g[p] \in Offsets(p) /\ g[p] <= f[p] /\ g[p] <= st[p].val
  <2>1. g[p] = resolve(st[p], f[p])
    BY <1>1
  <2>2. f[p] \in Nat /\ f[p] \in Offsets(p) /\ st[p].val \in Nat /\ st[p].val \in Offsets(p)
    BY FlagType, MarkType
  <2> HIDE DEF g
  <2> QED BY <2>1, <2>2 DEF resolve
<1>3. g \in [D -> Nat]
  <2> HIDE DEF D
  <2>1. \A p \in D : resolve(st[p], f[p]) \in Nat
    BY <1>1, <1>2
  <2> QED BY <1>1, <2>1
<1>4. g \in Flags
  <2> HIDE DEF g, D
  <2> QED BY <1>1, <1>2, <1>3 DEF Flags
<1> QED BY <1>1, <1>2, <1>4, FlagType, MarkType

LEMMA MergeType ==
  ASSUME NEW st \in Marks, NEW left \in BOOLEAN, NEW f \in Flags
  PROVE  /\ merge(st, left, f) \in Marks
         /\ \A p \in DOMAIN merge(st, left, f) :
              \/ p \in DOMAIN st /\ merge(st, left, f)[p] = st[p]
              \/ p \in DOMAIN f /\ merge(st, left, f)[p] = Item(left, f[p])
<1> DEFINE g == merge(st, left, f)
           D == DOMAIN st \cup DOMAIN f
<1>1. DOMAIN g = D /\ D \subseteq Tags
  <2>1. DOMAIN st \subseteq Tags /\ DOMAIN f \subseteq Tags
    BY FlagType, MarkType
  <2> QED BY <2>1 DEF merge
<1>2. ASSUME NEW p \in D
      PROVE  (p \in DOMAIN st /\ g[p] = st[p]) \/ (p \in DOMAIN f /\ g[p] = Item(left, f[p]))
  <2>1. g[p] = IF p \notin DOMAIN f THEN st[p]
               ELSE IF p \notin DOMAIN st THEN Item(left, f[p])
               ELSE item_merge(st[p], left, f[p])
    BY DEF merge
  <2> HIDE DEF g
  <2> QED BY <2>1 DEF item_merge
<1>3. ASSUME NEW p \in D PROVE g[p] \in Mark /\ g[p].val \in Offsets(p)
  <2>1. CASE p \in DOMAIN st /\ g[p] = st[p]
    <3> HIDE DEF g
    <3> QED BY <2>1, MarkType
  <2>2. CASE p \in DOMAIN f /\ g[p] = Item(left, f[p])
    <3> HIDE DEF g
    <3>1. f[p] \in Nat /\ f[p] \in Offsets(p)
      BY <2>2, FlagType
    <3> QED BY <2>2, <3>1 DEF Item, Mark
  <2> QED BY <1>2, <2>1, <2>2
<1>4. g = [p \in D |-> g[p]]
  BY DEF merge
<1>5. g \in Marks
  <2> HIDE DEF g, D
  <2>1. g \in [D -> Mark]
    BY <1>3, <1>4
  <2> QED BY <1>1, <1>3, <2>1 DEF Marks
<1> QED BY <1>1, <1>2, <1>5

(***************************************************************************)
(* Joining sequences, and splitting one after its first n elements.        *)
(***************************************************************************)
LEMMA Joined ==
  ASSUME NEW S, NEW a \in Seq(S), NEW b \in Seq(S)
  PROVE  /\ a \o b \in Seq(S) /\ ToSet(a \o b) = ToSet(a) \cup ToSet(b)
         /\ Len(a \o b) = Len(a) + Len(b) /\ Len(a) \in Nat /\ Len(b) \in Nat
         /\ DOMAIN a = 1..Len(a) /\ DOMAIN b = 1..Len(b) /\ DOMAIN (a \o b) = 1..Len(a) + Len(b)
         /\ \A i \in 1..Len(a) + Len(b) :
              (a \o b)[i] = IF i <= Len(a) THEN a[i] ELSE b[i - Len(a)]
<1> DEFINE c == a \o b
<1>1. /\ c \in Seq(S) /\ Len(c) = Len(a) + Len(b)
      /\ \A i \in 1..Len(a) + Len(b) : c[i] = IF i <= Len(a) THEN a[i] ELSE b[i - Len(a)]
  BY ConcatProperties
<1>2. /\ Len(a) \in Nat /\ Len(b) \in Nat /\ DOMAIN a = 1..Len(a) /\ DOMAIN b = 1..Len(b)
  OBVIOUS
<1> HIDE DEF c
<1>3. DOMAIN c = 1..Len(a) + Len(b)
  BY <1>1
<1>4. ASSUME NEW x \in ToSet(c) PROVE x \in ToSet(a) \cup ToSet(b)
  <2>1. PICK i \in 1..Len(a) + Len(b) : x = c[i]
    BY <1>3 DEF ToSet
  <2>2. CASE i <= Len(a)
    <3>1. i \in 1..Len(a) /\ x = a[i]
      BY <1>1, <1>2, <2>1, <2>2
    <3> QED BY <1>2, <3>1 DEF ToSet
  <2>3. CASE ~(i <= Len(a))
    <3>1. i - Len(a) \in 1..Len(b) /\ x = b[i - Len(a)]
      BY <1>1, <1>2, <2>1, <2>3
    <3> QED BY <1>2, <3>1 DEF ToSet
  <2> QED BY <2>2, <2>3
<1>5. ASSUME NEW x \in ToSet(a) PROVE x \in ToSet(c)
  <2>1. PICK i \in 1..Len(a) : x = a[i]
    BY <1>2 DEF ToSet
  <2>2. i \in 1..Len(a) + Len(b) /\ i <= Len(a)
    BY <1>2
  <2> QED BY <1>1, <1>3, <2>1, <2>2 DEF ToSet
<1>6. ASSUME NEW x \in ToSet(b) PROVE x \in ToSet(c)
  <2>1. PICK i \in 1..Len(b) : x = b[i]
    BY <1>2 DEF ToSet
  <2>2. i + Len(a) \in 1..Len(a) + Len(b) /\ ~(i + Len(a) <= Len(a)) /\ (i + Len(a)) - Len(a) = i
    BY <1>2
  <2> QED BY <1>1, <1>3, <2>1, <2>2 DEF ToSet
<1>7. ToSet(c) = ToSet(a) \cup ToSet(b)
  BY <1>4, <1>5, <1>6
<1> QED BY <1>1, <1>2, <1>3, <1>7 DEF c

LEMMA Split ==
  ASSUME NEW S, NEW q \in Seq(S), NEW n \in Nat \ {0}, n <= Len(q)
  PROVE  /\ SubSeq(q, 1, n) \in Seq(S) /\ DOMAIN SubSeq(q, 1, n) = 1..n
         /\ \A i \in 1..n : SubSeq(q, 1, n)[i] = q[i]
         /\ Rest(q, n) \in Seq(S) /\ DOMAIN Rest(q, n) = 1..Len(q) - n
         /\ \A i \in 1..Len(q) - n : Rest(q, n)[i] = q[i + n]
         /\ DOMAIN q = 1..Len(q) /\ Len(q) \in Nat /\ SubSeq(q, 1, n) # <<>>
         /\ ToSet(q) = ToSet(SubSeq(q, 1, n)) \cup ToSet(Rest(q, n))
<1> DEFINE a == SubSeq(q, 1, n)
           b == Rest(q, n)
<1>1. DOMAIN q = 1..Len(q) /\ Len(q) \in Nat
  OBVIOUS
<1>2. a \in Seq(S) /\ Len(a) = n /\ \A i \in 1..n : a[i] = q[i]
  BY <1>1
<1>3. b \in Seq(S) /\ Len(b) = Len(q) - n /\ \A i \in 1..Len(q) - n : b[i] = q[i + n]
  <2> DEFINE m == n + 1
  <2>1. m \in 1..Len(q) + 1 /\ (Len(q) + 1) - m = Len(q) - n /\ \A i \in Int : (i + m) - 1 = i + n
    BY <1>1
  <2>2. b = SubSeq(q, m, Len(q))
    BY DEF Rest
  <2> HIDE DEF b, m
  <2>3. b \in Seq(S) /\ Len(b) = (Len(q) + 1) - m /\ \A i \in 1..Len(q) - n : b[i] = q[(i + m) - 1]
    BY <1>1, <2>1, <2>2
  <2> QED BY <2>1, <2>3
<1> HIDE DEF a, b
<1>4. DOMAIN a = 1..n /\ DOMAIN b = 1..Len(q) - n /\ a # <<>>
  BY <1>1, <1>2, <1>3
<1>5. ASSUME NEW x \in ToSet(q) PROVE x \in ToSet(a) \cup ToSet(b)
  <2>1. PICK i \in 1..Len(q) : x = q[i]
    BY <1>1 DEF ToSet
  <2>2. CASE i <= n
    <3>1. i \in 1..n
      BY <2>2
    <3> QED BY <1>2, <1>4, <2>1, <3>1 DEF ToSet
  <2>3. CASE i > n
    <3>1. i - n \in 1..Len(q) - n /\ (i - n) + n = i
      BY <1>1, <2>3
    <3> QED BY <1>3, <1>4, <2>1, <3>1 DEF ToSet
  <2> QED BY <1>1, <2>2, <2>3
<1>6. ASSUME NEW x \in ToSet(a) PROVE x \in ToSet(q)
  <2>1. PICK i \in 1..n : x = q[i]
    BY <1>2, <1>4 DEF ToSet
  <2>2. i \in 1..Len(q)
    BY <1>1
  <2> QED BY <1>1, <2>1, <2>2 DEF ToSet
<1>7. ASSUME NEW x \in ToSet(b) PROVE x \in ToSet(q)
  <2>1. PICK i \in 1..Len(q) - n : x = q[i + n]
    BY <1>3, <1>4 DEF ToSet
  <2>2. i + n \in 1..Len(q)
    BY <1>1
  <2> QED BY <1>1, <2>1, <2>2 DEF ToSet
<1>8. ToSet(q) = ToSet(a) \cup ToSet(b)
  BY <1>5, <1>6, <1>7
<1> QED BY <1>1, <1>2, <1>3, <1>4, <1>8 DEF a, b

LEMMA SetOfEmpty == ToSet(<<>>) = {}
BY DEF ToSet

(***************************************************************************)
(* What the types say of the sequences.                                    *)
(***************************************************************************)
Shapes ==
  \A w \in Writers :
    /\ queue[w] \in Seq(Rows) /\ DOMAIN queue[w] = 1..Len(queue[w]) /\ Len(queue[w]) \in Nat
    /\ open[w] \in Seq(Seq(Rows)) /\ DOMAIN open[w] = 1..Len(open[w]) /\ Len(open[w]) \in Nat
    /\ \A i \in DOMAIN queue[w] : queue[w][i] \in InQueue(w) /\ queue[w][i] \in Held(w)
    /\ \A k \in DOMAIN open[w] : /\ open[w][k] \in Seq(Rows) /\ InTask(w, k) \subseteq InOpen(w)
                                 /\ InTask(w, k) \subseteq Held(w)
    /\ InQueue(w) \subseteq Held(w) /\ InOpen(w) \subseteq Held(w)
    /\ Held(w) \subseteq Rows /\ \A r \in Held(w) : To(r) = w

LEMMA TypesShape == Types => Shapes
<1> SUFFICES ASSUME Types, NEW w \in Writers
    PROVE  /\ queue[w] \in Seq(Rows) /\ DOMAIN queue[w] = 1..Len(queue[w]) /\ Len(queue[w]) \in Nat
           /\ open[w] \in Seq(Seq(Rows)) /\ DOMAIN open[w] = 1..Len(open[w]) /\ Len(open[w]) \in Nat
           /\ \A i \in DOMAIN queue[w] : queue[w][i] \in InQueue(w) /\ queue[w][i] \in Held(w)
           /\ \A k \in DOMAIN open[w] : /\ open[w][k] \in Seq(Rows) /\ InTask(w, k) \subseteq InOpen(w)
                                        /\ InTask(w, k) \subseteq Held(w)
           /\ InQueue(w) \subseteq Held(w) /\ InOpen(w) \subseteq Held(w)
           /\ Held(w) \subseteq Rows /\ \A r \in Held(w) : To(r) = w
  BY DEF Shapes
<1>1. queue[w] \in Seq(Rows) /\ open[w] \in Seq(Seq(Rows)) /\ \A r \in Held(w) : To(r) = w
  BY DEF Types
<1>2. DOMAIN queue[w] = 1..Len(queue[w]) /\ Len(queue[w]) \in Nat
      /\ \A i \in DOMAIN queue[w] : queue[w][i] \in Rows
  BY <1>1
<1>3. DOMAIN open[w] = 1..Len(open[w]) /\ Len(open[w]) \in Nat
      /\ \A k \in DOMAIN open[w] : open[w][k] \in Seq(Rows)
  BY <1>1
<1>4. \A i \in DOMAIN queue[w] : queue[w][i] \in InQueue(w)
  BY DEF InQueue, ToSet
<1>5. \A k \in DOMAIN open[w] : InTask(w, k) \subseteq InOpen(w) /\ InTask(w, k) \subseteq Rows
  <2>1. \A k \in DOMAIN open[w] : InTask(w, k) \subseteq InOpen(w)
    BY DEF InOpen
  <2>2. \A x \in Seq(Rows) : ToSet(x) \subseteq Rows
    BY DEF ToSet
  <2> QED BY <1>3, <2>1, <2>2 DEF InTask
<1>6. InQueue(w) \subseteq Rows
  BY <1>1 DEF InQueue, ToSet
<1>7. InOpen(w) \subseteq Rows
  BY <1>5 DEF InOpen
<1>8. Held(w) = InQueue(w) \cup InOpen(w)
  BY DEF Held
<1> QED BY <1>1, <1>2, <1>3, <1>4, <1>5, <1>6, <1>7, <1>8

(***************************************************************************)
(* What each action does to the rows that are held.                        *)
(***************************************************************************)
NewRows(w, m) == IF m \in Good THEN RowsFor(w, m) ELSE <<>>

LEMMA NewRowsFacts ==
  ASSUME NEW w \in Writers, NEW m
  PROVE  /\ NewRows(w, m) \in Seq(Rows)
         /\ \A j \in DOMAIN NewRows(w, m) : NewRows(w, m)[j].msg = m /\ To(NewRows(w, m)[j]) = w
         /\ \A j, l \in DOMAIN NewRows(w, m) :
              j < l => NewRows(w, m)[j].level < NewRows(w, m)[l].level
         /\ \A r \in ToSet(NewRows(w, m)) : r \in Rows /\ r.msg = m /\ To(r) = w
         /\ \A r \in Rows : r.msg = m /\ To(r) = w => r \in ToSet(NewRows(w, m))
<1>1. CASE m \in Good
  <2> DEFINE s == RowsFor(w, m)
  <2>1. /\ s \in Seq(Rows) /\ \A j \in DOMAIN s : s[j].msg = m /\ To(s[j]) = w
        /\ \A j, l \in DOMAIN s : j < l => s[j].level < s[l].level
        /\ \A i \in Levels : Chain[i] = w => Row(m, i) \in ToSet(s)
    BY <1>1, RowsForFacts
  <2>2. NewRows(w, m) = s
    BY <1>1 DEF NewRows
  <2> HIDE DEF s
  <2>3. \A r \in ToSet(s) : r \in Rows /\ r.msg = m /\ To(r) = w
    BY <2>1 DEF ToSet
  <2>4. \A r \in Rows : r.msg = m /\ To(r) = w => r \in ToSet(s)
    BY <2>1, RowFacts DEF To
  <2> QED BY <2>1, <2>2, <2>3, <2>4
<1>2. CASE m \notin Good
  <2>1. NewRows(w, m) = <<>>
    BY <1>2 DEF NewRows
  <2>2. <<>> \in Seq(Rows) /\ DOMAIN <<>> = {} /\ ToSet(<<>>) = {}
    BY SetOfEmpty
  <2>3. \A r \in Rows : r.msg # m
    BY <1>2, RowFacts
  <2> QED BY <2>1, <2>2, <2>3
<1> QED BY <1>1, <1>2

LEMMA MessageEffect ==
  ASSUME Types, NEW p \in Tags, OnMessage(p), NEW m, m = <<p, position[p]>>
  PROVE  /\ queue' \in [Writers -> Seq(Rows)]
         /\ open' = open /\ stored' = stored /\ exposed' = exposed /\ tracing' = tracing
         /\ position' = [position EXCEPT ![p] = position[p] + 1]
         /\ position[p] \in Nat /\ position[p] + 1 <= Len(Log[p])
         /\ \A w \in Writers :
              /\ queue'[w] = queue[w] \o NewRows(w, m)
              /\ InQueue(w)' = InQueue(w) \cup ToSet(NewRows(w, m))
              /\ InOpen(w)' = InOpen(w)
              /\ Held(w)' = Held(w) \cup ToSet(NewRows(w, m))
<1>1. queue \in [Writers -> Seq(Rows)] /\ position \in [Tags -> Nat]
  BY DEF Types
<1>2. /\ position' = [position EXCEPT ![p] = position[p] + 1] /\ position[p] < Len(Log[p])
      /\ queue' = IF m \in Good THEN [w \in Writers |-> queue[w] \o RowsFor(w, m)] ELSE queue
      /\ open' = open /\ stored' = stored /\ exposed' = exposed /\ tracing' = tracing
  BY DEF OnMessage, historyVars
<1>3. position[p] \in Nat /\ position[p] + 1 <= Len(Log[p])
  BY <1>1, <1>2, LogFacts
<1>4. queue' = [w \in Writers |-> queue[w] \o NewRows(w, m)]
  <2>1. CASE m \in Good
    BY <1>2, <2>1 DEF NewRows
  <2>2. CASE m \notin Good
    <3>1. \A w \in Writers : queue[w] \o NewRows(w, m) = queue[w]
      BY <1>1, <2>2, ConcatEmptySeq DEF NewRows
    <3>2. queue = [w \in Writers |-> queue[w]]
      BY <1>1
    <3> QED BY <1>2, <2>2, <3>1, <3>2
  <2> QED BY <2>1, <2>2
<1>5. \A w \in Writers : queue[w] \in Seq(Rows) /\ NewRows(w, m) \in Seq(Rows)
  BY <1>1, NewRowsFacts
<1>6. queue' \in [Writers -> Seq(Rows)]
  <2>1. \A w \in Writers : queue[w] \o NewRows(w, m) \in Seq(Rows)
    BY <1>5, Joined
  <2> QED BY <1>4, <2>1
<1>7. ASSUME NEW w \in Writers
      PROVE  /\ queue'[w] = queue[w] \o NewRows(w, m)
             /\ InQueue(w)' = InQueue(w) \cup ToSet(NewRows(w, m))
             /\ InOpen(w)' = InOpen(w)
             /\ Held(w)' = Held(w) \cup ToSet(NewRows(w, m))
  <2>1. queue'[w] = queue[w] \o NewRows(w, m)
    BY <1>4
  <2>2. InQueue(w)' = InQueue(w) \cup ToSet(NewRows(w, m))
    <3> DEFINE a == queue[w]
               b == NewRows(w, m)
    <3>1. a \in Seq(Rows) /\ b \in Seq(Rows)
      BY <1>5
    <3> HIDE DEF a, b
    <3>2. ToSet(a \o b) = ToSet(a) \cup ToSet(b)
      BY <3>1, Joined
    <3> QED BY <2>1, <3>2 DEF InQueue, a, b
  <2>3. InOpen(w)' = InOpen(w)
    BY <1>2 DEF InOpen, InTask
  <2> QED BY <2>1, <2>2, <2>3 DEF Held
<1> QED BY <1>2, <1>3, <1>6, <1>7

\* What stays where it is.
LEMMA SameHeld ==
  ASSUME queue' = queue, open' = open
  PROVE  /\ \A w : InQueue(w)' = InQueue(w) /\ InOpen(w)' = InOpen(w) /\ Held(w)' = Held(w)
         /\ \A w, k : InTask(w, k)' = InTask(w, k)
<1>1. \A w : InQueue(w)' = InQueue(w)
  BY DEF InQueue
<1>2. \A w, k : InTask(w, k)' = InTask(w, k)
  BY DEF InTask
<1>3. \A w : InOpen(w)' = InOpen(w)
  BY DEF InOpen, InTask
<1> QED BY <1>1, <1>2, <1>3 DEF Held

LEMMA SameHeldBy ==
  ASSUME NEW w, queue'[w] = queue[w], open'[w] = open[w]
  PROVE  /\ InQueue(w)' = InQueue(w) /\ InOpen(w)' = InOpen(w) /\ Held(w)' = Held(w)
         /\ \A k : InTask(w, k)' = InTask(w, k)
<1>1. InQueue(w)' = InQueue(w)
  BY DEF InQueue
<1>2. \A k : InTask(w, k)' = InTask(w, k)
  BY DEF InTask
<1>3. InOpen(w)' = InOpen(w)
  BY DEF InOpen, InTask
<1> QED BY <1>1, <1>2, <1>3 DEF Held

\* A task takes the first rows of the queue.
Spawned(w, n, rows, L) ==
  /\ queue' \in [Writers -> Seq(Rows)] /\ open' \in [Writers -> Seq(Seq(Rows))]
  /\ queue' = [queue EXCEPT ![w] = Rest(queue[w], n)]
  /\ open' = [open EXCEPT ![w] = Append(open[w], rows)]
  /\ tracing' = [tracing EXCEPT ![w] = update_from(tracing[w], FlagOf(rows))]
  /\ stored' = stored /\ exposed' = exposed \cup Exposed(w, rows) /\ position' = position
  /\ rows \in Seq(Rows) /\ rows # <<>> /\ DOMAIN rows = 1..n
  /\ \A i \in 1..n : rows[i] = queue[w][i] /\ i \in DOMAIN queue[w]
  /\ queue'[w] \in Seq(Rows) /\ DOMAIN queue'[w] = 1..Len(queue[w]) - n
  /\ \A i \in 1..Len(queue[w]) - n : queue'[w][i] = queue[w][i + n] /\ i + n \in DOMAIN queue[w]
  /\ DOMAIN open'[w] = 1..L /\ L \in Nat /\ Len(open'[w]) = L /\ Len(open[w]) < spawn_limit
  /\ open'[w][L] = rows /\ \A k \in DOMAIN open[w] : open'[w][k] = open[w][k] /\ k # L
  /\ \A k \in DOMAIN open'[w] : k = L \/ k \in DOMAIN open[w]
  /\ DOMAIN open[w] = 1..L - 1
  /\ InTask(w, L)' = ToSet(rows) /\ \A k \in DOMAIN open[w] : InTask(w, k)' = InTask(w, k)
  /\ InQueue(w) = ToSet(rows) \cup InQueue(w)'
  /\ InOpen(w)' = InOpen(w) \cup ToSet(rows)
  /\ \A v \in Writers \ {w} : queue'[v] = queue[v] /\ open'[v] = open[v]
  /\ \A v \in Writers : Held(v)' = Held(v)

LEMMA SpawnEffect ==
  ASSUME Types, NEW w \in Writers, NEW n \in Nat \ {0}, SpawnTask(w, n),
         NEW rows, rows = SubSeq(queue[w], 1, n), NEW L, L = Len(open[w]) + 1
  PROVE  Spawned(w, n, rows, L)
<1>1. /\ queue' = [queue EXCEPT ![w] = Rest(queue[w], n)]
      /\ open' = [open EXCEPT ![w] = Append(open[w], rows)]
      /\ tracing' = [tracing EXCEPT ![w] = update_from(tracing[w], FlagOf(rows))]
      /\ stored' = stored /\ exposed' = exposed \cup Exposed(w, rows) /\ position' = position
      /\ n <= Len(queue[w]) /\ Len(open[w]) < spawn_limit
  BY DEF SpawnTask, MaySpawn
<1>2. queue \in [Writers -> Seq(Rows)] /\ open \in [Writers -> Seq(Seq(Rows))]
  BY DEF Types
<1>3. queue[w] \in Seq(Rows) /\ open[w] \in Seq(Seq(Rows))
  BY <1>2
<1>4. /\ rows \in Seq(Rows) /\ DOMAIN rows = 1..n /\ \A i \in 1..n : rows[i] = queue[w][i]
      /\ Rest(queue[w], n) \in Seq(Rows) /\ DOMAIN Rest(queue[w], n) = 1..Len(queue[w]) - n
      /\ \A i \in 1..Len(queue[w]) - n : Rest(queue[w], n)[i] = queue[w][i + n]
      /\ DOMAIN queue[w] = 1..Len(queue[w]) /\ Len(queue[w]) \in Nat /\ rows # <<>>
      /\ ToSet(queue[w]) = ToSet(rows) \cup ToSet(Rest(queue[w], n))
  <2> DEFINE q == queue[w]
  <2>1. /\ SubSeq(q, 1, n) \in Seq(Rows) /\ DOMAIN SubSeq(q, 1, n) = 1..n
        /\ \A i \in 1..n : SubSeq(q, 1, n)[i] = q[i]
        /\ Rest(q, n) \in Seq(Rows) /\ DOMAIN Rest(q, n) = 1..Len(q) - n
        /\ \A i \in 1..Len(q) - n : Rest(q, n)[i] = q[i + n]
        /\ DOMAIN q = 1..Len(q) /\ Len(q) \in Nat /\ SubSeq(q, 1, n) # <<>>
        /\ ToSet(q) = ToSet(SubSeq(q, 1, n)) \cup ToSet(Rest(q, n))
    <3>1. q \in Seq(Rows) /\ n <= Len(q)
      BY <1>1, <1>3
    <3> HIDE DEF q
    <3> QED BY <3>1, Split
  <2> QED BY <2>1
<1>5. queue'[w] = Rest(queue[w], n) /\ open'[w] = Append(open[w], rows)
  BY <1>1, <1>2
<1>6. \A v \in Writers \ {w} : queue'[v] = queue[v] /\ open'[v] = open[v]
  BY <1>1, <1>2
<1>7. (\A i \in 1..n : i \in DOMAIN queue[w])
      /\ \A i \in 1..Len(queue[w]) - n : i + n \in DOMAIN queue[w]
  BY <1>1, <1>4
<1>8. /\ open'[w] \in Seq(Seq(Rows)) /\ DOMAIN open'[w] = 1..L /\ L \in Nat /\ Len(open'[w]) = L
      /\ DOMAIN open[w] = 1..L - 1
      /\ open'[w][L] = rows /\ \A k \in DOMAIN open[w] : open'[w][k] = open[w][k] /\ k # L
      /\ \A k \in DOMAIN open'[w] : k = L \/ k \in DOMAIN open[w]
  <2>1. /\ Len(open[w]) \in Nat /\ DOMAIN open[w] = 1..Len(open[w])
        /\ Append(open[w], rows) \in Seq(Seq(Rows))
        /\ Len(Append(open[w], rows)) = Len(open[w]) + 1
        /\ Append(open[w], rows)[Len(open[w]) + 1] = rows
        /\ \A k \in 1..Len(open[w]) : Append(open[w], rows)[k] = open[w][k]
    BY <1>3, <1>4
  <2>2. L - 1 = Len(open[w]) /\ L \in Nat /\ \A k \in 1..L : k = L \/ k \in 1..Len(open[w])
    BY <2>1
  <2>3. \A k \in 1..Len(open[w]) : k # L
    BY <2>1
  <2>4. DOMAIN open'[w] = 1..L
    <3>1. Len(open'[w]) = L /\ open'[w] \in Seq(Seq(Rows))
      BY <1>5, <2>1
    <3> QED BY <3>1
  <2> QED BY <1>5, <2>1, <2>2, <2>3, <2>4
<1>9. queue' \in [Writers -> Seq(Rows)] /\ open' \in [Writers -> Seq(Seq(Rows))]
  BY <1>1, <1>2, <1>4, <1>5, <1>8
<1>10. InTask(w, L)' = ToSet(rows) /\ \A k \in DOMAIN open[w] : InTask(w, k)' = InTask(w, k)
  BY <1>8 DEF InTask
<1>11. InQueue(w) = ToSet(rows) \cup InQueue(w)'
  BY <1>4, <1>5 DEF InQueue
<1>12. InOpen(w)' = InOpen(w) \cup ToSet(rows)
  <2>1. InOpen(w)' = UNION {InTask(w, k)' : k \in DOMAIN open'[w]}
    BY DEF InOpen
  <2>2. DOMAIN open'[w] = DOMAIN open[w] \cup {L}
    BY <1>8
  <2>3. ASSUME NEW r PROVE r \in InOpen(w)' <=> r \in InOpen(w) \/ r \in ToSet(rows)
    <3>1. r \in InOpen(w)' <=> \E k \in DOMAIN open[w] \cup {L} : r \in InTask(w, k)'
      BY <2>1, <2>2
    <3>2. r \in InOpen(w) <=> \E k \in DOMAIN open[w] : r \in InTask(w, k)
      BY DEF InOpen
    <3> QED BY <1>10, <3>1, <3>2
  <2> QED BY <2>3
<1>13. ASSUME NEW v \in Writers PROVE Held(v)' = Held(v)
  <2>1. CASE v = w
    BY <1>11, <1>12, <2>1 DEF Held
  <2>2. CASE v # w
    BY <1>6, <2>2, SameHeldBy
  <2> QED BY <2>1, <2>2
<1>14. queue'[w] \in Seq(Rows) /\ DOMAIN queue'[w] = 1..Len(queue[w]) - n
       /\ \A i \in 1..Len(queue[w]) - n : queue'[w][i] = queue[w][i + n]
  BY <1>4, <1>5
<1> QED
  BY <1>1, <1>4, <1>6, <1>7, <1>8, <1>9, <1>10, <1>11, <1>12, <1>13, <1>14 DEF Spawned

\* The place a task had before the k-th one ended.
From(k, i) == IF i < k THEN i ELSE i + 1

Removed(w, k, rows) ==
  /\ queue' = queue /\ position' = position /\ exposed' = exposed
  /\ stored' = stored \cup ToSet(rows)
  /\ open' \in [Writers -> Seq(Seq(Rows))] /\ open' = [open EXCEPT ![w] = RemoveAt(open[w], k)]
  /\ k \in DOMAIN open[w] /\ rows \in Seq(Rows) /\ rows # <<>> /\ InTask(w, k) = ToSet(rows)
  /\ DOMAIN open[w] = 1..Len(open[w]) /\ Len(open[w]) \in Nat
  /\ DOMAIN open'[w] = 1..Len(open[w]) - 1
  /\ \A i \in DOMAIN open'[w] :
       /\ From(k, i) \in DOMAIN open[w] /\ From(k, i) # k
       /\ open'[w][i] = open[w][From(k, i)] /\ InTask(w, i)' = InTask(w, From(k, i))
  /\ \A l \in DOMAIN open[w] \ {k} : \E i \in DOMAIN open'[w] : From(k, i) = l
  /\ \A v : InQueue(v)' = InQueue(v)
  /\ \A v \in Writers \ {w} : open'[v] = open[v]
  /\ \A v \in Writers : Held(v)' \subseteq Held(v) /\ Held(v) \subseteq Held(v)' \cup ToSet(rows)

LEMMA DoneEffect ==
  ASSUME Types, NEW w \in Writers, NEW k \in Nat \ {0}, TaskDone(w, k),
         NEW rows, rows = open[w][k]
  PROVE  Removed(w, k, rows)
<1>1. /\ queue' = queue /\ position' = position /\ exposed' = exposed
      /\ stored' = stored \cup ToSet(rows) /\ k <= Len(open[w])
      /\ open' = [open EXCEPT ![w] = RemoveAt(open[w], k)]
  BY DEF TaskDone, historyVars
<1>2. open \in [Writers -> Seq(Seq(Rows))] /\ \A i \in DOMAIN open[w] : open[w][i] # <<>>
  BY DEF Types
<1>3. open[w] \in Seq(Seq(Rows)) /\ DOMAIN open[w] = 1..Len(open[w]) /\ Len(open[w]) \in Nat
  BY <1>2
<1>4. k \in DOMAIN open[w]
  BY <1>1, <1>3
<1>5. rows \in Seq(Rows) /\ rows # <<>>
  BY <1>2, <1>3, <1>4
<1>6. /\ open'[w] \in Seq(Seq(Rows)) /\ DOMAIN open'[w] = 1..Len(open[w]) - 1
      /\ \A i \in 1..Len(open[w]) - 1 : open'[w][i] = IF i < k THEN open[w][i] ELSE open[w][i + 1]
  <2> DEFINE s == open[w]
             t == RemoveAt(s, k)
  <2>1. /\ t \in Seq(Seq(Rows)) /\ DOMAIN t = 1..Len(s) - 1
        /\ \A i \in 1..Len(s) - 1 : t[i] = IF i < k THEN s[i] ELSE s[i + 1]
    <3>1. s \in Seq(Seq(Rows)) /\ k \in DOMAIN s
      BY <1>3, <1>4
    <3> HIDE DEF s
    <3> QED BY <3>1, RemovedIndexes
  <2>2. open'[w] = t
    BY <1>1, <1>2
  <2> QED BY <2>1, <2>2
<1>7. ASSUME NEW i \in DOMAIN open'[w]
      PROVE  /\ From(k, i) \in DOMAIN open[w] /\ From(k, i) # k
             /\ open'[w][i] = open[w][From(k, i)] /\ InTask(w, i)' = InTask(w, From(k, i))
  <2>1. PICK n \in Nat : n = Len(open[w])
    BY <1>3
  <2>2. i \in 1..n - 1 /\ k \in 1..n /\ DOMAIN open[w] = 1..n
    BY <1>3, <1>4, <1>6, <2>1
  <2>3. From(k, i) \in DOMAIN open[w] /\ From(k, i) # k
    BY <2>2 DEF From
  <2>4. open'[w][i] = open[w][From(k, i)]
    <3>1. open'[w][i] = IF i < k THEN open[w][i] ELSE open[w][i + 1]
      BY <1>6
    <3> QED BY <3>1 DEF From
  <2> QED BY <2>3, <2>4 DEF InTask
<1>8. ASSUME NEW l \in DOMAIN open[w] \ {k} PROVE \E i \in DOMAIN open'[w] : From(k, i) = l
  <2>1. CASE l < k
    <3>1. l \in 1..Len(open[w]) - 1
      BY <1>3, <1>4, <2>1
    <3> QED BY <1>6, <2>1, <3>1 DEF From
  <2>2. CASE l > k
    <3>1. l - 1 \in 1..Len(open[w]) - 1 /\ ~(l - 1 < k) /\ (l - 1) + 1 = l
      BY <1>3, <1>4, <2>2
    <3> QED BY <1>6, <3>1 DEF From
  <2> QED BY <1>3, <2>1, <2>2
<1>9. \A v : InQueue(v)' = InQueue(v)
  BY <1>1 DEF InQueue
<1>10. \A v \in Writers \ {w} : open'[v] = open[v]
  BY <1>1, <1>2
<1>11. open' \in [Writers -> Seq(Seq(Rows))]
  <2>1. RemoveAt(open[w], k) \in Seq(Seq(Rows))
    <3>1. open'[w] = RemoveAt(open[w], k)
      BY <1>1, <1>2
    <3> QED BY <1>6, <3>1
  <2> QED BY <1>1, <1>2, <2>1
<1>12. InTask(w, k) = ToSet(rows)
  BY DEF InTask
<1>13. ASSUME NEW v \in Writers
       PROVE  Held(v)' \subseteq Held(v) /\ Held(v) \subseteq Held(v)' \cup ToSet(rows)
  <2>1. CASE v = w
    <3>1. InOpen(w)' = UNION {InTask(w, i)' : i \in DOMAIN open'[w]}
      BY DEF InOpen
    <3>2. InOpen(w) = UNION {InTask(w, i) : i \in DOMAIN open[w]}
      BY DEF InOpen
    <3>3. InOpen(w)' \subseteq InOpen(w)
      BY <1>7, <3>1, <3>2
    <3>4. ASSUME NEW r \in InOpen(w), r \notin ToSet(rows) PROVE r \in InOpen(w)'
      <4>1. PICK l \in DOMAIN open[w] : r \in InTask(w, l)
        BY <3>2
      <4>2. l # k
        BY <1>12, <3>4, <4>1
      <4>3. PICK i \in DOMAIN open'[w] : From(k, i) = l
        BY <1>8, <4>2
      <4>4. r \in InTask(w, i)'
        BY <1>7, <4>1, <4>3
      <4> QED BY <3>1, <4>4
    <3> QED BY <1>9, <2>1, <3>3, <3>4 DEF Held
  <2>2. CASE v # w
    <3>1. queue'[v] = queue[v] /\ open'[v] = open[v]
      BY <1>1, <1>10, <2>2
    <3>2. Held(v)' = Held(v)
      BY <3>1, SameHeldBy
    <3> QED BY <3>2
  <2> QED BY <2>1, <2>2
<1> QED
  BY <1>1, <1>3, <1>4, <1>5, <1>6, <1>7, <1>8, <1>9, <1>10, <1>11, <1>12, <1>13 DEF Removed

LEMMA StartEffect ==
  ASSUME Restart
  PROVE  /\ \A v : v \in Writers => InQueue(v)' = {} /\ InOpen(v)' = {} /\ Held(v)' = {}
         /\ position' = committed /\ committed' = committed
         /\ stored' = stored /\ exposed' = exposed
<1>1. /\ queue' = [w \in Writers |-> <<>>] /\ open' = [w \in Writers |-> <<>>]
      /\ position' = committed /\ committed' = committed /\ stored' = stored /\ exposed' = exposed
  BY DEF Restart, Fresh
<1>2. ASSUME NEW v \in Writers PROVE InQueue(v)' = {} /\ InOpen(v)' = {}
  <2>1. queue'[v] = <<>> /\ open'[v] = <<>> /\ DOMAIN <<>> = {}
    BY <1>1
  <2>2. InQueue(v)' = {}
    BY <2>1, SetOfEmpty DEF InQueue
  <2>3. InOpen(v)' = {}
    BY <2>1 DEF InOpen
  <2> QED BY <2>2, <2>3
<1> QED BY <1>1, <1>2 DEF Held

(***************************************************************************)
(* The stacks have an entry for every open task.                           *)
(***************************************************************************)
LEMMA WithFlag ==
  ASSUME NEW x \in Seq(Rows), NEW p, NEW V
  PROVE  x \in With(p, V) <=> p \in DOMAIN FlagOf(x) /\ FlagOf(x)[p] \in V
BY DEF With

LEMMA TaskHasEntry ==
  ASSUME Types, Stacks, NEW w \in Writers, NEW k \in DOMAIN open[w],
         NEW p \in DOMAIN FlagOf(open[w][k])
  PROVE  /\ p \in Tags /\ \E i \in DOMAIN tracing[w][p] : tracing[w][p][i].n = FlagOf(open[w][k])[p]
<1> DEFINE x == open[w][k]
           v == FlagOf(x)[p]
           s == tracing[w][p]
<1>1. x \in Seq(Rows) /\ open[w] \in Seq(Seq(Rows))
  BY TypesShape DEF Shapes
<1>2. FlagOf(x) \in Flags
  BY <1>1, FlagFacts
<1>3. p \in Tags /\ v \in Nat /\ v \in Offsets(p)
  BY <1>2, FlagType
<1>4. s \in Seq(EntryOf(Offsets(p)))
  BY <1>3 DEF Types
<1>5. Hits(s, At(p, {v})) = Hits(open[w], With(p, {v}))
  <2>1. Balanced(w, p)
    BY <1>3 DEF Stacks
  <2>2. {v} \in SUBSET Nat
    BY <1>3
  <2> QED BY <2>1, <2>2 DEF Balanced
<1>6. open[w][k] \in With(p, {v})
  BY <1>1, WithFlag
<1>7. Hits(open[w], With(p, {v})) # 0
  BY <1>1, <1>6, HitsType
<1>8. ~\A i \in DOMAIN s : s[i] \notin At(p, {v})
  BY <1>4, <1>5, <1>7, HitsType
<1> HIDE DEF x, v, s
<1>9. \E i \in DOMAIN s : s[i].n = v
  BY <1>8 DEF At
<1> QED BY <1>3, <1>9 DEF x, v, s

LEMMA SpawnStacks ==
  ASSUME Types, Stacks, NEW w \in Writers, NEW n \in Nat \ {0}, SpawnTask(w, n),
         NEW v \in Writers, NEW p \in Tags
  PROVE  /\ tracing'[v][p] \in Seq(EntryOf(Offsets(p))) /\ Sorted(tracing'[v][p])
         /\ Balanced(v, p)'
         /\ \A i \in DOMAIN tracing'[v][p] :
              \/ tracing'[v][p][i].mark = NoMark
              \/ \E j \in DOMAIN tracing[v][p] : tracing'[v][p][i] = tracing[v][p][j]
<1> DEFINE s == tracing[v][p]
           t == tracing'[v][p]
           rows == SubSeq(queue[w], 1, n)
           f == FlagOf(rows)
<1>1. /\ tracing' = [tracing EXCEPT ![w] = update_from(tracing[w], f)]
      /\ open' = [open EXCEPT ![w] = Append(open[w], rows)] /\ rows \in Seq(Rows)
      /\ \A u \in Writers \ {w} : open'[u] = open[u]
  <2>1. Spawned(w, n, rows, Len(open[w]) + 1)
    BY SpawnEffect
  <2> HIDE DEF rows
  <2> QED BY <2>1 DEF Spawned, f
<1>2. s \in Seq(EntryOf(Offsets(p))) /\ DOMAIN tracing = Writers /\ Sorted(s)
      /\ Offsets(p) \in SUBSET Nat /\ \A V \in SUBSET Nat : Hits(s, At(p, V)) = Hits(open[v], With(p, V))
  BY LogFacts DEF Types, Stacks, Balanced
<1>3. CASE v = w /\ p \in DOMAIN f
  <2>1. t = push_top(s, f[p])
    BY <1>1, <1>2, <1>3 DEF update_from
  <2>2. f \in Flags
    BY <1>1, FlagFacts
  <2>3. f[p] \in Offsets(p)
    BY <1>3, <2>2, FlagType
  <2>4. open[w] \in Seq(Seq(Rows)) /\ open'[w] = Append(open[w], rows)
    BY <1>1 DEF Types
  <2> HIDE DEF s, t, f, rows
  <2> DEFINE m == f[p]
             N == Offsets(p)
  <2>5. m \in N
    BY <2>3
  <2> HIDE DEF m
  <2>6. /\ t \in Seq(EntryOf(N)) /\ Sorted(t)
        /\ \A i \in DOMAIN t : t[i] = [n |-> m, mark |-> NoMark] \/ \E j \in DOMAIN s : t[i] = s[j]
        /\ \A V : Hits(t, {e \in EntryOf(N) : e.n \in V})
                    = Hits(s, {e \in EntryOf(N) : e.n \in V}) + (IF m \in V THEN 1 ELSE 0)
    <3>1. t = push_top(s, m)
      BY <2>1 DEF m
    <3> HIDE DEF N
    <3>2. N \in SUBSET Nat /\ s \in Seq(EntryOf(N)) /\ Sorted(s)
      BY <1>2 DEF N
    <3> QED BY <2>5, <3>1, <3>2, PushSorts
  <2>7. ASSUME NEW V \in SUBSET Nat PROVE Hits(t, At(p, V)) = Hits(open'[w], With(p, V))
    <3>1. Hits(t, At(p, V)) = Hits(s, At(p, V)) + (IF m \in V THEN 1 ELSE 0)
      BY <2>6 DEF At
    <3>2. rows \in With(p, V) <=> m \in V
      BY <1>1, <1>3, WithFlag DEF f, m
    <3>3. Hits(open'[w], With(p, V)) = Hits(open[w], With(p, V)) + (IF rows \in With(p, V) THEN 1 ELSE 0)
      BY <1>1, <2>4, AppendHits
    <3> QED BY <1>2, <1>3, <3>1, <3>2, <3>3
  <2>8. Balanced(v, p)'
    BY <1>3, <2>7 DEF Balanced, t
  <2> QED BY <2>6, <2>8 DEF t, s
<1>4. CASE v = w /\ p \notin DOMAIN f
  <2>1. t = s
    BY <1>1, <1>2, <1>4 DEF update_from
  <2>2. open[w] \in Seq(Seq(Rows)) /\ open'[w] = Append(open[w], rows)
    BY <1>1 DEF Types
  <2>3. ASSUME NEW V \in SUBSET Nat PROVE Hits(t, At(p, V)) = Hits(open'[w], With(p, V))
    <3>1. rows \notin With(p, V)
      BY <1>1, <1>4, WithFlag
    <3> HIDE DEF s, t, f, rows
    <3>2. Hits(open'[w], With(p, V)) = Hits(open[w], With(p, V)) + (IF rows \in With(p, V) THEN 1 ELSE 0)
      BY <1>1, <2>2, AppendHits
    <3>3. Hits(open[w], With(p, V)) \in Nat
      BY <2>2, HitsType
    <3> QED BY <1>2, <1>4, <2>1, <3>1, <3>2, <3>3
  <2>4. Balanced(v, p)'
    BY <1>4, <2>3 DEF Balanced
  <2> HIDE DEF f, rows
  <2> QED BY <1>2, <2>1, <2>4
<1>5. CASE v # w
  <2>1. t = s /\ open'[v] = open[v]
    BY <1>1, <1>2, <1>5
  <2>2. Balanced(v, p)'
    BY <1>2, <2>1 DEF Balanced
  <2> HIDE DEF f, rows
  <2> QED BY <1>2, <2>1, <2>2
<1> QED BY <1>3, <1>4, <1>5

\* What finish_from tells of a task with flag f: the mark of its entry, or the
\* position, when no entry is below.
Told(s, n, x) ==
  \E j \in DOMAIN s : s[j].n = n /\ x = Top(s[j]) /\ \A i \in DOMAIN s : n <= s[i].n

\* The entry below takes the mark over.
TakesOver(s, n, e) ==
  /\ e.n < n /\ \E j \in DOMAIN s : s[j].n = n /\ e.mark = Top(s[j])
  /\ \E l \in DOMAIN s : e.n = s[l].n
  /\ \A l \in DOMAIN s : s[l].n <= e.n \/ n <= s[l].n

Finished(tr, f, d) ==
  /\ DOMAIN d.tracing = Tags
  /\ \A p \in Tags : d.tracing[p] = IF p \in DOMAIN f THEN pop_top(tr[p], f[p]).stack ELSE tr[p]
  /\ DOMAIN d.flag = {p \in DOMAIN f : pop_top(tr[p], f[p]).out # NoMark}
  /\ \A p \in DOMAIN d.flag : d.flag[p] = pop_top(tr[p], f[p]).out
  /\ d.flag = [p \in DOMAIN d.flag |-> d.flag[p]]

LEMMA FinishForm ==
  ASSUME NEW tr, DOMAIN tr = Tags, NEW f \in Flags
  PROVE  Finished(tr, f, finish_from(tr, f))
<1>1. DOMAIN f \subseteq Tags
  BY FlagType
<1> QED BY <1>1 DEF finish_from, Finished

LEMMA DoneStacks ==
  ASSUME Types, Stacks, NEW w \in Writers, NEW k \in Nat \ {0}, TaskDone(w, k),
         NEW f, f = FlagOf(open[w][k]), NEW v \in Writers, NEW p \in Tags
  PROVE  /\ tracing'[v][p] \in Seq(EntryOf(Offsets(p))) /\ Sorted(tracing'[v][p])
         /\ Balanced(v, p)'
         /\ \A i \in DOMAIN tracing'[v][p] :
              \/ \E j \in DOMAIN tracing[v][p] : tracing'[v][p][i] = tracing[v][p][j]
              \/ v = w /\ p \in DOMAIN f /\ TakesOver(tracing[v][p], f[p], tracing'[v][p][i])
         /\ v = w /\ p \in DOMAIN watch'[v] =>
              /\ p \in DOMAIN f /\ watch'[v][p] \in Offsets(p)
              /\ Told(tracing[v][p], f[p], watch'[v][p])
<1> DEFINE s == tracing[v][p]
           t == tracing'[v][p]
           rows == open[w][k]
           d == finish_from(tracing[w], f)
<1>1. /\ tracing' = [tracing EXCEPT ![w] = d.tracing] /\ watch' = [watch EXCEPT ![w] = d.flag]
  BY DEF TaskDone
<1>2. Removed(w, k, rows)
  BY DoneEffect
<1>3. /\ rows \in Seq(Rows) /\ k \in DOMAIN open[w] /\ open' = [open EXCEPT ![w] = RemoveAt(open[w], k)]
      /\ \A u \in Writers \ {w} : open'[u] = open[u]
  <2> HIDE DEF rows
  <2> QED BY <1>2 DEF Removed
<1>4. /\ s \in Seq(EntryOf(Offsets(p))) /\ DOMAIN tracing = Writers /\ DOMAIN tracing[w] = Tags /\ Sorted(s)
      /\ Offsets(p) \in SUBSET Nat /\ \A V \in SUBSET Nat : Hits(s, At(p, V)) = Hits(open[v], With(p, V))
      /\ watch \in [Writers -> Flags] /\ open[w] \in Seq(Seq(Rows)) /\ open \in [Writers -> Seq(Seq(Rows))]
  BY LogFacts DEF Types, Stacks, Balanced
<1>5. f \in Flags
  BY <1>3, FlagFacts
<1>6. Finished(tracing[w], f, d)
  BY <1>4, <1>5, FinishForm
<1>7. tracing'[w] = d.tracing /\ watch'[w] = d.flag /\ open'[w] = RemoveAt(open[w], k)
  BY <1>1, <1>3, <1>4
<1> HIDE DEF d
<1>8. CASE v = w /\ p \in DOMAIN f
  <2> DEFINE m == f[p]
             N == Offsets(p)
             out == pop_top(s, m).out
  <2>1. t = pop_top(s, m).stack
    BY <1>6, <1>7, <1>8 DEF Finished
  <2>2. \E i \in DOMAIN s : s[i].n = m
    BY <1>3, <1>8, TaskHasEntry
  <2>3. Popped(N, s, m, t, out)
    <3>1. N \in SUBSET Nat /\ s \in Seq(EntryOf(N)) /\ Sorted(s)
      BY <1>4
    <3>2. out = pop_top(s, m).out
      OBVIOUS
    <3> HIDE DEF N, s, t, m, out
    <3> QED BY <2>1, <2>2, <3>1, <3>2, PopTop
  <2> HIDE DEF s, t, out, rows
  <2>4. ASSUME NEW V \in SUBSET Nat PROVE Hits(t, At(p, V)) = Hits(open'[w], With(p, V))
    <3>1. Hits(t, At(p, V)) = Hits(s, At(p, V)) - (IF m \in V THEN 1 ELSE 0)
      BY <2>3 DEF At, Popped
    <3>2. open[w][k] \in With(p, V) <=> m \in V
      BY <1>3, <1>8, WithFlag DEF rows
    <3> HIDE DEF m
    <3>3. Hits(open'[w], With(p, V)) = Hits(open[w], With(p, V)) - (IF open[w][k] \in With(p, V) THEN 1 ELSE 0)
      BY <1>3, <1>4, <1>7, RemoveHits
    <3> QED BY <1>4, <1>8, <3>1, <3>2, <3>3
  <2>5. Balanced(v, p)'
    BY <1>8, <2>4 DEF Balanced, t
  <2>6. ASSUME NEW i \in DOMAIN t
        PROVE  (\E j \in DOMAIN s : t[i] = s[j]) \/ TakesOver(s, m, t[i])
    <3> HIDE DEF m
    <3> QED BY <2>3 DEF TakesOver, Popped
  <2>7. p \in DOMAIN watch'[w] => watch'[w][p] = out /\ out # NoMark
    BY <1>6, <1>7, <1>8 DEF out, s, Finished
  <2>8. out # NoMark => Told(s, m, out) /\ out \in N
    <3> HIDE DEF m, N
    <3> QED BY <2>3 DEF Told, Popped
  <2>9. t \in Seq(EntryOf(N)) /\ Sorted(t)
    BY <2>3 DEF Popped
  <2> QED BY <1>8, <2>5, <2>6, <2>7, <2>8, <2>9 DEF s, t
<1>9. CASE v = w /\ p \notin DOMAIN f
  <2>1. t = s
    BY <1>6, <1>7, <1>9 DEF Finished
  <2>2. p \notin DOMAIN watch'[w]
    BY <1>6, <1>7, <1>9 DEF Finished
  <2>3. ASSUME NEW V \in SUBSET Nat PROVE Hits(t, At(p, V)) = Hits(open'[w], With(p, V))
    <3>1. open[w][k] \notin With(p, V)
      BY <1>3, <1>9, WithFlag
    <3> HIDE DEF s, t, rows
    <3>2. Hits(open'[w], With(p, V)) = Hits(open[w], With(p, V)) - (IF open[w][k] \in With(p, V) THEN 1 ELSE 0)
      BY <1>3, <1>4, <1>7, RemoveHits
    <3>3. Hits(open[w], With(p, V)) \in Nat
      BY <1>4, HitsType
    <3>4. Hits(s, At(p, V)) = Hits(open[w], With(p, V))
      BY <1>4, <1>9
    <3> QED BY <2>1, <3>1, <3>2, <3>3, <3>4
  <2>4. Balanced(v, p)'
    BY <1>9, <2>3 DEF Balanced
  <2> HIDE DEF rows
  <2> QED BY <1>4, <1>9, <2>1, <2>2, <2>4
<1>10. CASE v # w
  <2>1. t = s /\ open'[v] = open[v]
    BY <1>1, <1>3, <1>4, <1>10
  <2>2. Balanced(v, p)'
    BY <1>4, <2>1 DEF Balanced
  <2> HIDE DEF rows
  <2> QED BY <1>4, <1>10, <2>1, <2>2
<1> QED BY <1>8, <1>9, <1>10

(***************************************************************************)
(* Types.                                                                  *)
(***************************************************************************)
HeldTypes ==
  /\ queue \in [Writers -> Seq(Rows)] /\ open \in [Writers -> Seq(Seq(Rows))]
  /\ \A w \in Writers : Len(open[w]) <= spawn_limit /\ \A k \in DOMAIN open[w] : open[w][k] # <<>>
  /\ \A w \in Writers : \A r \in Held(w) : To(r) = w

StackTypes ==
  /\ DOMAIN tracing = Writers /\ \A w \in Writers : DOMAIN tracing[w] = Tags
  /\ \A w \in Writers, p \in Tags : tracing[w][p] \in Seq(EntryOf(Offsets(p)))

OffsetTypes ==
  /\ phase \in {"run", "finishing", "finished", "down"}
  /\ position \in [Tags -> Nat] /\ \A p \in Tags : position[p] <= Len(Log[p])
  /\ committed \in [Tags -> Nat] /\ \A p \in Tags : committed[p] <= Len(Log[p])
  /\ rewinds \in Nat /\ fails \in Nat

ReportTypes ==
  /\ watch \in [Writers -> Flags] /\ overwritten \in [Writers -> SUBSET Tags]
  /\ fresh \in [Levels -> BOOLEAN] /\ status \in [Levels -> Marks]

HistoryTypes == stored \subseteq Rows /\ exposed \subseteq Good /\ reread \subseteq Tags /\ refused \subseteq Tags

LEMMA TypesParts == Types <=> HeldTypes /\ StackTypes /\ OffsetTypes /\ ReportTypes /\ HistoryTypes
BY DEF Types, HeldTypes, StackTypes, OffsetTypes, ReportTypes, HistoryTypes

LEMMA HeldTypesStay ==
  ASSUME HeldTypes, queue' = queue, open' = open
  PROVE  HeldTypes'
<1>1. \A w : Held(w)' = Held(w)
  BY SameHeld
<1> QED BY <1>1 DEF HeldTypes

LEMMA StackTypesStay ==
  ASSUME StackTypes, tracing' = tracing
  PROVE  StackTypes'
BY DEF StackTypes

LEMMA EmptyTasks ==
  ASSUME NEW Q, Q = [w \in Writers |-> <<>>],
         NEW t, t = [w \in Writers |-> [p \in Tags |-> <<>>]]
  PROVE  /\ Q \in [Writers -> Seq(Rows)] /\ Q \in [Writers -> Seq(Seq(Rows))]
         /\ \A w \in Writers : Len(Q[w]) <= spawn_limit /\ DOMAIN Q[w] = {} /\ ToSet(Q[w]) = {} /\ Q[w] = <<>>
         /\ DOMAIN t = Writers /\ \A w \in Writers : DOMAIN t[w] = Tags
         /\ \A w \in Writers, p \in Tags : t[w][p] \in Seq(EntryOf(Offsets(p))) /\ t[w][p] = <<>>
                                            /\ DOMAIN t[w][p] = {}
<1>1. <<>> \in Seq(Rows) /\ <<>> \in Seq(Seq(Rows)) /\ DOMAIN <<>> = {} /\ Len(<<>>) = 0 /\ ToSet(<<>>) = {}
  BY SetOfEmpty
<1>2. \A w \in Writers : Q[w] = <<>>
  OBVIOUS
<1>3. \A w \in Writers, p \in Tags : t[w][p] = <<>>
  OBVIOUS
<1>4. 0 <= spawn_limit
  BY PersistorAssumption
<1>5. Q \in [Writers -> Seq(Rows)] /\ Q \in [Writers -> Seq(Seq(Rows))]
  BY <1>1
<1>6. \A p : <<>> \in Seq(EntryOf(Offsets(p)))
  OBVIOUS
<1>7. DOMAIN t = Writers /\ \A w \in Writers : DOMAIN t[w] = Tags
  OBVIOUS
<1>8. \A w \in Writers : Len(Q[w]) <= spawn_limit /\ DOMAIN Q[w] = {} /\ ToSet(Q[w]) = {} /\ Q[w] = <<>>
  BY <1>1, <1>2, <1>4
<1>9. \A w \in Writers, p \in Tags : t[w][p] \in Seq(EntryOf(Offsets(p))) /\ t[w][p] = <<>>
                                       /\ DOMAIN t[w][p] = {}
  BY <1>1, <1>3, <1>6
<1> QED BY <1>5, <1>7, <1>8, <1>9

LEMMA FreshTypes ==
  /\ NoFlag \in Flags /\ NoFlag \in Marks
  /\ [w \in Writers |-> NoFlag] \in [Writers -> Flags] /\ [w \in Writers |-> {}] \in [Writers -> SUBSET Tags]
  /\ [i \in Levels |-> FALSE] \in [Levels -> BOOLEAN] /\ [i \in Levels |-> NoFlag] \in [Levels -> Marks]
BY NoFlagType

LEMMA TypesInit ==
  ASSUME Init
  PROVE  Types
<1>1. /\ queue = [w \in Writers |-> <<>>] /\ open = [w \in Writers |-> <<>>]
      /\ tracing = [w \in Writers |-> [p \in Tags |-> <<>>]]
  BY DEF Init
<1>2. HeldTypes
  <2>1. \A w \in Writers : DOMAIN open[w] = {} /\ ToSet(queue[w]) = {}
    BY <1>1, EmptyTasks
  <2>2. \A w \in Writers : Held(w) = {}
    BY <2>1 DEF Held, InQueue, InOpen
  <2> QED BY <1>1, <2>1, <2>2, EmptyTasks DEF HeldTypes
<1>3. StackTypes
  BY <1>1, EmptyTasks DEF StackTypes
<1>4. OffsetTypes
  <2>1. \A p \in Tags : 0 <= Len(Log[p])
    BY LogFacts
  <2> QED BY <2>1 DEF OffsetTypes, Init
<1>5. ReportTypes
  BY FreshTypes DEF ReportTypes, Init
<1>6. HistoryTypes
  BY DEF HistoryTypes, Init
<1> QED BY <1>2, <1>3, <1>4, <1>5, <1>6, TypesParts

LEMMA MessageTypes ==
  ASSUME Types, NEW p \in Tags, OnMessage(p)
  PROVE  Types'
<1> DEFINE m == <<p, position[p]>>
<1>1. HeldTypes /\ StackTypes /\ OffsetTypes /\ ReportTypes /\ HistoryTypes
  BY TypesParts
<1>2. /\ queue' \in [Writers -> Seq(Rows)] /\ open' = open /\ tracing' = tracing
      /\ position' = [position EXCEPT ![p] = position[p] + 1] /\ position[p] + 1 <= Len(Log[p])
      /\ \A w \in Writers : Held(w)' = Held(w) \cup ToSet(NewRows(w, m))
  BY MessageEffect
<1>3. /\ phase' = phase /\ committed' = committed /\ rewinds' = rewinds /\ fails' = fails
      /\ watch' = watch /\ overwritten' = overwritten /\ fresh' = fresh /\ status' = status
      /\ stored' = stored /\ exposed' = exposed /\ reread' = reread /\ refused' = refused
  BY DEF OnMessage, historyVars, trackerVars, watchVars
<1>4. HeldTypes'
  <2>1. \A w \in Writers : \A r \in Held(w)' : To(r) = w
    BY <1>1, <1>2, NewRowsFacts DEF HeldTypes
  <2> QED BY <1>1, <1>2, <2>1 DEF HeldTypes
<1>5. StackTypes'
  BY <1>1, <1>2, StackTypesStay
<1>6. OffsetTypes'
  BY <1>1, <1>2, <1>3 DEF OffsetTypes
<1>7. ReportTypes' /\ HistoryTypes'
  BY <1>1, <1>3 DEF ReportTypes, HistoryTypes
<1>8. (HeldTypes /\ StackTypes /\ OffsetTypes /\ ReportTypes /\ HistoryTypes => Types)'
  BY TypesParts, PTL
<1> QED BY <1>4, <1>5, <1>6, <1>7, <1>8

LEMMA WaitingGood == ASSUME NEW p PROVE Waiting(p) \subseteq Good
BY DEF Waiting

LEMMA ResubscribeTypes ==
  ASSUME Types, NEW p \in Tags, Resubscribe(p)
  PROVE  Types'
<1>1. HeldTypes /\ StackTypes /\ OffsetTypes /\ ReportTypes /\ HistoryTypes
  BY TypesParts
<1>2. /\ phase' = phase /\ committed' = committed /\ rewinds' = rewinds + 1 /\ fails' = fails
      /\ watch' = watch /\ overwritten' = overwritten /\ fresh' = fresh /\ status' = status
      /\ stored' = stored /\ refused' = refused /\ queue' = queue /\ open' = open /\ tracing' = tracing
      /\ position' = [position EXCEPT ![p] = committed[p]]
      /\ exposed' = exposed \cup Waiting(p)
      /\ reread' \in {reread, reread \cup {p}}
  BY DEF Resubscribe, writerVars, trackerVars, watchVars
<1>3. HeldTypes' /\ StackTypes'
  BY <1>1, <1>2, HeldTypesStay, StackTypesStay
<1>4. OffsetTypes'
  BY <1>1, <1>2 DEF OffsetTypes
<1>5. ReportTypes'
  BY <1>1, <1>2 DEF ReportTypes
<1>6. HistoryTypes'
  BY <1>1, <1>2, WaitingGood DEF HistoryTypes
<1>7. (HeldTypes /\ StackTypes /\ OffsetTypes /\ ReportTypes /\ HistoryTypes => Types)'
  BY TypesParts, PTL
<1> QED BY <1>3, <1>4, <1>5, <1>6, <1>7

LEMMA SpawnTypes ==
  ASSUME Types, Stacks, NEW w \in Writers, NEW n \in Nat \ {0}, SpawnTask(w, n)
  PROVE  Types'
<1> DEFINE rows == SubSeq(queue[w], 1, n)
           L == Len(open[w]) + 1
<1>1. HeldTypes /\ StackTypes /\ OffsetTypes /\ ReportTypes /\ HistoryTypes
  BY TypesParts
<1>2. Spawned(w, n, rows, L)
  BY SpawnEffect
<1>3. /\ phase' = phase /\ committed' = committed /\ rewinds' = rewinds /\ fails' = fails
      /\ watch' = watch /\ overwritten' = overwritten /\ fresh' = fresh /\ status' = status
      /\ reread' = reread /\ refused' = refused
  BY DEF SpawnTask, trackerVars, watchVars
<1> HIDE DEF rows, L
<1>4. HeldTypes'
  <2>1. \A v \in Writers : \A r \in Held(v)' : To(r) = v
    BY <1>1, <1>2 DEF HeldTypes, Spawned
  <2>2. ASSUME NEW v \in Writers
        PROVE  Len(open'[v]) <= spawn_limit /\ \A k \in DOMAIN open'[v] : open'[v][k] # <<>>
    <3>1. CASE v = w
      <4>1. Len(open'[w]) <= spawn_limit
        <5>1. Len(open'[w]) = L /\ Len(open[w]) < spawn_limit
          BY <1>2 DEF Spawned
        <5>2. Len(open[w]) \in Nat /\ spawn_limit \in Nat
          BY PersistorAssumption, TypesShape DEF Shapes
        <5> QED BY <5>1, <5>2 DEF L
      <4>2. \A k \in DOMAIN open'[w] : open'[w][k] # <<>>
        BY <1>1, <1>2 DEF Spawned, HeldTypes
      <4> QED BY <3>1, <4>1, <4>2
    <3>2. CASE v # w
      BY <1>1, <1>2, <3>2 DEF Spawned, HeldTypes
    <3> QED BY <3>1, <3>2
  <2>3. queue' \in [Writers -> Seq(Rows)] /\ open' \in [Writers -> Seq(Seq(Rows))]
    BY <1>2 DEF Spawned
  <2> QED BY <2>1, <2>2, <2>3 DEF HeldTypes
<1>5. StackTypes'
  <2>1. \A v \in Writers, p \in Tags : tracing'[v][p] \in Seq(EntryOf(Offsets(p)))
    BY SpawnStacks
  <2>2. tracing' = [tracing EXCEPT ![w] = update_from(tracing[w], FlagOf(rows))]
    BY <1>2 DEF Spawned
  <2>3. DOMAIN update_from(tracing[w], FlagOf(rows)) = Tags
    BY DEF update_from
  <2> QED BY <1>1, <2>1, <2>2, <2>3 DEF StackTypes
<1>6. OffsetTypes'
  <2>1. position' = position
    BY <1>2 DEF Spawned
  <2> QED BY <1>1, <1>3, <2>1 DEF OffsetTypes
<1>7. ReportTypes'
  BY <1>1, <1>3 DEF ReportTypes
<1>8. HistoryTypes'
  <2>1. stored' = stored /\ exposed' = exposed \cup Exposed(w, rows) /\ rows \in Seq(Rows)
    BY <1>2 DEF Spawned
  <2>2. \A r \in ToSet(rows) : r.msg \in Good
    BY <2>1, RowFacts DEF ToSet
  <2>3. Exposed(w, rows) \subseteq Good
    BY <2>2 DEF Exposed
  <2> QED BY <1>1, <1>3, <2>1, <2>3 DEF HistoryTypes
<1>9. (HeldTypes /\ StackTypes /\ OffsetTypes /\ ReportTypes /\ HistoryTypes => Types)'
  BY TypesParts, PTL
<1> QED BY <1>4, <1>5, <1>6, <1>7, <1>8, <1>9

LEMMA DoneTypes ==
  ASSUME Types, Stacks, NEW w \in Writers, NEW k \in Nat \ {0}, TaskDone(w, k)
  PROVE  Types'
<1> DEFINE rows == open[w][k]
           d == finish_from(tracing[w], FlagOf(rows))
<1>1. HeldTypes /\ StackTypes /\ OffsetTypes /\ ReportTypes /\ HistoryTypes
  BY TypesParts
<1>2. Removed(w, k, rows)
  BY DoneEffect
<1>3. /\ phase' = phase /\ committed' = committed /\ rewinds' = rewinds /\ fails' = fails
      /\ status' = status /\ reread' = reread /\ refused' = refused
      /\ tracing' = [tracing EXCEPT ![w] = d.tracing] /\ watch' = [watch EXCEPT ![w] = d.flag]
      /\ fresh' = [i \in Levels |-> fresh[i] \/ Chain[i] = w]
      /\ \E U : overwritten' = [overwritten EXCEPT ![w] = (overwritten[w] \cup U) \ DOMAIN d.flag]
               /\ U \in {{}, DOMAIN watch[w]}
  BY DEF TaskDone, historyVars, trackerVars
<1>4. Finished(tracing[w], FlagOf(rows), d) /\ FlagOf(rows) \in Flags
  <2>1. rows \in Seq(Rows)
    <3> HIDE DEF rows
    <3> QED BY <1>2 DEF Removed
  <2>2. FlagOf(rows) \in Flags /\ DOMAIN tracing[w] = Tags
    BY <1>1, <2>1, FlagFacts DEF StackTypes
  <2> HIDE DEF rows
  <2> QED BY <2>2, FinishForm
<1> HIDE DEF rows, d
<1>5. HeldTypes'
  <2>1. \A v \in Writers : \A r \in Held(v)' : To(r) = v
    BY <1>1, <1>2 DEF HeldTypes, Removed
  <2>2. ASSUME NEW v \in Writers
        PROVE  Len(open'[v]) <= spawn_limit /\ \A j \in DOMAIN open'[v] : open'[v][j] # <<>>
    <3>1. CASE v = w
      <4>1. Len(open'[w]) <= spawn_limit
        <5>1. /\ DOMAIN open'[w] = 1..Len(open[w]) - 1 /\ Len(open[w]) \in Nat /\ k \in 1..Len(open[w])
              /\ open' \in [Writers -> Seq(Seq(Rows))]
          BY <1>2 DEF Removed
        <5>2. Len(open[w]) <= spawn_limit /\ spawn_limit \in Nat
          BY <1>1, PersistorAssumption DEF HeldTypes
        <5>3. open'[w] \in Seq(Seq(Rows))
          BY <5>1
        <5>4. Len(open'[w]) = Len(open[w]) - 1
          <6>1. DOMAIN open'[w] = 1..Len(open'[w]) /\ Len(open'[w]) \in Nat
            BY <5>3
          <6>2. Len(open[w]) - 1 \in Nat
            BY <5>1
          <6> QED BY <5>1, <6>1, <6>2
        <5> QED BY <5>1, <5>2, <5>4
      <4>2. \A j \in DOMAIN open'[w] : open'[w][j] # <<>>
        BY <1>1, <1>2 DEF Removed, HeldTypes
      <4> QED BY <3>1, <4>1, <4>2
    <3>2. CASE v # w
      BY <1>1, <1>2, <3>2 DEF Removed, HeldTypes
    <3> QED BY <3>1, <3>2
  <2>3. queue' = queue /\ open' \in [Writers -> Seq(Seq(Rows))]
    BY <1>2 DEF Removed
  <2> QED BY <1>1, <2>1, <2>2, <2>3 DEF HeldTypes
<1>6. StackTypes'
  <2>1. \A v \in Writers, p \in Tags : tracing'[v][p] \in Seq(EntryOf(Offsets(p)))
    BY DoneStacks
  <2>2. DOMAIN d.tracing = Tags
    BY <1>4 DEF Finished
  <2> QED BY <1>1, <1>3, <2>1, <2>2 DEF StackTypes
<1>7. OffsetTypes'
  <2>1. position' = position
    BY <1>2 DEF Removed
  <2> QED BY <1>1, <1>3, <2>1 DEF OffsetTypes
<1>8. ReportTypes'
  <2>1. DOMAIN d.flag \subseteq Tags /\ d.flag = [p \in DOMAIN d.flag |-> d.flag[p]]
    BY <1>4, FlagType DEF Finished
  <2>2. ASSUME NEW p \in DOMAIN d.flag PROVE d.flag[p] \in Offsets(p) /\ d.flag[p] \in Nat
    <3>1. p \in DOMAIN watch'[w] /\ watch'[w] = d.flag /\ p \in Tags
      BY <1>1, <1>3, <2>1 DEF ReportTypes
    <3>2. watch'[w][p] \in Offsets(p)
      BY <3>1, DoneStacks
    <3> QED BY <3>1, <3>2, LogFacts
  <2>3. d.flag \in [DOMAIN d.flag -> Nat]
    BY <2>1, <2>2
  <2>4. d.flag \in Flags
    BY <2>1, <2>2, <2>3 DEF Flags
  <2>5. watch' \in [Writers -> Flags]
    BY <1>1, <1>3, <2>4 DEF ReportTypes
  <2>6. overwritten' \in [Writers -> SUBSET Tags]
    <3>1. watch[w] \in Flags /\ overwritten \in [Writers -> SUBSET Tags]
      BY <1>1 DEF ReportTypes
    <3>2. DOMAIN watch[w] \subseteq Tags
      BY <3>1, FlagType
    <3> QED BY <1>3, <3>1, <3>2
  <2>7. fresh' \in [Levels -> BOOLEAN]
    BY <1>1, <1>3 DEF ReportTypes
  <2> QED BY <1>1, <1>3, <2>5, <2>6, <2>7 DEF ReportTypes
<1>9. HistoryTypes'
  <2>1. stored' = stored \cup ToSet(rows) /\ exposed' = exposed /\ rows \in Seq(Rows)
    BY <1>2 DEF Removed
  <2>2. ToSet(rows) \subseteq Rows
    BY <2>1 DEF ToSet
  <2> QED BY <1>1, <1>3, <2>1, <2>2 DEF HistoryTypes
<1>10. (HeldTypes /\ StackTypes /\ OffsetTypes /\ ReportTypes /\ HistoryTypes => Types)'
  BY TypesParts, PTL
<1> QED BY <1>5, <1>6, <1>7, <1>8, <1>9, <1>10

\* Every level above passes a flag on.
LEMMA OutTypes ==
  ASSUME Types, NEW i \in Levels
  PROVE  \A j \in 1..i : Out(i)[j] \in Flags
<1> DEFINE S == {j \in 1..i : Out(i)[j] \in Flags}
<1>1. i \in Nat \ {0} /\ Levels = 1..Bottom /\ Bottom \in Nat /\ Chain[i] \in Writers
  BY ChainFacts
<1>2. watch[Chain[i]] \in Flags /\ \A j \in Levels : status[j] \in Marks
  BY <1>1 DEF Types
<1>3. i \in S
  <2>1. Seen(i) \in Flags
    BY <1>2, ResolvedType DEF Seen
  <2>2. Out(i)[i] = Seen(i)
    BY OutForm, Zenon
  <2> QED BY <1>1, <2>1, <2>2
<1>4. ASSUME NEW j \in 1..i - 1, j + 1 \in S PROVE j \in S
  <2>1. Out(i)[j] = Resolved(status[j], FALSE, Out(i)[j + 1])
    BY OutForm
  <2>2. j \in Levels /\ j \in 1..i
    BY <1>1
  <2>3. Resolved(status[j], FALSE, Out(i)[j + 1]) \in Flags
    BY <1>2, <1>4, <2>2, ResolvedType
  <2> QED BY <2>1, <2>2, <2>3
<1>5. 1..i \subseteq S
  <2> HIDE DEF S
  <2> QED BY <1>1, <1>3, <1>4, DownInduction
<1> QED BY <1>5

LEMMA CommitTypes ==
  ASSUME OffsetTypes, HistoryTypes, NEW f \in Flags, NEW ok \in BOOLEAN, Commit(f, ok)
  PROVE  /\ committed' \in [Tags -> Nat] /\ \A p \in Tags : committed'[p] <= Len(Log[p])
         /\ refused' \subseteq Tags /\ fails' \in Nat
         /\ \A p \in Tags : committed'[p] = committed[p] \/ (p \in DOMAIN f /\ committed'[p] = f[p] + 1)
<1>1. \A p \in DOMAIN f : p \in Tags /\ f[p] \in Nat /\ f[p] + 1 <= Len(Log[p])
  <2>1. \A p \in DOMAIN f : p \in Tags /\ f[p] \in Nat /\ f[p] \in Offsets(p)
    BY FlagType
  <2> QED BY <2>1, LogFacts DEF Offsets
<1>2. committed \in [Tags -> Nat] /\ (\A p \in Tags : committed[p] <= Len(Log[p])) /\ fails \in Nat
  BY DEF OffsetTypes
<1>3. refused \subseteq Tags
  BY DEF HistoryTypes
<1>4. CASE ok
  BY <1>1, <1>2, <1>3, <1>4 DEF Commit
<1>5. CASE ~ok
  BY <1>1, <1>2, <1>3, <1>5 DEF Commit
<1> QED BY <1>4, <1>5

LEMMA MergedForm ==
  ASSUME Types, NEW i \in Levels, NEW j \in Levels
  PROVE  /\ Merged(i, j) \in Marks
         /\ \A p \in DOMAIN Merged(i, j) :
              \/ p \in DOMAIN status[j] /\ Merged(i, j)[p] = status[j][p]
              \/ /\ j = i /\ p \in DOMAIN watch[Chain[i]]
                 /\ Merged(i, j)[p] = Item(TRUE, watch[Chain[i]][p])
              \/ /\ j < i /\ j + 1 \in 1..i /\ p \in DOMAIN Out(i)[j + 1]
                 /\ Merged(i, j)[p] = Item(FALSE, Out(i)[j + 1][p])
<1> DEFINE st == status[j]
<1>1. Levels = 1..Bottom /\ Bottom \in Nat /\ Chain[i] \in Writers
  BY ChainFacts
<1>2. watch[Chain[i]] \in Flags /\ st \in Marks
  BY <1>1 DEF Types
<1>3. CASE j = i
  <2>1. Merged(i, j) = merge(st, TRUE, watch[Chain[i]])
    BY <1>3 DEF Merged
  <2> HIDE DEF st
  <2>2. /\ merge(st, TRUE, watch[Chain[i]]) \in Marks
        /\ \A p \in DOMAIN merge(st, TRUE, watch[Chain[i]]) :
             \/ p \in DOMAIN st /\ merge(st, TRUE, watch[Chain[i]])[p] = st[p]
             \/ /\ p \in DOMAIN watch[Chain[i]]
                /\ merge(st, TRUE, watch[Chain[i]])[p] = Item(TRUE, watch[Chain[i]][p])
    BY <1>2, MergeType
  <2> QED BY <1>3, <2>1, <2>2 DEF st
<1>4. CASE j < i
  <2> DEFINE f == Out(i)[j + 1]
  <2>1. Merged(i, j) = merge(st, FALSE, f) /\ j + 1 \in 1..i
    <3>1. j # i /\ j + 1 \in 1..i
      BY <1>1, <1>4
    <3> QED BY <1>4, <3>1 DEF Merged
  <2>2. f \in Flags
    BY <2>1, OutTypes
  <2> HIDE DEF st, f
  <2>3. /\ merge(st, FALSE, f) \in Marks
        /\ \A p \in DOMAIN merge(st, FALSE, f) :
             \/ p \in DOMAIN st /\ merge(st, FALSE, f)[p] = st[p]
             \/ p \in DOMAIN f /\ merge(st, FALSE, f)[p] = Item(FALSE, f[p])
    BY <1>2, <2>2, MergeType
  <2> QED BY <1>4, <2>1, <2>3 DEF st, f
<1>5. CASE j > i
  <2>1. Merged(i, j) = st
    <3>1. j # i /\ ~(j < i)
      BY <1>1, <1>5
    <3> QED BY <3>1 DEF Merged
  <2> QED BY <1>2, <2>1, Zenon
<1>6. j = i \/ j < i \/ j > i
  BY <1>1
<1> QED BY <1>3, <1>4, <1>5, <1>6, Zenon

LEMMA ChangedTypes ==
  ASSUME Types, NEW i \in Levels, NEW ok \in BOOLEAN, Changed(i, ok)
  PROVE  Types'
<1>1. HeldTypes /\ StackTypes /\ OffsetTypes /\ ReportTypes /\ HistoryTypes
  BY TypesParts
<1>2. /\ phase' = phase /\ position' = position /\ rewinds' = rewinds /\ queue' = queue /\ open' = open
      /\ tracing' = tracing /\ stored' = stored /\ exposed' = exposed /\ reread' = reread
      /\ watch' = watch /\ overwritten' = overwritten
      /\ fresh' = [fresh EXCEPT ![i] = FALSE] /\ status' = [j \in Levels |-> Merged(i, j)]
      /\ Commit(Out(i)[1], ok)
  BY DEF Changed, writerVars, historyVars
<1>3. Out(i)[1] \in Flags
  <2>1. 1 \in 1..i
    BY ChainFacts
  <2> QED BY <2>1, OutTypes
<1>4. HeldTypes' /\ StackTypes'
  BY <1>1, <1>2, HeldTypesStay, StackTypesStay
<1>5. /\ committed' \in [Tags -> Nat] /\ \A p \in Tags : committed'[p] <= Len(Log[p])
      /\ refused' \subseteq Tags /\ fails' \in Nat
  <2> DEFINE f == Out(i)[1]
  <2>1. f \in Flags /\ Commit(f, ok)
    BY <1>2, <1>3
  <2> HIDE DEF f
  <2> QED BY <1>1, <2>1, CommitTypes
<1>6. OffsetTypes'
  BY <1>1, <1>2, <1>5 DEF OffsetTypes
<1>7. HistoryTypes'
  BY <1>1, <1>2, <1>5 DEF HistoryTypes
<1>8. ReportTypes'
  <2>1. \A j \in Levels : Merged(i, j) \in Marks
    BY MergedForm
  <2>2. status' \in [Levels -> Marks]
    BY <1>2, <2>1
  <2>3. fresh' \in [Levels -> BOOLEAN]
    BY <1>1, <1>2 DEF ReportTypes
  <2> QED BY <1>1, <1>2, <2>2, <2>3 DEF ReportTypes
<1>9. (HeldTypes /\ StackTypes /\ OffsetTypes /\ ReportTypes /\ HistoryTypes => Types)'
  BY TypesParts, PTL
<1> QED BY <1>4, <1>6, <1>7, <1>8, <1>9

LEMMA FinalTypes == Types => final_status \in Flags
<1> SUFFICES ASSUME Types PROVE final_status \in Flags
  OBVIOUS
<1> DEFINE st == status[1]
           D == DOMAIN st
<1>1. st \in Marks
  BY ChainFacts DEF Types
<1> HIDE DEF st
<1>2. D \subseteq Tags /\ \A p \in D : st[p].val \in Nat /\ st[p].val \in Offsets(p)
  BY <1>1, MarkType
<1>3. final_status = [p \in D |-> st[p].val]
  BY DEF final_status, st
<1> HIDE DEF D
<1>4. final_status \in [D -> Nat]
  BY <1>2, <1>3
<1> QED BY <1>2, <1>3, <1>4 DEF Flags

LEMMA FinalCommitTypes ==
  ASSUME Types, NEW ok \in BOOLEAN, FinalCommit(ok)
  PROVE  Types'
<1>1. HeldTypes /\ StackTypes /\ OffsetTypes /\ ReportTypes /\ HistoryTypes
  BY TypesParts
<1>2. /\ phase' = "down" /\ position' = position /\ rewinds' = rewinds /\ queue' = queue /\ open' = open
      /\ tracing' = tracing /\ stored' = stored /\ exposed' = exposed /\ reread' = reread
      /\ watch' = watch /\ overwritten' = overwritten /\ fresh' = fresh /\ status' = status
      /\ Commit(final_status, ok)
  BY DEF FinalCommit, writerVars, historyVars, watchVars
<1>3. HeldTypes' /\ StackTypes' /\ ReportTypes'
  BY <1>1, <1>2, HeldTypesStay, StackTypesStay DEF ReportTypes
<1>4. /\ committed' \in [Tags -> Nat] /\ \A p \in Tags : committed'[p] <= Len(Log[p])
      /\ refused' \subseteq Tags /\ fails' \in Nat
  BY <1>1, <1>2, FinalTypes, CommitTypes
<1>5. OffsetTypes' /\ HistoryTypes'
  BY <1>1, <1>2, <1>4 DEF OffsetTypes, HistoryTypes
<1>6. (HeldTypes /\ StackTypes /\ OffsetTypes /\ ReportTypes /\ HistoryTypes => Types)'
  BY TypesParts, PTL
<1> QED BY <1>3, <1>5, <1>6

LEMMA RestartTypes ==
  ASSUME Types, Restart
  PROVE  Types'
<1>1. HeldTypes /\ StackTypes /\ OffsetTypes /\ ReportTypes /\ HistoryTypes
  BY TypesParts
<1>2. /\ phase' = "run" /\ position' = committed /\ committed' = committed
      /\ queue' = [w \in Writers |-> <<>>] /\ open' = [w \in Writers |-> <<>>]
      /\ tracing' = [w \in Writers |-> [p \in Tags |-> <<>>]]
      /\ watch' = [w \in Writers |-> NoFlag] /\ fresh' = [i \in Levels |-> FALSE]
      /\ status' = [i \in Levels |-> NoFlag] /\ overwritten' = [w \in Writers |-> {}] /\ reread' = {}
      /\ stored' = stored /\ exposed' = exposed /\ refused' = refused /\ fails' = fails
      /\ rewinds' = rewinds + 1
  BY DEF Restart, Fresh
<1>3. HeldTypes'
  <2>1. \A w \in Writers : Held(w)' = {}
    BY StartEffect
  <2>2. \A w \in Writers : DOMAIN open'[w] = {}
    BY <1>2, EmptyTasks
  <2> QED BY <1>2, <2>1, <2>2, EmptyTasks DEF HeldTypes
<1>4. StackTypes'
  BY <1>2, EmptyTasks DEF StackTypes
<1>5. OffsetTypes'
  BY <1>1, <1>2 DEF OffsetTypes
<1>6. ReportTypes'
  BY <1>2, FreshTypes DEF ReportTypes
<1>7. HistoryTypes'
  BY <1>1, <1>2 DEF HistoryTypes
<1>8. (HeldTypes /\ StackTypes /\ OffsetTypes /\ ReportTypes /\ HistoryTypes => Types)'
  BY TypesParts, PTL
<1> QED BY <1>3, <1>4, <1>5, <1>6, <1>7, <1>8

\* Ctrl-C and the end of the writers change only the phase.
PhaseOnly ==
  /\ phase' \in {"run", "finishing", "finished", "down"}
  /\ UNCHANGED <<position, writerVars, historyVars, trackerVars, watchVars, rewinds>>

LEMMA PhaseTypes ==
  ASSUME Types, PhaseOnly
  PROVE  Types'
<1>1. HeldTypes /\ StackTypes /\ OffsetTypes /\ ReportTypes /\ HistoryTypes
  BY TypesParts
<1>2. /\ phase' \in {"run", "finishing", "finished", "down"}
      /\ position' = position /\ rewinds' = rewinds /\ queue' = queue /\ open' = open
      /\ tracing' = tracing /\ stored' = stored /\ exposed' = exposed /\ reread' = reread
      /\ watch' = watch /\ overwritten' = overwritten /\ fresh' = fresh /\ status' = status
      /\ committed' = committed /\ refused' = refused /\ fails' = fails
  BY DEF PhaseOnly, writerVars, historyVars, trackerVars, watchVars
<1>3. HeldTypes' /\ StackTypes' /\ ReportTypes' /\ OffsetTypes' /\ HistoryTypes'
  BY <1>1, <1>2, HeldTypesStay, StackTypesStay DEF ReportTypes, OffsetTypes, HistoryTypes
<1>4. (HeldTypes /\ StackTypes /\ OffsetTypes /\ ReportTypes /\ HistoryTypes => Types)'
  BY TypesParts, PTL
<1> QED BY <1>3, <1>4

(***************************************************************************)
(* Outside of a restart a row that is held stays held until it is stored,  *)
(* and no row becomes live again.                                          *)
(***************************************************************************)
Grows == stored \subseteq stored' /\ exposed \subseteq exposed'
Keeps == Grows /\ \A v \in Writers : Held(v) \subseteq Held(v)' \cup stored'
NoNewRows == \A v \in Writers : Held(v)' \subseteq Held(v)

\* The steps that touch no row and no stack.
Quiet == UNCHANGED <<position, queue, open, tracing, stored, exposed>>

LEMMA LiveFalls == ASSUME Grows, NEW r PROVE Live(r)' => Live(r)
BY DEF Live, Grows

LEMMA WrittenStays ==
  ASSUME Grows, NEW i, NEW p, NEW x, Written(i, p, x)
  PROVE  Written(i, p, x)'
BY LiveFalls DEF Written

LEMMA ReachedStays ==
  ASSUME Keeps, NEW p, NEW x, Reached(p, x)
  PROVE  Reached(p, x)'
<1> SUFFICES ASSUME NEW r \in Rows, Tag(r) = p, Off(r) <= x, Live(r)' PROVE r \in Held(To(r))'
  BY DEF Reached
<1>1. Live(r)
  BY LiveFalls DEF Keeps
<1>2. r \in Held(To(r)) /\ To(r) \in Writers
  BY <1>1, RowFacts DEF Reached
<1>3. r \notin stored'
  BY DEF Live
<1> QED BY <1>2, <1>3 DEF Keeps

LEMMA MessageKeeps ==
  ASSUME Types, NEW p \in Tags, OnMessage(p)
  PROVE  Keeps
<1> DEFINE m == <<p, position[p]>>
<1>1. /\ stored' = stored /\ exposed' = exposed
      /\ \A w \in Writers : Held(w)' = Held(w) \cup ToSet(NewRows(w, m))
  BY MessageEffect
<1> QED BY <1>1 DEF Keeps, Grows

LEMMA ResubscribeKeeps ==
  ASSUME NEW p, Resubscribe(p)
  PROVE  Keeps /\ NoNewRows /\ queue' = queue /\ open' = open /\ stored' = stored /\ tracing' = tracing
         /\ watch' = watch /\ status' = status /\ committed' = committed /\ phase' = phase
<1>1. /\ queue' = queue /\ open' = open /\ stored' = stored /\ tracing' = tracing /\ exposed \subseteq exposed'
      /\ watch' = watch /\ status' = status /\ committed' = committed /\ phase' = phase
  BY DEF Resubscribe, writerVars, watchVars, trackerVars
<1>2. \A v : Held(v)' = Held(v)
  BY <1>1, SameHeld
<1> QED BY <1>1, <1>2 DEF Keeps, Grows, NoNewRows

LEMMA SpawnKeeps ==
  ASSUME Types, NEW w \in Writers, NEW n \in Nat \ {0}, SpawnTask(w, n)
  PROVE  Keeps /\ NoNewRows /\ stored' = stored /\ position' = position
         /\ watch' = watch /\ status' = status /\ committed' = committed /\ phase' = phase
<1> DEFINE rows == SubSeq(queue[w], 1, n)
<1>1. Spawned(w, n, rows, Len(open[w]) + 1)
  BY SpawnEffect
<1> HIDE DEF rows
<1>2. /\ stored' = stored /\ exposed \subseteq exposed' /\ position' = position
      /\ \A v \in Writers : Held(v)' = Held(v)
  BY <1>1 DEF Spawned
<1>3. watch' = watch /\ status' = status /\ committed' = committed /\ phase' = phase
  BY DEF SpawnTask, watchVars, trackerVars
<1> QED BY <1>2, <1>3 DEF Keeps, Grows, NoNewRows

LEMMA DoneKeeps ==
  ASSUME Types, NEW w \in Writers, NEW k \in Nat \ {0}, TaskDone(w, k)
  PROVE  Keeps /\ NoNewRows /\ position' = position
         /\ status' = status /\ committed' = committed /\ phase' = phase
<1> DEFINE rows == open[w][k]
<1>1. Removed(w, k, rows)
  BY DoneEffect
<1> HIDE DEF rows
<1>2. /\ stored' = stored \cup ToSet(rows) /\ exposed' = exposed /\ position' = position
      /\ \A v \in Writers : Held(v)' \subseteq Held(v) /\ Held(v) \subseteq Held(v)' \cup ToSet(rows)
  BY <1>1 DEF Removed
<1>3. status' = status /\ committed' = committed /\ phase' = phase
  BY DEF TaskDone, trackerVars
<1> QED BY <1>2, <1>3 DEF Keeps, Grows, NoNewRows

LEMMA QuietKeeps ==
  ASSUME Quiet
  PROVE  Keeps /\ NoNewRows /\ (Order => Order') /\ (Stacks => Stacks') /\ (Coverage => Coverage')
<1>1. /\ position' = position /\ queue' = queue /\ open' = open /\ tracing' = tracing
      /\ stored' = stored /\ exposed' = exposed
  BY DEF Quiet
<1>2. \A w : InQueue(w)' = InQueue(w) /\ InOpen(w)' = InOpen(w) /\ Held(w)' = Held(w)
  BY <1>1, SameHeld
<1>3. \A w, k : InTask(w, k)' = InTask(w, k)
  BY <1>1, SameHeld
<1>4. \A r : Live(r)' <=> Live(r)
  BY <1>1 DEF Live
<1>5. \A p, x : Reached(p, x)' <=> Reached(p, x)
  BY <1>2, <1>4 DEF Reached
<1>6. Order => Order'
  <2> SUFFICES ASSUME Order, NEW w \in Writers
               PROVE  QueueAscends(w)' /\ QueueBehind(w)' /\ TasksAscend(w)' /\ LiveIsRead(w)'
    BY DEF Order
  <2>1. QueueAscends(w) /\ QueueBehind(w) /\ TasksAscend(w) /\ LiveIsRead(w)
    BY DEF Order
  <2>2. QueueAscends(w)'
    BY <1>1, <1>4, <2>1 DEF QueueAscends
  <2>3. QueueBehind(w)'
    BY <1>2, <1>4, <2>1 DEF QueueBehind
  <2>4. TasksAscend(w)'
    BY <1>1, <1>2, <1>3, <1>4, <2>1 DEF TasksAscend, TaskBetween
  <2>5. LiveIsRead(w)'
    BY <1>1, <1>2, <1>4, <2>1 DEF LiveIsRead
  <2> QED BY <2>2, <2>3, <2>4, <2>5
<1>7. Stacks => Stacks'
  <2> SUFFICES ASSUME Stacks, NEW w \in Writers, NEW p \in Tags
               PROVE  (Sorted(tracing[w][p]) /\ Balanced(w, p) /\ Marked(w, p))'
    BY DEF Stacks
  <2>1. Sorted(tracing[w][p]) /\ Balanced(w, p) /\ Marked(w, p)
    BY DEF Stacks
  <2>2. Balanced(w, p)'
    BY <1>1, <2>1 DEF Balanced
  <2>3. Marked(w, p)'
    BY <1>1, <1>2, <1>3, <1>4, <1>5, <2>1 DEF Marked, Above
  <2> QED BY <1>1, <2>1, <2>2, <2>3
<1>8. Coverage => Coverage'
  BY <1>1, <1>2, <1>5 DEF Coverage
<1>9. Keeps /\ NoNewRows
  BY <1>1, <1>2 DEF Keeps, Grows, NoNewRows
<1> QED BY <1>6, <1>7, <1>8, <1>9

(***************************************************************************)
(* Coverage, reports and marks of the steps that do not change them.       *)
(***************************************************************************)
LEMMA CoverageStays ==
  ASSUME Coverage, Keeps, NoNewRows, position' = position
  PROVE  Coverage'
<1>1. ASSUME NEW p \in Tags PROVE Reached(p, position[p] - 1)'
  <2>1. PICK x : x = position[p] - 1
    OBVIOUS
  <2>2. Reached(p, x)'
    BY <2>1, ReachedStays DEF Coverage
  <2> QED BY <2>1, <2>2
<1>2. ASSUME NEW w \in Writers, NEW r \in Held(w)' PROVE Reached(Tag(r), Off(r))'
  BY ReachedStays DEF Coverage, NoNewRows
<1> QED BY <1>1, <1>2 DEF Coverage

LEMMA ReportsStay ==
  ASSUME Reports, Keeps, watch' = watch
  PROVE  Reports'
<1> SUFFICES ASSUME NEW i \in Levels, NEW p \in DOMAIN watch[Chain[i]]
             PROVE  Written(i, p, watch[Chain[i]][p])' /\ Reached(p, watch[Chain[i]][p])'
  BY DEF Reports
<1> QED BY WrittenStays, ReachedStays DEF Reports, Keeps

LEMMA TrackersStay ==
  ASSUME Trackers, Keeps, status' = status
  PROVE  Trackers'
<1> SUFFICES ASSUME NEW i \in Levels, NEW p \in DOMAIN status[i]
    PROVE  (/\ Reached(p, status[i][p].val)
            /\ status[i][p].left => Written(i, p, status[i][p].val)
            /\ ~status[i][p].left => \A j \in Levels : j > i => Written(j, p, status[i][p].val))'
  BY DEF Trackers
<1>1. PICK x : x = status[i][p]
  OBVIOUS
<1>2. /\ Reached(p, x.val) /\ (x.left => Written(i, p, x.val))
      /\ ~x.left => \A j \in Levels : j > i => Written(j, p, x.val)
  BY <1>1 DEF Trackers
<1>3. Reached(p, x.val)'
  BY <1>2, ReachedStays
<1>4. x.left => Written(i, p, x.val)'
  BY <1>2, WrittenStays DEF Keeps
<1>5. ASSUME ~x.left, NEW j \in Levels, j > i PROVE Written(j, p, x.val)'
  BY <1>2, <1>5, WrittenStays DEF Keeps
<1> QED BY <1>1, <1>3, <1>4, <1>5

LEMMA CommittedStays ==
  ASSUME Committed, Grows, committed' = committed
  PROVE  Committed'
BY LiveFalls DEF Committed

(***************************************************************************)
(* Order.                                                                  *)
(***************************************************************************)
Ordered(w) == QueueAscends(w) /\ QueueBehind(w) /\ TasksAscend(w) /\ LiveIsRead(w)

LEMMA OrderedAll == Order <=> \A v \in Writers : Ordered(v)
BY DEF Order, Ordered

LEMMA OrderedNext ==
  ASSUME \A v \in Writers : Ordered(v)'
  PROVE  Order'
BY DEF Order, Ordered

LEMMA OrderStays ==
  ASSUME Grows, NEW w \in Writers, Ordered(w), queue'[w] = queue[w], open'[w] = open[w],
         \A r \in Held(w) : Live(r)' => position'[Tag(r)] = position[Tag(r)]
  PROVE  Ordered(w)'
<1>1. QueueAscends(w) /\ QueueBehind(w) /\ TasksAscend(w) /\ LiveIsRead(w)
  BY DEF Ordered
<1>2. /\ InQueue(w)' = InQueue(w) /\ InOpen(w)' = InOpen(w) /\ Held(w)' = Held(w)
      /\ \A k : InTask(w, k)' = InTask(w, k)
  BY SameHeldBy
<1>3. \A r : Live(r)' => Live(r)
  BY LiveFalls
<1>4. QueueAscends(w)'
  BY <1>1, <1>3 DEF QueueAscends
<1>5. QueueBehind(w)'
  BY <1>1, <1>2, <1>3 DEF QueueBehind
<1>6. TasksAscend(w)'
  BY <1>1, <1>2, <1>3 DEF TasksAscend, TaskBetween
<1>7. LiveIsRead(w)'
  BY <1>1, <1>2, <1>3 DEF LiveIsRead
<1> QED BY <1>4, <1>5, <1>6, <1>7 DEF Ordered

\* A message whose rows can still be live is above everything that is held.
LEMMA NewIsAbove ==
  ASSUME Types, Order, Coverage, NEW r \in Rows, Live(r), Off(r) = position[Tag(r)],
         NEW w \in Writers, NEW q \in Held(w), Same(q, r)
  PROVE  Off(q) < Off(r)
<1>1. q \in Rows
  BY TypesShape DEF Shapes
<1>2. Off(q) \in Nat /\ Off(r) \in Nat /\ To(r) \in Writers
  BY <1>1, RowFacts
<1> SUFFICES ASSUME Off(r) <= Off(q) PROVE FALSE
  BY <1>2
<1>3. r \in Held(To(r))
  BY DEF Coverage, Reached, Same
<1>4. Off(r) < position[Tag(r)]
  BY <1>2, <1>3 DEF Order, LiveIsRead, Same
<1> QED BY <1>2, <1>4

LEMMA MessageOrder ==
  ASSUME Types, Order, Coverage, NEW p \in Tags, OnMessage(p)
  PROVE  Order'
<1> SUFFICES ASSUME NEW w \in Writers PROVE Ordered(w)'
  BY OrderedNext
<1>1. PICK m : m = <<p, position[p]>>
  OBVIOUS
<1> DEFINE N == NewRows(w, m)
           q == queue[w]
           L == Len(q)
           x == m[2]
<1>2. m[1] = p /\ x = position[p] /\ x \in Nat
  <2>1. position[p] \in Nat
    BY DEF Types
  <2> QED BY <1>1, <2>1
<1>3. /\ open' = open /\ stored' = stored /\ exposed' = exposed
      /\ position' = [position EXCEPT ![p] = position[p] + 1]
      /\ queue'[w] = q \o N
      /\ InQueue(w)' = InQueue(w) \cup ToSet(N)
      /\ InOpen(w)' = InOpen(w) /\ Held(w)' = Held(w) \cup ToSet(N)
  BY <1>1, MessageEffect
<1>4. /\ N \in Seq(Rows) /\ \A j \in DOMAIN N : N[j].msg = m /\ N[j] \in Rows /\ N[j] \in ToSet(N)
      /\ \A j, l \in DOMAIN N : j < l => N[j].level < N[l].level
      /\ \A r \in ToSet(N) : r \in Rows /\ r.msg = m /\ Tag(r) = p /\ Off(r) = x
  BY <1>2, NewRowsFacts DEF Tag, Off, ToSet
<1>5. /\ q \in Seq(Rows) /\ DOMAIN q = 1..L /\ L \in Nat /\ \A i \in DOMAIN q : q[i] \in Held(w)
      /\ InQueue(w) \subseteq Held(w) /\ InOpen(w) \subseteq Held(w) /\ Held(w) \subseteq Rows
      /\ \A k \in DOMAIN open[w] : InTask(w, k) \subseteq Held(w)
  BY TypesShape DEF Shapes
<1>6. QueueAscends(w) /\ QueueBehind(w) /\ TasksAscend(w) /\ LiveIsRead(w)
  BY DEF Order
<1>7. \A r : Live(r)' <=> Live(r)
  BY <1>3 DEF Live
<1>8. \A k : InTask(w, k)' = InTask(w, k)
  BY <1>3 DEF InTask
\* What was held is below the new rows, when one of them or of the others is live.
<1>9. ASSUME NEW r \in Held(w)', Live(r), Tag(r) = p, NEW s \in Held(w), Tag(s) = p
      PROVE  Off(s) < x
  <2>1. CASE r \in Held(w)
    BY <1>2, <1>6, <1>9, <2>1 DEF LiveIsRead, Same
  <2>2. CASE r \in ToSet(N)
    <3>1. r \in Rows /\ Off(r) = position[Tag(r)] /\ Same(s, r)
      BY <1>2, <1>4, <1>9, <2>2 DEF Same
    <3> QED BY <1>2, <1>9, <3>1, NewIsAbove
  <2> QED BY <1>3, <2>1, <2>2
<1>10. DOMAIN queue'[w] = 1..L + Len(N) /\ Len(N) \in Nat
       /\ \A i \in 1..L + Len(N) :
            /\ i <= L => i \in DOMAIN q /\ queue'[w][i] = q[i]
            /\ i > L => i - L \in DOMAIN N /\ queue'[w][i] = N[i - L]
  <2>1. /\ DOMAIN (q \o N) = 1..Len(q) + Len(N) /\ Len(N) \in Nat /\ DOMAIN N = 1..Len(N)
        /\ \A i \in 1..Len(q) + Len(N) : (q \o N)[i] = IF i <= Len(q) THEN q[i] ELSE N[i - Len(q)]
    <3>1. q \in Seq(Rows) /\ N \in Seq(Rows)
      BY <1>4, <1>5
    <3> HIDE DEF q, N
    <3> QED BY <3>1, Joined
  <2> HIDE DEF q, N
  <2> QED BY <1>3, <1>5, <2>1
<1> DEFINE t == queue'[w]
<1>11. ASSUME NEW i \in DOMAIN t
       PROVE  \/ i \in DOMAIN q /\ i <= L /\ t[i] = q[i] /\ t[i] \in Held(w) /\ t[i] \in Rows
              \/ /\ i > L /\ i - L \in DOMAIN N /\ t[i] = N[i - L] /\ t[i] \in Rows
                 /\ Tag(t[i]) = p /\ Off(t[i]) = x /\ t[i] \in Held(w)' /\ t[i] \in ToSet(N)
  <2> HIDE DEF q, N, L
  <2>1. i \in 1..L + Len(N) /\ L \in Nat /\ Len(N) \in Nat
    BY <1>5, <1>10
  <2>2. CASE i <= L
    <3>1. i \in DOMAIN q
      BY <1>10, <2>1, <2>2
    <3>2. t[i] = q[i]
      BY <1>10, <2>1, <2>2
    <3> HIDE DEF t
    <3> QED BY <1>5, <2>2, <3>1, <3>2
  <2>3. CASE i > L
    <3>1. i - L \in DOMAIN N /\ t[i] = N[i - L]
      BY <1>10, <2>1, <2>3
    <3> HIDE DEF t
    <3>2. t[i] \in ToSet(N)
      BY <1>4, <3>1
    <3> QED BY <1>3, <1>4, <2>3, <3>1, <3>2
  <2> QED BY <2>1, <2>2, <2>3
<1>12. DOMAIN t \subseteq Int /\ L \in Int
  BY <1>5, <1>10
<1> HIDE DEF t, q, N, L, x
\* Two rows of the queue of which the second is new.
<1>13. ASSUME NEW i \in DOMAIN t, NEW j \in DOMAIN t, NEW l \in DOMAIN t,
              Live(t[i]), Same(t[j], t[i]), Same(t[l], t[i]), j < l, l > L
       PROVE  Precedes(t[j], t[l])
  <2>1. Tag(t[i]) = p /\ Tag(t[j]) = p /\ Off(t[l]) = x /\ t[l] = N[l - L] /\ l - L \in DOMAIN N
    BY <1>11, <1>12, <1>13 DEF Same
  <2>2. CASE j <= L
    <3>1. t[j] \in Held(w)
      BY <1>11, <1>12, <2>2
    <3>2. t[i] \in Held(w)'
      BY <1>3, <1>11
    <3> QED BY <1>9, <1>13, <2>1, <3>1, <3>2 DEF Precedes
  <2>3. CASE j > L
    <3>1. t[j] = N[j - L] /\ j - L \in DOMAIN N /\ Off(t[j]) = x /\ j - L < l - L
      BY <1>11, <1>12, <1>13, <2>3
    <3>2. t[j].level < t[l].level
      BY <1>4, <2>1, <3>1
    <3> QED BY <2>1, <3>1, <3>2 DEF Precedes
  <2> QED BY <1>12, <2>2, <2>3
<1>14. QueueAscends(w)'
  <2> SUFFICES ASSUME NEW i \in DOMAIN t, Live(t[i])
               PROVE  /\ \A j \in DOMAIN t : j < i /\ Same(t[j], t[i]) => Precedes(t[j], t[i])
                      /\ \A j, l \in DOMAIN t :
                           i <= j /\ j < l /\ Same(t[j], t[i]) /\ Same(t[l], t[i])
                              => Precedes(t[j], t[l])
    BY <1>7 DEF QueueAscends, t
  <2>1. Same(t[i], t[i])
    BY DEF Same
  <2>2. ASSUME NEW j \in DOMAIN t, j < i, Same(t[j], t[i]) PROVE Precedes(t[j], t[i])
    <3>1. CASE i <= L
      <4>1. j <= L
        BY <1>12, <2>2, <3>1
      <4>2. i \in DOMAIN q /\ t[i] = q[i] /\ j \in DOMAIN q /\ t[j] = q[j]
        BY <1>11, <1>12, <3>1, <4>1
      <4> QED BY <1>6, <2>2, <4>2 DEF QueueAscends, q
    <3>2. CASE i > L
      BY <1>13, <2>1, <2>2, <3>2
    <3> QED BY <1>12, <3>1, <3>2
  <2>3. ASSUME NEW j \in DOMAIN t, NEW l \in DOMAIN t, i <= j, j < l, Same(t[j], t[i]), Same(t[l], t[i])
        PROVE  Precedes(t[j], t[l])
    <3>1. CASE l <= L
      <4>1. j <= L /\ i <= L
        BY <1>12, <2>3, <3>1
      <4>2. i \in DOMAIN q /\ t[i] = q[i] /\ j \in DOMAIN q /\ t[j] = q[j] /\ l \in DOMAIN q /\ t[l] = q[l]
        BY <1>11, <1>12, <3>1, <4>1
      <4> QED BY <1>6, <2>3, <4>2 DEF QueueAscends, q
    <3>2. CASE l > L
      BY <1>13, <2>3, <3>2
    <3> QED BY <1>12, <3>1, <3>2
  <2> QED BY <2>2, <2>3
<1>15. QueueBehind(w)'
  <2> SUFFICES ASSUME NEW r \in InQueue(w)', Live(r), NEW s \in InOpen(w), Same(s, r)
               PROVE  Off(s) < Off(r)
    BY <1>3, <1>7 DEF QueueBehind
  <2>1. CASE r \in InQueue(w)
    BY <1>6, <2>1 DEF QueueBehind
  <2>2. CASE r \in ToSet(N)
    BY <1>3, <1>4, <1>5, <1>9, <2>2 DEF Same
  <2> QED BY <1>3, <2>1, <2>2
<1>16. TasksAscend(w)'
  <2> SUFFICES ASSUME NEW k \in DOMAIN open[w], NEW r \in InTask(w, k), Live(r)
               PROVE  TaskBetween(w, k, r)'
    BY <1>3, <1>7, <1>8 DEF TasksAscend
  <2>1. TaskBetween(w, k, r)
    BY <1>6 DEF TasksAscend
  <2>2. ASSUME NEW u \in InQueue(w)', NEW s \in InTask(w, k), Same(u, r), Same(s, r)
        PROVE  Off(s) < Off(u)
    <3>1. CASE u \in InQueue(w)
      BY <2>1, <2>2, <3>1 DEF TaskBetween
    <3>2. CASE u \in ToSet(N)
      <4>1. r \in Held(w)' /\ s \in Held(w) /\ Tag(r) = p /\ Tag(s) = p /\ Off(u) = x
        BY <1>3, <1>4, <1>5, <2>2, <3>2 DEF Same
      <4> QED BY <1>9, <4>1
    <3> QED BY <1>3, <2>2, <3>1, <3>2
  <2> QED BY <1>3, <1>8, <2>1, <2>2 DEF TaskBetween
<1>17. LiveIsRead(w)'
  <2> SUFFICES ASSUME NEW r \in Held(w)', Live(r), NEW s \in Held(w)', Same(s, r)
               PROVE  Off(s) < position'[Tag(r)]
    BY <1>7 DEF LiveIsRead
  <2>1. position \in [Tags -> Nat] /\ r \in Rows /\ s \in Rows /\ Off(s) \in Nat /\ Tag(r) \in Tags
    BY <1>3, <1>4, <1>5, RowFacts DEF Types
  <2>2. CASE Tag(r) # p
    <3>1. r \in Held(w) /\ s \in Held(w) /\ position'[Tag(r)] = position[Tag(r)]
      BY <1>3, <1>4, <2>1, <2>2 DEF Same
    <3> QED BY <1>6, <3>1 DEF LiveIsRead
  <2>3. CASE Tag(r) = p
    <3>1. position'[Tag(r)] = x + 1
      BY <1>2, <1>3, <2>1, <2>3
    <3>2. CASE s \in Held(w)
      BY <1>2, <1>9, <2>1, <2>3, <3>1, <3>2 DEF Same
    <3>3. CASE s \in ToSet(N)
      BY <1>2, <1>4, <3>1, <3>3
    <3> QED BY <1>3, <3>2, <3>3
  <2> QED BY <2>2, <2>3
<1> QED BY <1>14, <1>15, <1>16, <1>17 DEF Ordered

\* All that is held of a partition is exposed when it is read again.
LEMMA RereadExposes ==
  ASSUME Types, NEW p, Resubscribe(p), NEW w \in Writers, NEW r \in Held(w), Live(r)'
  PROVE  Tag(r) # p
<1>1. exposed' = exposed \cup Waiting(p)
  BY DEF Resubscribe
<1>2. r \in Rows
  BY TypesShape DEF Shapes
<1>3. r.msg \in Good
  BY <1>2, RowFacts
<1>4. \E v \in Writers : r \in ToSet(queue[v]) \/ \E k \in DOMAIN open[v] : r \in ToSet(open[v][k])
  BY DEF Held, InQueue, InOpen, InTask
<1>5. ASSUME Tag(r) = p PROVE r.msg \in Waiting(p)
  BY <1>2, <1>3, <1>4, <1>5 DEF Waiting, Tag
<1> QED BY <1>1, <1>5 DEF Live

LEMMA ResubscribeOrder ==
  ASSUME Types, Order, NEW p \in Tags, Resubscribe(p)
  PROVE  Order'
<1>2. Grows /\ queue' = queue /\ open' = open
  BY ResubscribeKeeps DEF Keeps
<1>3. position' = [position EXCEPT ![p] = committed[p]] /\ position \in [Tags -> Nat]
  BY DEF Resubscribe, Types
<1>4. ASSUME NEW w \in Writers PROVE Ordered(w)'
  <2>1. ASSUME NEW r \in Held(w), Live(r)' PROVE position'[Tag(r)] = position[Tag(r)]
    <3>1. Tag(r) # p
      BY <2>1, RereadExposes
    <3>2. Tag(r) \in Tags
      BY TypesShape, RowFacts DEF Shapes
    <3> QED BY <1>3, <3>1, <3>2
  <2>2. Ordered(w)
    BY OrderedAll
  <2> QED BY <1>2, <2>1, <2>2, OrderStays
<1> QED BY OrderedNext, <1>4

\* A queue and tasks that are empty.
LEMMA EmptyOrder ==
  ASSUME queue = [w \in Writers |-> <<>>], open = [w \in Writers |-> <<>>]
  PROVE  Order /\ \A w \in Writers : Held(w) = {}
<1>1. \A w \in Writers : DOMAIN queue[w] = {} /\ DOMAIN open[w] = {} /\ ToSet(queue[w]) = {}
  BY EmptyTasks
<1>2. \A w \in Writers : InQueue(w) = {} /\ InOpen(w) = {} /\ Held(w) = {}
  BY <1>1 DEF Held, InQueue, InOpen
<1>3. \A w \in Writers : QueueAscends(w) /\ QueueBehind(w) /\ TasksAscend(w) /\ LiveIsRead(w)
  BY <1>1, <1>2 DEF QueueAscends, QueueBehind, TasksAscend, LiveIsRead
<1> QED BY <1>2, <1>3 DEF Order

\* The second row of a message is not in the task: all messages of the task are
\* exposed.
LEMMA TornExposes ==
  ASSUME NEW w \in Writers, NEW rows \in Seq(Rows), NEW s \in ToSet(rows), NEW q \in Rows,
         q \notin ToSet(rows), To(s) = w, To(q) = w, Same(s, q), Precedes(s, q), ~(Off(s) < Off(q))
  PROVE  /\ s.msg = q.msg /\ \A r \in ToSet(rows) : r.msg \in Exposed(w, rows)
<1>1. s \in Rows
  BY DEF ToSet
<1>2. /\ s.msg \in Good /\ s.level \in Levels /\ s = Row(s.msg, s.level) /\ Off(s) \in Nat
      /\ q.level \in Levels /\ q = Row(q.msg, q.level) /\ Off(q) \in Nat
  BY <1>1, RowFacts
<1>3. Off(s) = Off(q) /\ s.level < q.level
  BY <1>2 DEF Precedes
<1>4. s.msg = q.msg
  BY <1>1, <1>3, Twins
<1>5. s.msg \in Torn(w, rows)
  BY <1>2, <1>3, <1>4 DEF Torn, To
<1> QED BY <1>4, <1>5 DEF Exposed

LEMMA SpawnOrder ==
  ASSUME Types, Order, NEW w \in Writers, NEW n \in Nat \ {0}, SpawnTask(w, n)
  PROVE  Order'
<1>1. PICK rows, L : rows = SubSeq(queue[w], 1, n) /\ L = Len(open[w]) + 1
  OBVIOUS
<1>2. Spawned(w, n, rows, L) /\ Grows
  <2>1. Spawned(w, n, rows, L)
    BY <1>1, SpawnEffect
  <2> QED BY <2>1, SpawnKeeps DEF Keeps
<1>4. QueueAscends(w) /\ QueueBehind(w) /\ TasksAscend(w) /\ LiveIsRead(w)
  BY DEF Order
<1>5. \A r : Live(r)' => Live(r)
  BY <1>2, LiveFalls
<1> DEFINE q == queue[w]
           t == queue'[w]
           M == Len(q)
<1>6. /\ q \in Seq(Rows) /\ DOMAIN q = 1..M /\ M \in Nat
      /\ \A i \in DOMAIN q : q[i] \in Rows /\ To(q[i]) = w
      /\ InQueue(w) = ToSet(q) /\ InQueue(w) \subseteq Rows
      /\ \A k \in DOMAIN open[w] : InTask(w, k) \subseteq InOpen(w)
  <2>1. \A i \in DOMAIN q : q[i] \in Held(w)
    BY TypesShape DEF Shapes
  <2> QED BY <2>1, TypesShape DEF Shapes, InQueue
<1>7. /\ rows \in Seq(Rows) /\ DOMAIN rows = 1..n
      /\ \A i \in 1..n : rows[i] = q[i] /\ i \in DOMAIN q
      /\ DOMAIN t = 1..M - n
      /\ \A i \in DOMAIN t : t[i] = q[i + n] /\ i + n \in DOMAIN q
  BY <1>2 DEF Spawned
<1>8. /\ InTask(w, L)' = ToSet(rows) /\ \A k \in DOMAIN open[w] : InTask(w, k)' = InTask(w, k)
      /\ InQueue(w) = ToSet(rows) \cup InQueue(w)' /\ InOpen(w)' = InOpen(w) \cup ToSet(rows)
      /\ Held(w)' = Held(w) /\ position' = position /\ exposed' = exposed \cup Exposed(w, rows)
  BY <1>2 DEF Spawned
<1>9. /\ DOMAIN open'[w] = 1..L /\ L \in Nat /\ DOMAIN open[w] = 1..L - 1
      /\ \A k \in DOMAIN open'[w] : k = L \/ k \in DOMAIN open[w]
  BY <1>2 DEF Spawned
<1>10. ASSUME NEW s \in ToSet(rows) PROVE \E j \in 1..n : j \in DOMAIN q /\ s = q[j]
  BY <1>7 DEF ToSet
<1>11. ASSUME NEW u \in InQueue(w)' PROVE \E l \in DOMAIN q : l > n /\ u = q[l]
  <2>1. PICK i \in DOMAIN t : u = t[i]
    BY DEF InQueue, ToSet
  <2>2. i + n \in DOMAIN q /\ u = q[i + n] /\ i + n > n
    BY <1>6, <1>7, <2>1
  <2> QED BY <2>2
<1> HIDE DEF t, M
\* A live row in the task or behind it, and two rows that the task separates.
<1>12. ASSUME NEW i \in DOMAIN q, NEW z, z = q[i], Live(z)', NEW j \in 1..n, NEW l \in DOMAIN q, l > n,
              Same(q[j], q[i]), Same(q[l], q[i]), i <= n \/ i = l
       PROVE  Off(q[j]) < Off(q[l])
  <2>1. j \in DOMAIN q /\ i \in Int /\ j \in Int /\ l \in Int /\ Live(q[i]) /\ Same(q[i], q[i])
    <3>1. Live(z)
      BY <1>5, <1>12
    <3> QED BY <1>6, <1>7, <1>12, <3>1 DEF Same
  <2>2. /\ \A a \in DOMAIN q : a < i /\ Same(q[a], q[i]) => Precedes(q[a], q[i])
        /\ \A a, b \in DOMAIN q : i <= a /\ a < b /\ Same(q[a], q[i]) /\ Same(q[b], q[i])
                                    => Precedes(q[a], q[b])
    BY <1>4, <2>1 DEF QueueAscends
  <2>3. ASSUME NEW a \in 1..n, Same(q[a], q[i]) PROVE Precedes(q[a], q[l])
    <3>1. a \in DOMAIN q /\ a \in Int /\ a < l
      BY <1>7, <1>12, <2>1
    <3>2. CASE i = l
      BY <2>2, <2>3, <3>1, <3>2
    <3>3. CASE i <= n /\ i <= a
      BY <1>12, <2>2, <2>3, <3>1, <3>3
    <3>4. CASE i <= n /\ a < i
      <4>1. Precedes(q[a], q[i]) /\ Precedes(q[i], q[l])
        BY <1>12, <2>1, <2>2, <2>3, <3>1, <3>4
      <4> QED BY <1>6, <3>1, <4>1, PrecedesOrders
    <3> QED BY <1>12, <2>1, <3>1, <3>2, <3>3, <3>4
  <2>4. q[l] \notin ToSet(rows)
    <3> SUFFICES ASSUME q[l] \in ToSet(rows) PROVE FALSE
      OBVIOUS
    <3>1. PICK a \in 1..n : q[l] = q[a]
      BY <1>10
    <3>2. Precedes(q[l], q[l])
      BY <1>12, <2>3, <3>1
    <3> QED BY <1>6, <3>2, PrecedesOrders
  <2>5. q[j] \in ToSet(rows) /\ Precedes(q[j], q[l])
    BY <1>7, <1>12, <2>3 DEF ToSet
  <2> SUFFICES ASSUME ~(Off(q[j]) < Off(q[l])) PROVE FALSE
    OBVIOUS
  <2>6. q[j].msg = q[l].msg /\ \A r \in ToSet(rows) : r.msg \in Exposed(w, rows)
    <3>1. q[l] \in Rows /\ To(q[l]) = w /\ To(q[j]) = w /\ Same(q[j], q[l])
      BY <1>6, <1>12, <2>1 DEF Same
    <3> QED BY <1>7, <2>4, <2>5, <3>1, TornExposes
  <2>7. q[i].msg \in Exposed(w, rows)
    <3>1. CASE i = l
      BY <2>5, <2>6, <3>1
    <3>2. CASE i <= n
      <4>1. i \in 1..n /\ rows[i] = q[i]
        BY <1>6, <1>7, <3>2
      <4>2. q[i] \in ToSet(rows)
        BY <1>7, <4>1 DEF ToSet
      <4> QED BY <2>6, <4>2
    <3> QED BY <1>12, <3>1, <3>2
  <2> QED BY <1>8, <1>12, <2>7 DEF Live
<1>13. QueueAscends(w)'
  <2> SUFFICES ASSUME NEW i \in DOMAIN t, Live(t[i])
               PROVE  /\ \A j \in DOMAIN t : j < i /\ Same(t[j], t[i]) => Precedes(t[j], t[i])
                      /\ \A j, l \in DOMAIN t :
                           i <= j /\ j < l /\ Same(t[j], t[i]) /\ Same(t[l], t[i])
                              => Precedes(t[j], t[l])
    BY <1>5 DEF QueueAscends, t
  <2>1. \A j \in DOMAIN t : j \in Int /\ j + n \in DOMAIN q /\ t[j] = q[j + n]
    BY <1>7
  <2>2. \A j, l \in DOMAIN t : (j < l => j + n < l + n) /\ (j <= l => j + n <= l + n)
    BY <2>1
  <2> QED BY <1>4, <2>1, <2>2 DEF QueueAscends
<1>14. QueueBehind(w)'
  <2> SUFFICES ASSUME NEW r \in InQueue(w)', Live(r)', NEW s \in InOpen(w)', Same(s, r)
               PROVE  Off(s) < Off(r)
    BY DEF QueueBehind
  <2>1. CASE s \in InOpen(w)
    <3>1. r \in InQueue(w) /\ Live(r)
      BY <1>5, <1>8
    <3> QED BY <1>4, <2>1, <3>1 DEF QueueBehind
  <2>2. CASE s \in ToSet(rows)
    <3>1. PICK j \in 1..n : s = q[j]
      BY <1>10, <2>2
    <3>2. PICK l \in DOMAIN q : l > n /\ r = q[l]
      BY <1>11
    <3>3. Same(q[j], q[l]) /\ Same(q[l], q[l])
      BY <3>1, <3>2 DEF Same
    <3> QED BY <1>12, <3>1, <3>2, <3>3
  <2> QED BY <1>8, <2>1, <2>2
<1>15. TasksAscend(w)'
  <2> SUFFICES ASSUME NEW k \in DOMAIN open'[w], NEW r \in InTask(w, k)', Live(r)'
               PROVE  TaskBetween(w, k, r)'
    BY DEF TasksAscend
  <2>1. CASE k \in DOMAIN open[w]
    <3>1. TaskBetween(w, k, r) /\ InTask(w, k)' = InTask(w, k)
      BY <1>4, <1>5, <1>8, <2>1 DEF TasksAscend
    <3>2. ASSUME NEW u \in InQueue(w)', NEW s \in InTask(w, k)', Same(u, r), Same(s, r)
          PROVE  Off(s) < Off(u)
      BY <1>8, <3>1, <3>2 DEF TaskBetween
    <3>3. ASSUME NEW l \in DOMAIN open'[w], NEW u \in InTask(w, l)', l < k, Same(u, r)
          PROVE  Off(u) < Off(r)
      <4>1. l \in DOMAIN open[w]
        BY <1>9, <2>1, <3>3
      <4> QED BY <1>8, <3>1, <3>3, <4>1 DEF TaskBetween
    <3>4. ASSUME NEW l \in DOMAIN open'[w], NEW u \in InTask(w, l)', NEW s \in InTask(w, k)',
                 l > k, Same(u, r), Same(s, r)
          PROVE  Off(s) < Off(u)
      <4>1. CASE l \in DOMAIN open[w]
        BY <1>8, <3>1, <3>4, <4>1 DEF TaskBetween
      <4>2. CASE l = L
        BY <1>8, <3>1, <3>4, <4>2 DEF TaskBetween
      <4> QED BY <1>9, <4>1, <4>2
    <3> QED BY <3>2, <3>3, <3>4 DEF TaskBetween
  <2>2. CASE k = L
    <3>1. r \in ToSet(rows)
      BY <1>8, <2>2
    <3>2. PICK i \in 1..n : i \in DOMAIN q /\ r = q[i]
      BY <1>10, <3>1
    <3>3. ASSUME NEW u \in InQueue(w)', NEW s \in InTask(w, k)', Same(u, r), Same(s, r)
          PROVE  Off(s) < Off(u)
      <4>1. PICK j \in 1..n : s = q[j]
        BY <1>8, <1>10, <2>2
      <4>2. PICK l \in DOMAIN q : l > n /\ u = q[l]
        BY <1>11
      <4>3. i <= n /\ Same(q[j], q[i]) /\ Same(q[l], q[i])
        BY <3>2, <3>3, <4>1, <4>2
      <4> QED BY <1>12, <3>2, <4>1, <4>2, <4>3
    <3>4. ASSUME NEW l \in DOMAIN open'[w], NEW u \in InTask(w, l)', l < k, Same(u, r)
          PROVE  Off(u) < Off(r)
      <4>1. l \in DOMAIN open[w]
        BY <1>9, <2>2, <3>4
      <4>2. u \in InOpen(w) /\ r \in InQueue(w)
        BY <1>6, <1>8, <3>1, <4>1
      <4> QED BY <1>4, <1>5, <3>4, <4>2 DEF QueueBehind
    <3>5. \A l \in DOMAIN open'[w] : ~(l > k)
      BY <1>9, <2>2
    <3> QED BY <3>3, <3>4, <3>5 DEF TaskBetween
  <2> QED BY <1>9, <2>1, <2>2
<1>16. LiveIsRead(w)'
  BY <1>4, <1>5, <1>8 DEF LiveIsRead
<1>17. Ordered(w)'
  BY <1>13, <1>14, <1>15, <1>16 DEF Ordered
<1>18. ASSUME NEW v \in Writers, v # w PROVE Ordered(v)'
  <2>1. queue'[v] = queue[v] /\ open'[v] = open[v] /\ position' = position
    BY <1>2, <1>18 DEF Spawned
  <2>2. Ordered(v)
    BY OrderedAll
  <2> QED BY <1>2, <2>1, <2>2, OrderStays
<1> QED BY OrderedNext, <1>17, <1>18

LEMMA DoneOrder ==
  ASSUME Types, Order, NEW w \in Writers, NEW k \in Nat \ {0}, TaskDone(w, k)
  PROVE  Order'
<1>1. PICK rows : rows = open[w][k]
  OBVIOUS
<1>2. Removed(w, k, rows) /\ Grows /\ position' = position
  <2>1. Removed(w, k, rows)
    BY <1>1, DoneEffect
  <2> QED BY <2>1, DoneKeeps DEF Keeps
<1>4. QueueAscends(w) /\ QueueBehind(w) /\ TasksAscend(w) /\ LiveIsRead(w)
  BY DEF Order
<1>5. \A r : Live(r)' => Live(r)
  BY <1>2, LiveFalls
<1>6. /\ queue' = queue /\ InQueue(w)' = InQueue(w) /\ Held(w)' \subseteq Held(w)
      /\ DOMAIN open[w] = 1..Len(open[w]) /\ DOMAIN open'[w] = 1..Len(open[w]) - 1
      /\ \A i \in DOMAIN open'[w] : From(k, i) \in DOMAIN open[w] /\ InTask(w, i)' = InTask(w, From(k, i))
  BY <1>2 DEF Removed
<1>7. InOpen(w)' \subseteq InOpen(w)
  <2>1. InOpen(w)' = UNION {InTask(w, i)' : i \in DOMAIN open'[w]}
    BY DEF InOpen
  <2> QED BY <1>6, <2>1 DEF InOpen
<1>8. \A i, j \in DOMAIN open'[w] : (i < j => From(k, i) < From(k, j)) /\ (i > j => From(k, i) > From(k, j))
  BY <1>6 DEF From
<1>9. QueueAscends(w)'
  BY <1>4, <1>5, <1>6 DEF QueueAscends
<1>10. QueueBehind(w)'
  BY <1>4, <1>5, <1>6, <1>7 DEF QueueBehind
<1>11. TasksAscend(w)'
  <2> SUFFICES ASSUME NEW i \in DOMAIN open'[w], NEW r \in InTask(w, i)', Live(r)'
               PROVE  TaskBetween(w, i, r)'
    BY DEF TasksAscend
  <2>1. TaskBetween(w, From(k, i), r) /\ InTask(w, i)' = InTask(w, From(k, i))
    BY <1>4, <1>5, <1>6 DEF TasksAscend
  <2> QED BY <1>6, <1>8, <2>1 DEF TaskBetween
<1>12. LiveIsRead(w)'
  BY <1>2, <1>4, <1>5, <1>6 DEF LiveIsRead
<1>13. Ordered(w)'
  BY <1>9, <1>10, <1>11, <1>12 DEF Ordered
<1>14. ASSUME NEW v \in Writers, v # w PROVE Ordered(v)'
  <2>1. queue'[v] = queue[v] /\ open'[v] = open[v]
    BY <1>2, <1>14 DEF Removed
  <2>2. Ordered(v)
    BY OrderedAll
  <2> QED BY <1>2, <2>1, <2>2, OrderStays
<1> QED BY OrderedNext, <1>13, <1>14

(***************************************************************************)
(* Coverage.                                                               *)
(***************************************************************************)
LEMMA MessageCoverage ==
  ASSUME Types, Coverage, NEW p \in Tags, OnMessage(p)
  PROVE  Coverage'
<1>1. PICK m : m = <<p, position[p]>>
  OBVIOUS
<1>2. m[1] = p /\ m[2] = position[p] /\ position \in [Tags -> Nat]
  BY <1>1 DEF Types
<1>3. /\ position' = [position EXCEPT ![p] = position[p] + 1]
      /\ \A w \in Writers : Held(w)' = Held(w) \cup ToSet(NewRows(w, m))
  BY <1>1, MessageEffect
<1>4. Keeps
  BY MessageKeeps
<1>5. Reached(p, m[2])'
  <2> SUFFICES ASSUME NEW r \in Rows, Tag(r) = p, Off(r) <= m[2], Live(r)' PROVE r \in Held(To(r))'
    BY DEF Reached
  <2>1. Off(r) \in Nat /\ To(r) \in Writers /\ r.msg = <<Tag(r), Off(r)>>
    BY RowFacts
  <2>2. CASE Off(r) = m[2]
    <3>1. r.msg = m
      BY <1>1, <1>2, <2>1, <2>2
    <3>2. r \in ToSet(NewRows(To(r), m))
      BY <2>1, <3>1, NewRowsFacts
    <3> QED BY <1>3, <2>1, <3>2
  <2>3. CASE Off(r) # m[2]
    <3>1. PICK x : x = position[p] - 1
      OBVIOUS
    <3>2. Off(r) <= x
      BY <1>2, <2>1, <2>3, <3>1
    <3>3. Reached(p, x)'
      BY <1>4, <3>1, ReachedStays DEF Coverage
    <3> QED BY <3>2, <3>3 DEF Reached
  <2> QED BY <2>2, <2>3
<1>6. ASSUME NEW t \in Tags PROVE Reached(t, position[t] - 1)'
  <2>1. CASE t = p
    <3>1. position'[p] - 1 = m[2]
      BY <1>2, <1>3
    <3> QED BY <1>5, <2>1, <3>1
  <2>2. CASE t # p
    <3>1. PICK x : x = position[t] - 1
      OBVIOUS
    <3>2. Reached(t, x)'
      BY <1>4, <3>1, ReachedStays DEF Coverage
    <3>3. position'[t] - 1 = x
      BY <1>2, <1>3, <2>2, <3>1
    <3> QED BY <3>2, <3>3
  <2> QED BY <2>1, <2>2
<1>7. ASSUME NEW w \in Writers, NEW r \in Held(w)' PROVE Reached(Tag(r), Off(r))'
  <2>1. CASE r \in Held(w)
    BY <1>4, <2>1, ReachedStays DEF Coverage
  <2>2. CASE r \in ToSet(NewRows(w, m))
    <3>1. r.msg = m
      BY <2>2, NewRowsFacts
    <3>2. Tag(r) = p /\ Off(r) = m[2]
      BY <1>2, <3>1 DEF Tag, Off
    <3> QED BY <1>5, <3>2
  <2> QED BY <1>3, <2>1, <2>2
<1> QED BY <1>6, <1>7 DEF Coverage

\* Below the committed offset nothing is live.
LEMMA CommittedReached ==
  ASSUME Types, Committed, NEW p \in Tags, NEW x, x = committed[p] - 1
  PROVE  Reached(p, x)
<1>1. committed[p] \in Nat
  BY DEF Types
<1>2. ASSUME NEW r \in Rows, Tag(r) = p, Off(r) <= x PROVE ~Live(r)
  <2>1. Off(r) < committed[p]
    BY <1>1, <1>2, RowFacts
  <2> QED BY <1>2, <2>1 DEF Committed
<1> QED BY <1>2 DEF Reached

LEMMA ResubscribeCoverage ==
  ASSUME Types, Coverage, Committed, NEW p \in Tags, Resubscribe(p)
  PROVE  Coverage'
<1>1. Keeps /\ NoNewRows
  BY ResubscribeKeeps
<1>2. position' = [position EXCEPT ![p] = committed[p]] /\ position \in [Tags -> Nat]
  BY DEF Resubscribe, Types
<1>3. ASSUME NEW t \in Tags PROVE Reached(t, position[t] - 1)'
  <2>1. CASE t = p
    <3>1. PICK x : x = committed[p] - 1
      OBVIOUS
    <3>2. Reached(p, x)'
      BY <1>1, <3>1, CommittedReached, ReachedStays
    <3>3. position'[p] - 1 = x
      BY <1>2, <3>1
    <3> QED BY <2>1, <3>2, <3>3
  <2>2. CASE t # p
    <3>1. PICK x : x = position[t] - 1
      OBVIOUS
    <3>2. Reached(t, x)'
      BY <1>1, <3>1, ReachedStays DEF Coverage
    <3>3. position'[t] - 1 = x
      BY <1>2, <2>2, <3>1
    <3> QED BY <3>2, <3>3
  <2> QED BY <2>1, <2>2
<1>4. ASSUME NEW w \in Writers, NEW r \in Held(w)' PROVE Reached(Tag(r), Off(r))'
  BY <1>1, ReachedStays DEF Coverage, NoNewRows
<1> QED BY <1>3, <1>4 DEF Coverage

LEMMA RestartCoverage ==
  ASSUME Types, Committed, Restart
  PROVE  Coverage'
<1>1. /\ \A v \in Writers : Held(v)' = {}
      /\ position' = committed /\ stored' = stored /\ exposed' = exposed
  BY StartEffect
<1>2. ASSUME NEW t \in Tags PROVE Reached(t, position[t] - 1)'
  <2>1. committed[t] \in Nat
    BY DEF Types
  <2>2. ASSUME NEW r \in Rows, Tag(r) = t, Off(r) <= position'[t] - 1 PROVE ~Live(r)'
    <3>1. Off(r) < committed[t]
      BY <1>1, <2>1, <2>2, RowFacts
    <3>2. ~Live(r)
      BY <2>2, <3>1 DEF Committed
    <3> QED BY <1>1, <3>2 DEF Live
  <2> QED BY <2>2 DEF Reached
<1> QED BY <1>1, <1>2 DEF Coverage

(***************************************************************************)
(* The marks and the reports.                                              *)
(***************************************************************************)
\* A task with a live row and another one: which of them came first, and what
\* that says of their flags.
LEMMA TaskFlags ==
  ASSUME Types, Order, NEW w \in Writers, NEW k \in DOMAIN open[w], NEW l \in DOMAIN open[w], l # k,
         NEW r \in InTask(w, l), Live(r), Tag(r) \in DOMAIN FlagOf(open[w][k]),
         NEW m, m = FlagOf(open[w][k])[Tag(r)], NEW g, g = FlagOf(open[w][l])[Tag(r)]
  PROVE  m \in Nat /\ g \in Nat /\ Off(r) \in Nat /\ Off(r) <= g /\ (m < Off(r) \/ g < m)
<1>1. /\ open[w][k] \in Seq(Rows) /\ open[w][l] \in Seq(Rows)
      /\ InTask(w, l) \subseteq Rows /\ DOMAIN open[w] \subseteq Int
  <2>1. InTask(w, l) \subseteq Held(w) /\ Held(w) \subseteq Rows
    BY TypesShape DEF Shapes
  <2> QED BY <2>1, TypesShape DEF Shapes
<1>2. r \in Rows /\ Off(r) \in Nat
  BY <1>1, RowFacts
<1>3. PICK q \in ToSet(open[w][k]) : Tag(q) = Tag(r) /\ Off(q) = m
  BY <1>1, FlagFacts
<1>4. Tag(r) \in DOMAIN FlagOf(open[w][l]) /\ Off(r) <= g
  BY <1>1, FlagFacts DEF InTask
<1>5. PICK s \in ToSet(open[w][l]) : Tag(s) = Tag(r) /\ Off(s) = g
  BY <1>1, <1>4, FlagFacts
<1>6. m \in Nat /\ g \in Nat
  <2>1. FlagOf(open[w][k]) \in Flags /\ FlagOf(open[w][l]) \in Flags
    BY <1>1, FlagFacts
  <2> QED BY <1>4, <2>1, FlagType
<1>7. q \in InTask(w, k) /\ s \in InTask(w, l) /\ Same(q, r) /\ Same(s, r)
  BY <1>3, <1>5 DEF InTask, Same
<1>8. TaskBetween(w, l, r)
  BY DEF Order, TasksAscend
<1>9. CASE k < l
  BY <1>2, <1>3, <1>4, <1>6, <1>7, <1>8, <1>9 DEF TaskBetween
<1>10. CASE k > l
  BY <1>2, <1>3, <1>4, <1>5, <1>6, <1>7, <1>8, <1>10 DEF TaskBetween
<1> QED BY <1>1, <1>9, <1>10

\* What is still held and not stored is above what a finished task takes over.
LEMMA TopAbove ==
  ASSUME Types, Order, Coverage, Stacks, NEW w \in Writers, NEW k \in DOMAIN open[w],
         NEW p \in DOMAIN FlagOf(open[w][k]), NEW m, m = FlagOf(open[w][k])[p],
         NEW j \in DOMAIN tracing[w][p], tracing[w][p][j].n = m, NEW x, x = Top(tracing[w][p][j])
  PROVE  /\ p \in Tags /\ Reached(p, x) /\ x \in Nat
         /\ \A r \in InQueue(w) : Live(r) /\ Tag(r) = p => x < Off(r)
         /\ \A l \in DOMAIN open[w] \ {k} : \A r \in InTask(w, l) :
              Live(r) /\ Tag(r) = p /\ m <= FlagOf(open[w][l])[p] => x < Off(r)
<1>1. /\ open[w][k] \in Seq(Rows) /\ InQueue(w) \subseteq Held(w) /\ Held(w) \subseteq Rows
      /\ InTask(w, k) \subseteq Held(w) /\ InTask(w, k) \subseteq InOpen(w)
  BY TypesShape DEF Shapes
<1>2. FlagOf(open[w][k]) \in Flags
  BY <1>1, FlagFacts
<1>3. p \in Tags /\ m \in Nat
  BY <1>2, FlagType
<1>4. PICK q \in ToSet(open[w][k]) : Tag(q) = p /\ Off(q) = m
  BY <1>1, FlagFacts
<1>5. q \in InTask(w, k) /\ q \in Held(w) /\ q \in InOpen(w)
  BY <1>1, <1>4 DEF InTask
<1> DEFINE e == tracing[w][p][j]
<1>6. e \in EntryOf(Offsets(p)) /\ Offsets(p) \subseteq Nat
  BY <1>3, LogFacts DEF Types
<1>7. Marked(w, p)
  BY <1>3 DEF Stacks
<1>8. ASSUME NEW l \in DOMAIN open[w] \ {k}, NEW r \in InTask(w, l), Live(r), Tag(r) = p,
             m <= FlagOf(open[w][l])[p]
      PROVE  m < Off(r) /\ FlagOf(open[w][l])[p] > m
  <2>1. PICK g : g = FlagOf(open[w][l])[p]
    OBVIOUS
  <2>2. m \in Nat /\ g \in Nat /\ Off(r) \in Nat /\ Off(r) <= g /\ (m < Off(r) \/ g < m)
    BY <1>8, <2>1, TaskFlags
  <2> QED BY <1>8, <2>1, <2>2
<1>9. CASE e.mark # NoMark
  <2>1. x = e.mark
    BY <1>9 DEF Top
  <2>2. Reached(p, x) /\ Above(w, p, m, x)
    BY <1>7, <1>9, <2>1 DEF Marked
  <2>3. x \in Nat
    BY <1>6, <1>9, <2>1 DEF EntryOf
  <2> QED BY <1>3, <1>8, <2>2, <2>3 DEF Above
<1>10. CASE e.mark = NoMark
  <2>1. x = m
    BY <1>10 DEF Top
  <2>2. Reached(p, m)
    BY <1>4, <1>5 DEF Coverage
  <2>3. ASSUME NEW r \in InQueue(w), Live(r), Tag(r) = p PROVE m < Off(r)
    <3>1. Same(q, r) /\ QueueBehind(w)
      BY <1>4, <2>3 DEF Same, Order
    <3> QED BY <1>4, <1>5, <2>3, <3>1 DEF QueueBehind
  <2> QED BY <1>3, <1>8, <2>1, <2>2, <2>3
<1> QED BY <1>9, <1>10

(***************************************************************************)
(* The stacks.                                                             *)
(***************************************************************************)
Stacked(w, p) == Sorted(tracing[w][p]) /\ Balanced(w, p) /\ Marked(w, p)

LEMMA StacksNext ==
  ASSUME \A v \in Writers, t \in Tags : Stacked(v, t)'
  PROVE  Stacks'
BY DEF Stacks, Stacked

LEMMA AboveStays ==
  ASSUME Grows, NEW w, NEW p, NEW n, NEW x, Above(w, p, n, x),
         queue'[w] = queue[w], open'[w] = open[w]
  PROVE  Above(w, p, n, x)'
<1>1. InQueue(w)' = InQueue(w) /\ \A k : InTask(w, k)' = InTask(w, k)
  BY SameHeldBy
<1> QED BY <1>1, LiveFalls DEF Above

LEMMA StackStays ==
  ASSUME Keeps, NEW w, NEW p, Stacked(w, p),
         tracing'[w][p] = tracing[w][p], queue'[w] = queue[w], open'[w] = open[w]
  PROVE  Stacked(w, p)'
<1>1. (Sorted(tracing[w][p]) /\ Balanced(w, p))'
  BY DEF Stacked, Sorted, Balanced
<1>2. ASSUME NEW i \in DOMAIN tracing[w][p], NEW e, e = tracing[w][p][i], e.mark # NoMark
      PROVE  Reached(p, e.mark)' /\ Above(w, p, e.n, e.mark)'
  <2>1. Reached(p, e.mark) /\ Above(w, p, e.n, e.mark)
    BY <1>2 DEF Stacked, Marked
  <2>2. PICK x, n : x = e.mark /\ n = e.n
    OBVIOUS
  <2>3. Reached(p, x)' /\ Above(w, p, n, x)'
    BY <2>1, <2>2, AboveStays, ReachedStays DEF Keeps
  <2> QED BY <2>2, <2>3
<1>3. Marked(w, p)'
  BY <1>2 DEF Marked
<1> QED BY <1>1, <1>3 DEF Stacked

LEMMA EntryFacts ==
  ASSUME Types, NEW w \in Writers, NEW p \in Tags, NEW i \in DOMAIN tracing[w][p]
  PROVE  /\ tracing[w][p][i].n \in Nat /\ tracing[w][p][i].n \in Offsets(p)
         /\ tracing[w][p][i].mark # NoMark => tracing[w][p][i].mark \in Nat
<1>1. tracing[w][p] \in Seq(EntryOf(Offsets(p))) /\ Offsets(p) \in SUBSET Nat
  BY LogFacts DEF Types
<1>2. tracing[w][p][i].n \in Offsets(p) /\ tracing[w][p][i].mark \in Offsets(p) \cup {NoMark}
  BY <1>1, Entries
<1> QED BY <1>1, <1>2

LEMMA MessageStacks ==
  ASSUME Types, Order, Coverage, Stacks, NEW p \in Tags, OnMessage(p)
  PROVE  Stacks'
<1>1. PICK m : m = <<p, position[p]>>
  OBVIOUS
<1>2. /\ open' = open /\ tracing' = tracing
      /\ \A v \in Writers : InQueue(v)' = InQueue(v) \cup ToSet(NewRows(v, m))
  BY <1>1, MessageEffect
<1>3. Keeps /\ Grows
  BY MessageKeeps DEF Keeps
<1> SUFFICES ASSUME NEW v \in Writers, NEW t \in Tags PROVE Stacked(v, t)'
  BY StacksNext
<1>4. (Sorted(tracing[v][t]) /\ Balanced(v, t))'
  BY <1>2 DEF Stacks, Sorted, Balanced
<1>5. ASSUME NEW i \in DOMAIN tracing[v][t], NEW e, e = tracing[v][t][i], e.mark # NoMark
      PROVE  Reached(t, e.mark)' /\ Above(v, t, e.n, e.mark)'
  <2>1. Reached(t, e.mark) /\ Above(v, t, e.n, e.mark) /\ e.mark \in Nat
    BY <1>5, EntryFacts DEF Stacks, Marked
  <2>2. PICK x, n : x = e.mark /\ n = e.n
    OBVIOUS
  <2>3. Reached(t, x)'
    BY <1>3, <2>1, <2>2, ReachedStays
  <2>4. ASSUME NEW r \in ToSet(NewRows(v, m)), Live(r), Tag(r) = t PROVE x < Off(r)
    <3>1. r \in Rows /\ r.msg = m /\ To(r) = v
      BY NewRowsFacts
    <3>2. Tag(r) = p /\ Off(r) = position[p] /\ Off(r) \in Nat
      BY <1>1, <3>1, RowFacts DEF Tag, Off
    <3>3. SUFFICES ASSUME Off(r) <= x PROVE FALSE
      BY <2>1, <2>2, <3>2
    <3>4. r \in Held(v)
      BY <2>1, <2>2, <2>4, <3>1, <3>3 DEF Reached
    <3>5. Off(r) < Off(r)
      BY <2>4, <3>1, <3>2, <3>4, NewIsAbove DEF Same
    <3> QED BY <3>2, <3>5
  <2>5. \A k : InTask(v, k)' = InTask(v, k)
    BY <1>2 DEF InTask
  <2>6. ASSUME NEW r \in InQueue(v)', Live(r)', Tag(r) = t PROVE x < Off(r)
    <3>1. Live(r)
      BY <1>3, <2>6, LiveFalls
    <3>2. CASE r \in InQueue(v)
      BY <2>1, <2>2, <2>6, <3>1, <3>2 DEF Above
    <3>3. CASE r \in ToSet(NewRows(v, m))
      BY <2>4, <2>6, <3>1, <3>3
    <3> QED BY <1>2, <3>2, <3>3
  <2>7. ASSUME NEW k \in DOMAIN open'[v], NEW r \in InTask(v, k)', Live(r)', Tag(r) = t,
               FlagOf(open'[v][k])[t] > n
        PROVE  x < Off(r)
    <3>1. Live(r)
      BY <1>3, <2>7, LiveFalls
    <3> QED BY <1>2, <2>1, <2>2, <2>5, <2>7, <3>1 DEF Above
  <2>8. Above(v, t, n, x)'
    BY <2>6, <2>7 DEF Above
  <2> QED BY <2>2, <2>3, <2>8
<1>6. Marked(v, t)'
  BY <1>2, <1>5 DEF Marked
<1> QED BY <1>4, <1>6 DEF Stacked

LEMMA ResubscribeStacks ==
  ASSUME Stacks, NEW p, Resubscribe(p)
  PROVE  Stacks'
<1>1. Keeps /\ queue' = queue /\ open' = open /\ tracing' = tracing
  BY ResubscribeKeeps
<1>2. ASSUME NEW v \in Writers, NEW t \in Tags PROVE Stacked(v, t)'
  BY <1>1, StackStays DEF Stacks, Stacked
<1> QED BY <1>2, StacksNext

LEMMA SpawnMarks ==
  ASSUME Types, Stacks, NEW w \in Writers, NEW n \in Nat \ {0}, SpawnTask(w, n)
  PROVE  Stacks'
<1>1. PICK rows, L : rows = SubSeq(queue[w], 1, n) /\ L = Len(open[w]) + 1
  OBVIOUS
<1>2. Spawned(w, n, rows, L) /\ Keeps /\ Grows
  BY <1>1, SpawnEffect, SpawnKeeps DEF Keeps
<1>3. ASSUME NEW v \in Writers, NEW t \in Tags PROVE Stacked(v, t)'
  <2>1. CASE v # w
    <3>1. queue'[v] = queue[v] /\ open'[v] = open[v]
      BY <1>2, <2>1 DEF Spawned
    <3>2. tracing'[v][t] = tracing[v][t]
      BY <1>2, <2>1 DEF Spawned, Types
    <3> QED BY <1>2, <3>1, <3>2, StackStays DEF Stacks, Stacked
  <2>2. CASE v = w
    <3>1. /\ Sorted(tracing'[w][t]) /\ Balanced(w, t)'
          /\ \A i \in DOMAIN tracing'[w][t] :
               \/ tracing'[w][t][i].mark = NoMark
               \/ \E j \in DOMAIN tracing[w][t] : tracing'[w][t][i] = tracing[w][t][j]
      BY SpawnStacks
    <3>2. ASSUME NEW i \in DOMAIN tracing'[w][t], NEW x, x = tracing'[w][t][i].mark, x # NoMark,
                 NEW c, c = tracing'[w][t][i].n
          PROVE  Reached(t, x)' /\ Above(w, t, c, x)'
      <4>1. PICK j \in DOMAIN tracing[w][t] : tracing'[w][t][i] = tracing[w][t][j]
        BY <3>1, <3>2
      <4>2. x = tracing[w][t][j].mark /\ c = tracing[w][t][j].n
        BY <3>2, <4>1
      <4>3. Reached(t, x) /\ Above(w, t, c, x)
        BY <3>2, <4>2 DEF Stacks, Marked
      <4>4. Reached(t, x)'
        BY <1>2, <4>3, ReachedStays
      <4>5. \A r : Live(r)' => Live(r)
        BY <1>2, LiveFalls
      <4>6. InQueue(w)' \subseteq InQueue(w) /\ ToSet(rows) \subseteq InQueue(w)
        BY <1>2 DEF Spawned
      <4>7. ASSUME NEW k \in DOMAIN open'[w], NEW r \in InTask(w, k)', Live(r), Tag(r) = t,
                   FlagOf(open'[w][k])[t] > c
            PROVE  x < Off(r)
        <5>1. CASE k = L
          <6>1. r \in ToSet(rows)
            BY <1>2, <4>7, <5>1 DEF Spawned
          <6> QED BY <4>3, <4>6, <4>7, <6>1 DEF Above
        <5>2. CASE k \in DOMAIN open[w]
          <6>1. InTask(w, k)' = InTask(w, k) /\ open'[w][k] = open[w][k]
            BY <1>2, <5>2 DEF Spawned
          <6> QED BY <4>3, <4>7, <5>2, <6>1 DEF Above
        <5> QED BY <1>2, <5>1, <5>2 DEF Spawned
      <4>8. Above(w, t, c, x)'
        BY <4>3, <4>5, <4>6, <4>7 DEF Above
      <4> QED BY <4>4, <4>8
    <3>3. Marked(w, t)'
      BY <3>2 DEF Marked
    <3>4. Sorted(tracing[w][t])'
      BY <3>1 DEF Sorted
    <3> QED BY <2>2, <3>1, <3>3, <3>4 DEF Stacked
  <2> QED BY <2>1, <2>2
<1> QED BY <1>3, StacksNext

\* A mark that is taken over from the entry of a task that ends.
LEMMA TakenAbove ==
  ASSUME Types, Order, Coverage, Stacks, NEW w \in Writers, NEW k \in DOMAIN open[w],
         NEW p \in DOMAIN FlagOf(open[w][k]), NEW m, m = FlagOf(open[w][k])[p],
         NEW e, e.n \in Nat, TakesOver(tracing[w][p], m, e)
  PROVE  /\ Reached(p, e.mark)
         /\ \A r \in InQueue(w) : Live(r) /\ Tag(r) = p => e.mark < Off(r)
         /\ \A l \in DOMAIN open[w] \ {k} : \A r \in InTask(w, l) :
              Live(r) /\ Tag(r) = p /\ FlagOf(open[w][l])[p] > e.n => e.mark < Off(r)
<1>1. PICK j \in DOMAIN tracing[w][p] : tracing[w][p][j].n = m /\ e.mark = Top(tracing[w][p][j])
  BY DEF TakesOver
<1>2. /\ p \in Tags /\ Reached(p, e.mark)
      /\ \A r \in InQueue(w) : Live(r) /\ Tag(r) = p => e.mark < Off(r)
      /\ \A l \in DOMAIN open[w] \ {k} : \A r \in InTask(w, l) :
           Live(r) /\ Tag(r) = p /\ m <= FlagOf(open[w][l])[p] => e.mark < Off(r)
  BY <1>1, TopAbove
<1>3. ASSUME NEW l \in DOMAIN open[w] \ {k}, NEW r \in InTask(w, l), Live(r), Tag(r) = p,
             FlagOf(open[w][l])[p] > e.n
      PROVE  m <= FlagOf(open[w][l])[p]
  <2>1. open[w][l] \in Seq(Rows)
    BY TypesShape DEF Shapes
  <2>2. p \in DOMAIN FlagOf(open[w][l])
    BY <1>3, <2>1, FlagFacts DEF InTask
  <2>3. PICK i \in DOMAIN tracing[w][p] : tracing[w][p][i].n = FlagOf(open[w][l])[p]
    BY <2>2, TaskHasEntry
  <2>4. tracing[w][p][i].n <= e.n \/ m <= tracing[w][p][i].n
    BY DEF TakesOver
  <2>5. tracing[w][p][i].n \in Nat
    BY <1>2, EntryFacts
  <2> QED BY <1>3, <2>3, <2>4, <2>5
<1> QED BY <1>2, <1>3

LEMMA DoneMarks ==
  ASSUME Types, Order, Coverage, Stacks, NEW w \in Writers, NEW k \in Nat \ {0}, TaskDone(w, k)
  PROVE  Stacks'
<1>1. PICK rows, f : rows = open[w][k] /\ f = FlagOf(open[w][k])
  OBVIOUS
<1>2. Removed(w, k, rows) /\ Keeps /\ Grows
  BY <1>1, DoneEffect, DoneKeeps DEF Keeps
<1>3. ASSUME NEW v \in Writers, NEW t \in Tags PROVE Stacked(v, t)'
  <2>1. CASE v # w
    <3>1. queue'[v] = queue[v] /\ open'[v] = open[v]
      BY <1>2, <2>1 DEF Removed
    <3>2. tracing'[v][t] = tracing[v][t]
      BY <2>1 DEF TaskDone, Types
    <3> QED BY <1>2, <3>1, <3>2, StackStays DEF Stacks, Stacked
  <2>2. CASE v = w
    <3>1. /\ Sorted(tracing'[w][t]) /\ Balanced(w, t)'
          /\ tracing'[w][t] \in Seq(EntryOf(Offsets(t)))
          /\ \A i \in DOMAIN tracing'[w][t] :
               \/ \E j \in DOMAIN tracing[w][t] : tracing'[w][t][i] = tracing[w][t][j]
               \/ t \in DOMAIN f /\ TakesOver(tracing[w][t], f[t], tracing'[w][t][i])
      BY <1>1, DoneStacks
    <3>2. ASSUME NEW i \in DOMAIN tracing'[w][t], NEW e, e = tracing'[w][t][i],
                 NEW x, x = e.mark, x # NoMark, NEW c, c = e.n
          PROVE  Reached(t, x)' /\ Above(w, t, c, x)'
      <4>1. /\ Reached(t, x)
            /\ \A r \in InQueue(w) : Live(r) /\ Tag(r) = t => x < Off(r)
            /\ \A l \in DOMAIN open[w] \ {k} : \A r \in InTask(w, l) :
                 Live(r) /\ Tag(r) = t /\ FlagOf(open[w][l])[t] > c => x < Off(r)
        <5>1. ASSUME NEW j \in DOMAIN tracing[w][t], e = tracing[w][t][j]
              PROVE  Reached(t, x) /\ Above(w, t, c, x)
          <6>1. x = tracing[w][t][j].mark /\ c = tracing[w][t][j].n
            BY <3>2, <5>1
          <6> QED BY <3>2, <6>1 DEF Stacks, Marked
        <5>2. CASE \E j \in DOMAIN tracing[w][t] : e = tracing[w][t][j]
          BY <5>1, <5>2 DEF Above
        <5>3. CASE t \in DOMAIN f /\ TakesOver(tracing[w][t], f[t], e)
          <6>1. e.n \in Nat
            BY <3>1, <3>2, LogFacts, Entries
          <6>2. k \in DOMAIN open[w]
            BY <1>2 DEF Removed
          <6> QED BY <1>1, <3>2, <5>3, <6>1, <6>2, TakenAbove
        <5> QED BY <3>1, <3>2, <5>2, <5>3
      <4>2. Reached(t, x)'
        BY <1>2, <4>1, ReachedStays
      <4>3. \A r : Live(r)' => Live(r)
        BY <1>2, LiveFalls
      <4>4. InQueue(w)' = InQueue(w)
        BY <1>2 DEF Removed
      <4>5. \A l \in DOMAIN open'[w] : /\ From(k, l) \in DOMAIN open[w] \ {k}
                                       /\ InTask(w, l)' = InTask(w, From(k, l))
                                       /\ open'[w][l] = open[w][From(k, l)]
        BY <1>2 DEF Removed
      <4>6. Above(w, t, c, x)'
        BY <4>1, <4>3, <4>4, <4>5 DEF Above
      <4> QED BY <4>2, <4>6
    <3>3. Marked(w, t)'
      BY <3>2 DEF Marked
    <3>4. Sorted(tracing[w][t])'
      BY <3>1 DEF Sorted
    <3> QED BY <2>2, <3>1, <3>3, <3>4 DEF Stacked
  <2> QED BY <2>1, <2>2
<1> QED BY <1>3, StacksNext

LEMMA EmptyStacks ==
  ASSUME open = [w \in Writers |-> <<>>],
         tracing = [w \in Writers |-> [p \in Tags |-> <<>>]]
  PROVE  Stacks
<1>1. ASSUME NEW w \in Writers, NEW p \in Tags PROVE tracing[w][p] = <<>> /\ open[w] = <<>>
  OBVIOUS
<1>2. DOMAIN <<>> = {}
  OBVIOUS
<1>3. ASSUME NEW w \in Writers, NEW p \in Tags
      PROVE  Sorted(tracing[w][p]) /\ Balanced(w, p) /\ Marked(w, p)
  <2>1. Sorted(tracing[w][p]) /\ Marked(w, p)
    BY <1>1, <1>2 DEF Sorted, Marked
  <2>2. Balanced(w, p)
    BY <1>1, <1>2 DEF Balanced, Hits
  <2> QED BY <2>1, <2>2
<1> QED BY <1>3 DEF Stacks

LEMMA RestartStacks ==
  ASSUME Restart
  PROVE  Stacks'
<1>1. open' = [w \in Writers |-> <<>>] /\ tracing' = [w \in Writers |-> [p \in Tags |-> <<>>]]
  BY DEF Restart, Fresh
<1>2. (open = [w \in Writers |-> <<>>]
         /\ tracing = [w \in Writers |-> [p \in Tags |-> <<>>]] => Stacks)'
  BY EmptyStacks, PTL
<1> QED BY <1>1, <1>2

(***************************************************************************)
(* The reports.                                                            *)
(***************************************************************************)
\* A task that ends reports what it takes over when no open task is below.
LEMMA ToldIsWritten ==
  ASSUME Types, Order, Coverage, Stacks, NEW w \in Writers, NEW k \in Nat \ {0}, TaskDone(w, k),
         NEW p \in DOMAIN watch'[w], NEW x, x = watch'[w][p], NEW i \in Levels, Chain[i] = w
  PROVE  Written(i, p, x)' /\ Reached(p, x)'
<1>1. PICK rows, f : rows = open[w][k] /\ f = FlagOf(open[w][k])
  OBVIOUS
<1>2. Removed(w, k, rows) /\ Keeps /\ Grows /\ k \in DOMAIN open[w]
  BY <1>1, DoneEffect, DoneKeeps DEF Keeps, Removed
<1>3. p \in Tags /\ x \in Nat
  <2>1. watch' \in [Writers -> Flags]
    BY DoneTypes DEF Types
  <2> QED BY <2>1, FlagType
<1>4. p \in DOMAIN f /\ Told(tracing[w][p], f[p], x)
  BY <1>1, <1>3, DoneStacks
<1>5. PICK m : m = f[p]
  OBVIOUS
<1>6. PICK j \in DOMAIN tracing[w][p] : /\ tracing[w][p][j].n = m /\ x = Top(tracing[w][p][j])
                                        /\ \A l \in DOMAIN tracing[w][p] : m <= tracing[w][p][l].n
  BY <1>4, <1>5 DEF Told
<1>7. /\ Reached(p, x)
      /\ \A r \in InQueue(w) : Live(r) /\ Tag(r) = p => x < Off(r)
      /\ \A l \in DOMAIN open[w] \ {k} : \A r \in InTask(w, l) :
           Live(r) /\ Tag(r) = p /\ m <= FlagOf(open[w][l])[p] => x < Off(r)
  BY <1>1, <1>2, <1>4, <1>5, <1>6, TopAbove
<1>8. ASSUME NEW l \in DOMAIN open[w] \ {k}, NEW r \in InTask(w, l), Live(r), Tag(r) = p
      PROVE  x < Off(r)
  <2>1. open[w][l] \in Seq(Rows)
    BY TypesShape DEF Shapes
  <2>2. p \in DOMAIN FlagOf(open[w][l])
    BY <1>8, <2>1, FlagFacts DEF InTask
  <2>3. \E c \in DOMAIN tracing[w][p] : tracing[w][p][c].n = FlagOf(open[w][l])[p]
    BY <2>2, TaskHasEntry
  <2> QED BY <1>6, <1>7, <1>8, <2>3
<1>9. Reached(p, x)'
  BY <1>2, <1>7, ReachedStays
<1>10. ASSUME NEW r \in Rows, r.level = i, Tag(r) = p, Off(r) <= x, Live(r)' PROVE FALSE
  <2>1. To(r) = w /\ Off(r) \in Nat
    BY <1>10, RowFacts DEF To
  <2>2. Live(r) /\ r \in Held(w)'
    BY <1>2, <1>9, <1>10, <2>1, LiveFalls DEF Reached
  <2>3. ~(x < Off(r))
    BY <1>3, <1>10, <2>1
  <2>4. r \notin InQueue(w)'
    BY <1>2, <1>7, <1>10, <2>2, <2>3 DEF Removed
  <2>5. PICK l \in DOMAIN open'[w] : r \in InTask(w, l)'
    BY <2>2, <2>4 DEF Held, InOpen
  <2>6. From(k, l) \in DOMAIN open[w] \ {k} /\ r \in InTask(w, From(k, l))
    BY <1>2, <2>5 DEF Removed
  <2> QED BY <1>8, <1>10, <2>2, <2>3, <2>6
<1> QED BY <1>9, <1>10 DEF Written

LEMMA DoneReports ==
  ASSUME Types, Order, Coverage, Stacks, Reports,
         NEW w \in Writers, NEW k \in Nat \ {0}, TaskDone(w, k)
  PROVE  Reports'
<1>1. Keeps /\ Grows
  BY DoneKeeps DEF Keeps
<1> SUFFICES ASSUME NEW i \in Levels, NEW p \in DOMAIN watch'[Chain[i]],
                    NEW x, x = watch'[Chain[i]][p]
             PROVE  Written(i, p, x)' /\ Reached(p, x)'
  BY DEF Reports
<1>2. CASE Chain[i] = w
  BY <1>2, ToldIsWritten
<1>3. CASE Chain[i] # w
  <2>1. Chain[i] \in Writers
    BY ChainFacts
  <2>2. watch'[Chain[i]] = watch[Chain[i]]
    BY <1>3, <2>1 DEF TaskDone, Types
  <2>3. Written(i, p, x) /\ Reached(p, x)
    BY <2>2 DEF Reports
  <2> QED BY <1>1, <2>3, WrittenStays, ReachedStays
<1> QED BY <1>2, <1>3

(***************************************************************************)
(* The trackers.                                                           *)
(***************************************************************************)
LEMMA LowerOffset ==
  ASSUME NEW p, NEW x \in Nat, NEW y \in Nat, y <= x
  PROVE  /\ Reached(p, x) => Reached(p, y)
         /\ \A i : Written(i, p, x) => Written(i, p, y)
<1>1. \A r \in Rows : Off(r) <= y => Off(r) <= x
  BY RowFacts
<1> QED BY <1>1 DEF Reached, Written

Known(j, f) ==
  \A p \in DOMAIN f : Reached(p, f[p]) /\ \A l \in Levels : l >= j => Written(l, p, f[p])

\* What level i and the levels above it make known is written below.
LEMMA OutReaches ==
  ASSUME Types, Reports, Trackers, NEW i \in Levels
  PROVE  \A j \in 1..i : Known(j, Out(i)[j])
<1>1. i \in Nat /\ i \in 1..i /\ Chain[i] \in Writers /\ Levels = 1..Bottom /\ Bottom \in Nat /\ i <= Bottom
  BY ChainFacts
<1>2. /\ Out(i)[i] = Seen(i)
      /\ \A j \in 1..i - 1 : Out(i)[j] = Resolved(status[j], FALSE, Out(i)[j + 1])
  BY OutForm
<1>3. \A j \in 1..i : Out(i)[j] \in Flags
  BY OutTypes
<1>4. watch[Chain[i]] \in Flags /\ \A j \in Levels : status[j] \in Marks
  BY <1>1 DEF Types
<1> DEFINE S == {j \in 1..i : Known(j, Out(i)[j])}
<1>5. Known(i, Seen(i))
  <2>1. CASE i = Bottom
    <3>1. \A l \in Levels : l >= i => l = i
      BY <1>1, <2>1
    <3> QED BY <2>1, <3>1 DEF Seen, Known, Reports
  <2>2. CASE i # Bottom
    <3>1. PICK f : f = Resolved(status[i], TRUE, watch[Chain[i]])
      OBVIOUS
    <3>2. ASSUME NEW p \in DOMAIN f
          PROVE  Reached(p, f[p]) /\ \A l \in Levels : l >= i => Written(l, p, f[p])
      <4>1. /\ p \in DOMAIN status[i] /\ p \in DOMAIN watch[Chain[i]] /\ ~status[i][p].left
            /\ f[p] \in Nat /\ watch[Chain[i]][p] \in Nat /\ status[i][p].val \in Nat
            /\ f[p] <= watch[Chain[i]][p] /\ f[p] <= status[i][p].val
        BY <1>4, <3>1, <3>2, ResolvedType
      <4>2. Written(i, p, f[p]) /\ Reached(p, f[p])
        BY <4>1, LowerOffset DEF Reports
      <4>3. \A l \in Levels : l > i => Written(l, p, f[p])
        BY <4>1, LowerOffset DEF Trackers
      <4>4. \A l \in Levels : l >= i => l = i \/ l > i
        BY <1>1
      <4> QED BY <4>2, <4>3, <4>4
    <3> QED BY <2>2, <3>1, <3>2 DEF Seen, Known
  <2> QED BY <2>1, <2>2
<1>6. ASSUME NEW j \in 1..i - 1, j + 1 \in S PROVE j \in S
  <2>1. j \in 1..i /\ j + 1 \in 1..i /\ j \in Levels
    BY <1>1
  <2>2. PICK f, g : f = Out(i)[j] /\ g = Out(i)[j + 1]
    OBVIOUS
  <2>3. f = Resolved(status[j], FALSE, g) /\ g \in Flags /\ Known(j + 1, g)
    BY <1>2, <1>3, <1>6, <2>1, <2>2
  <2>4. ASSUME NEW p \in DOMAIN f
        PROVE  Reached(p, f[p]) /\ \A l \in Levels : l >= j => Written(l, p, f[p])
    <3>1. /\ p \in DOMAIN status[j] /\ p \in DOMAIN g /\ status[j][p].left # FALSE
          /\ f[p] \in Nat /\ g[p] \in Nat /\ status[j][p].val \in Nat
          /\ f[p] <= g[p] /\ f[p] <= status[j][p].val
      BY <1>4, <2>1, <2>3, <2>4, ResolvedType
    <3>2. status[j][p].left
      BY <1>4, <2>1, <3>1, MarkType
    <3>3. Written(j, p, f[p])
      BY <2>1, <3>1, <3>2, LowerOffset DEF Trackers
    <3>4. Reached(p, f[p]) /\ \A l \in Levels : l >= j + 1 => Written(l, p, f[p])
      BY <2>3, <3>1, LowerOffset DEF Known
    <3>5. \A l \in Levels : l >= j => l = j \/ l >= j + 1
      BY <1>1, <2>1
    <3> QED BY <3>3, <3>4, <3>5
  <2>5. Known(j, f)
    BY <2>4 DEF Known
  <2> QED BY <2>1, <2>2, <2>5
<1>7. i \in S
  BY <1>1, <1>2, <1>5
<1>8. 1..i \subseteq S
  <2> HIDE DEF S
  <2> QED BY <1>1, <1>6, <1>7, DownInduction
<1> QED BY <1>8

\* The steps that touch neither rows nor stacks leave what is written written.
LEMMA QuietSame ==
  ASSUME Quiet
  PROVE  Keeps /\ Grows /\ \A r : Live(r)' <=> Live(r)
<1>1. Keeps /\ Grows
  BY QuietKeeps DEF Keeps
<1> QED BY <1>1 DEF Quiet, Live

LEMMA ChangedTrackers ==
  ASSUME Types, Reports, Trackers, NEW i \in Levels, NEW ok \in BOOLEAN, Changed(i, ok)
  PROVE  Trackers'
<1>1. Quiet
  BY DEF Changed, Quiet, writerVars, historyVars
<1>2. Keeps /\ Grows
  BY <1>1, QuietSame
<1>3. \A j \in Levels : status'[j] = Merged(i, j)
  BY DEF Changed
<1>4. \A j \in 1..i : Known(j, Out(i)[j])
  BY OutReaches
<1> SUFFICES ASSUME NEW j \in Levels, NEW p \in DOMAIN status'[j], NEW e, e = status'[j][p],
                    NEW x, x = e.val
             PROVE  /\ Reached(p, x)'
                    /\ e.left => Written(j, p, x)'
                    /\ ~e.left => \A l \in Levels : l > j => Written(l, p, x)'
  BY DEF Trackers
<1>5. /\ Reached(p, x)
      /\ e.left => Written(j, p, x)
      /\ ~e.left => \A l \in Levels : l > j => Written(l, p, x)
  <2>1. CASE p \in DOMAIN status[j] /\ e = status[j][p]
    BY <2>1 DEF Trackers
  <2>2. CASE j = i /\ p \in DOMAIN watch[Chain[i]] /\ e = Item(TRUE, watch[Chain[i]][p])
    <3>1. e.left /\ x = watch[Chain[i]][p]
      BY <2>2 DEF Item
    <3> QED BY <2>2, <3>1 DEF Reports
  <2>3. CASE j + 1 \in 1..i /\ p \in DOMAIN Out(i)[j + 1] /\ e = Item(FALSE, Out(i)[j + 1][p])
    <3>1. ~e.left /\ x = Out(i)[j + 1][p]
      BY <2>3 DEF Item
    <3>2. Reached(p, x) /\ \A l \in Levels : l >= j + 1 => Written(l, p, x)
      BY <1>4, <2>3, <3>1 DEF Known
    <3>3. \A l \in Levels : l > j => l >= j + 1
      BY ChainFacts
    <3> QED BY <3>1, <3>2, <3>3
  <2>4. \/ p \in DOMAIN status[j] /\ e = status[j][p]
        \/ j = i /\ p \in DOMAIN watch[Chain[i]] /\ e = Item(TRUE, watch[Chain[i]][p])
        \/ j + 1 \in 1..i /\ p \in DOMAIN Out(i)[j + 1] /\ e = Item(FALSE, Out(i)[j + 1][p])
    <3>1. p \in DOMAIN Merged(i, j) /\ e = Merged(i, j)[p]
      BY <1>3
    <3>2. \/ p \in DOMAIN status[j] /\ Merged(i, j)[p] = status[j][p]
          \/ j = i /\ p \in DOMAIN watch[Chain[i]] /\ Merged(i, j)[p] = Item(TRUE, watch[Chain[i]][p])
          \/ /\ j + 1 \in 1..i /\ p \in DOMAIN Out(i)[j + 1]
             /\ Merged(i, j)[p] = Item(FALSE, Out(i)[j + 1][p])
      <4>1. \A t \in DOMAIN Merged(i, j) :
              \/ t \in DOMAIN status[j] /\ Merged(i, j)[t] = status[j][t]
              \/ /\ j = i /\ t \in DOMAIN watch[Chain[i]]
                 /\ Merged(i, j)[t] = Item(TRUE, watch[Chain[i]][t])
              \/ /\ j < i /\ j + 1 \in 1..i /\ t \in DOMAIN Out(i)[j + 1]
                 /\ Merged(i, j)[t] = Item(FALSE, Out(i)[j + 1][t])
        BY MergedForm
      <4> QED BY <3>1, <4>1
    <3> QED BY <3>1, <3>2
  <2> QED BY <2>1, <2>2, <2>3, <2>4
<1>6. Reached(p, x)'
  BY <1>2, <1>5, ReachedStays
<1>7. ASSUME e.left PROVE Written(j, p, x)'
  BY <1>2, <1>5, <1>7, WrittenStays
<1>8. ASSUME ~e.left, NEW l \in Levels, l > j PROVE Written(l, p, x)'
  BY <1>2, <1>5, <1>8, WrittenStays
<1> QED BY <1>6, <1>7, <1>8

(***************************************************************************)
(* The commits.                                                            *)
(***************************************************************************)
\* What is committed is an old offset or the one after a flag's.
LEMMA CommitStays ==
  ASSUME Committed, Quiet, Types, NEW f \in Flags, NEW ok \in BOOLEAN, Commit(f, ok),
         \A p \in DOMAIN f : \A r \in Rows : Tag(r) = p /\ Off(r) <= f[p] => ~Live(r)
  PROVE  Committed'
<1>1. \A p \in Tags : committed'[p] = committed[p] \/ (p \in DOMAIN f /\ committed'[p] = f[p] + 1)
  BY TypesParts, CommitTypes
<1>2. \A r : Live(r)' => Live(r)
  BY QuietSame
<1>3. ASSUME NEW r \in Rows, Off(r) < committed'[Tag(r)] PROVE ~Live(r)
  <2>1. Tag(r) \in Tags /\ Off(r) \in Nat
    BY RowFacts
  <2>2. CASE committed'[Tag(r)] = committed[Tag(r)]
    BY <1>3, <2>2 DEF Committed
  <2>3. CASE Tag(r) \in DOMAIN f /\ committed'[Tag(r)] = f[Tag(r)] + 1
    <3>1. f[Tag(r)] \in Nat
      BY <2>3, FlagType
    <3>2. Off(r) <= f[Tag(r)]
      BY <1>3, <2>1, <2>3, <3>1
    <3> QED BY <2>3, <3>2
  <2> QED BY <1>1, <2>1, <2>2, <2>3
<1> QED BY <1>2, <1>3 DEF Committed

LEMMA ChangedCommitted ==
  ASSUME Types, Reports, Trackers, Committed, NEW i \in Levels, NEW ok \in BOOLEAN, Changed(i, ok)
  PROVE  Committed'
<1>1. 1 \in 1..i /\ \A l \in Levels : l >= 1
  BY ChainFacts
<1>2. PICK f : f = Out(i)[1]
  OBVIOUS
<1>3. Known(1, f) /\ f \in Flags
  BY <1>1, <1>2, OutReaches, OutTypes
<1>4. Commit(f, ok) /\ Quiet
  BY <1>2 DEF Changed, Quiet, writerVars, historyVars
<1>5. ASSUME NEW p \in DOMAIN f, NEW r \in Rows, Tag(r) = p, Off(r) <= f[p] PROVE ~Live(r)
  <2>1. r.level \in Levels
    BY RowFacts
  <2>2. Written(r.level, p, f[p])
    BY <1>1, <1>3, <2>1 DEF Known
  <2> QED BY <1>5, <2>2 DEF Written
<1> QED BY <1>3, <1>4, <1>5, CommitStays

LEMMA EmptyHeld ==
  ASSUME NEW w, queue[w] = <<>>, open[w] = <<>>
  PROVE  Held(w) = {}
<1>1. DOMAIN <<>> = {}
  OBVIOUS
<1> QED BY <1>1, SetOfEmpty DEF Held, InQueue, InOpen

LEMMA FinalCommitted ==
  ASSUME Types, Trackers, Ended, Committed, NEW ok \in BOOLEAN, FinalCommit(ok)
  PROVE  Committed'
<1>1. 1 \in Levels
  BY ChainFacts
<1>2. PICK f : f = final_status
  OBVIOUS
<1>3. f \in Flags
  BY <1>2, FinalTypes
<1>4. Commit(f, ok) /\ Quiet
  BY <1>2 DEF FinalCommit, Quiet, writerVars, historyVars
<1>5. \A w \in Writers : Held(w) = {}
  BY EmptyHeld DEF Ended, FinalCommit
<1>6. ASSUME NEW p \in DOMAIN f, NEW r \in Rows, Tag(r) = p, Off(r) <= f[p] PROVE ~Live(r)
  <2>1. p \in DOMAIN status[1] /\ f[p] = status[1][p].val
    BY <1>2, <1>6 DEF final_status
  <2>2. Reached(p, f[p])
    BY <1>1, <2>1 DEF Trackers
  <2> QED BY <1>5, <1>6, <2>2, RowFacts DEF Reached
<1> QED BY <1>3, <1>4, <1>6, CommitStays

(***************************************************************************)
(* The invariant.                                                          *)
(***************************************************************************)
LEMMA NothingKnown ==
  ASSUME watch = [w \in Writers |-> NoFlag], status = [i \in Levels |-> NoFlag]
  PROVE  Reports /\ Trackers
<1>1. \A i \in Levels : DOMAIN watch[Chain[i]] = {} /\ DOMAIN status[i] = {}
  BY ChainFacts, NoFlagType
<1> QED BY <1>1 DEF Reports, Trackers

LEMMA InvInit == Init => Inv
<1> SUFFICES ASSUME Init PROVE Inv
  OBVIOUS
<1>1. Types
  BY TypesInit
<1>2. Order /\ \A w \in Writers : Held(w) = {}
  BY EmptyOrder DEF Init
<1>3. Stacks
  BY EmptyStacks DEF Init
<1>4. Reports /\ Trackers
  BY NothingKnown DEF Init
<1>5. Ended
  BY DEF Init, Ended
<1>6. \A r \in Rows : Off(r) \in Nat /\ Tag(r) \in Tags
  BY RowFacts
<1>7. \A p \in Tags : position[p] = 0 /\ committed[p] = 0
  BY DEF Init
<1>8. Committed
  BY <1>6, <1>7 DEF Committed
<1>9. \A p \in Tags : Reached(p, position[p] - 1)
  BY <1>6, <1>7 DEF Reached
<1>10. Coverage
  BY <1>2, <1>9 DEF Coverage
<1> QED BY <1>1, <1>2, <1>3, <1>4, <1>5, <1>8, <1>10 DEF Inv

LEMMA MessageInv ==
  ASSUME Inv, NEW p \in Tags, OnMessage(p)
  PROVE  Inv'
<1> USE DEF Inv
<1>1. Keeps /\ Grows
  BY MessageKeeps DEF Keeps
<1>2. watch' = watch /\ status' = status /\ committed' = committed /\ phase' = "run"
  BY DEF OnMessage, watchVars, trackerVars
<1>3. Types' /\ Order' /\ Coverage' /\ Stacks'
  BY MessageTypes, MessageOrder, MessageCoverage, MessageStacks
<1>4. Reports' /\ Trackers' /\ Committed'
  BY <1>1, <1>2, ReportsStay, TrackersStay, CommittedStays
<1>5. Ended'
  BY <1>2 DEF Ended
<1> QED BY <1>3, <1>4, <1>5

LEMMA ResubscribeInv ==
  ASSUME Inv, NEW p \in Tags, Resubscribe(p)
  PROVE  Inv'
<1> USE DEF Inv
<1>1. Keeps /\ Grows /\ watch' = watch /\ status' = status /\ committed' = committed /\ phase' = phase
  BY ResubscribeKeeps DEF Keeps
<1>2. Types' /\ Order' /\ Coverage' /\ Stacks'
  BY ResubscribeTypes, ResubscribeOrder, ResubscribeCoverage, ResubscribeStacks
<1>3. Reports' /\ Trackers' /\ Committed'
  BY <1>1, ReportsStay, TrackersStay, CommittedStays
<1>4. Ended'
  BY <1>1 DEF Ended, Resubscribe
<1> QED BY <1>2, <1>3, <1>4

LEMMA SpawnInv ==
  ASSUME Inv, NEW w \in Writers, NEW n \in Nat \ {0}, SpawnTask(w, n)
  PROVE  Inv'
<1> USE DEF Inv
<1>1. Keeps /\ Grows /\ NoNewRows /\ position' = position
      /\ watch' = watch /\ status' = status /\ committed' = committed /\ phase' = phase
  BY SpawnKeeps DEF Keeps
<1>2. Types' /\ Order' /\ Stacks'
  BY SpawnTypes, SpawnOrder, SpawnMarks
<1>3. Coverage' /\ Reports' /\ Trackers' /\ Committed'
  BY <1>1, CoverageStays, ReportsStay, TrackersStay, CommittedStays
<1>4. Ended'
  BY <1>1 DEF Ended, SpawnTask, MaySpawn
<1> QED BY <1>2, <1>3, <1>4

LEMMA DoneInv ==
  ASSUME Inv, NEW w \in Writers, NEW k \in Nat \ {0}, TaskDone(w, k)
  PROVE  Inv'
<1> USE DEF Inv
<1>1. Keeps /\ Grows /\ NoNewRows /\ position' = position
      /\ status' = status /\ committed' = committed /\ phase' = phase
  BY DoneKeeps DEF Keeps
<1>2. Types' /\ Order' /\ Stacks' /\ Reports'
  BY DoneTypes, DoneOrder, DoneMarks, DoneReports
<1>3. Coverage' /\ Trackers' /\ Committed'
  BY <1>1, CoverageStays, TrackersStay, CommittedStays
<1>4. Ended'
  <2>1. k <= Len(open[w]) /\ Len(<<>>) = 0
    BY DEF TaskDone
  <2>2. open[w] # <<>>
    BY <2>1
  <2> QED BY <1>1, <2>2 DEF Ended
<1> QED BY <1>2, <1>3, <1>4

\* The steps that touch neither rows nor stacks.
LEMMA QuietParts ==
  ASSUME Inv, Quiet
  PROVE  Order' /\ Coverage' /\ Stacks' /\ Keeps /\ Grows /\ queue' = queue /\ open' = open
BY QuietKeeps DEF Inv, Keeps, Quiet

LEMMA ChangedInv ==
  ASSUME Inv, NEW i \in Levels, NEW ok \in BOOLEAN, Changed(i, ok)
  PROVE  Inv'
<1> USE DEF Inv
<1>1. Quiet /\ watch' = watch /\ phase' = phase
  BY DEF Changed, Quiet, writerVars, historyVars
<1>2. Order' /\ Coverage' /\ Stacks' /\ Keeps /\ queue' = queue /\ open' = open
  BY <1>1, QuietParts
<1>3. Types' /\ Trackers' /\ Committed'
  BY ChangedTypes, ChangedTrackers, ChangedCommitted
<1>4. Reports' /\ Ended'
  BY <1>1, <1>2, ReportsStay DEF Ended
<1> QED BY <1>2, <1>3, <1>4

LEMMA FinalInv ==
  ASSUME Inv, NEW ok \in BOOLEAN, FinalCommit(ok)
  PROVE  Inv'
<1> USE DEF Inv
<1>1. Quiet /\ watch' = watch /\ status' = status /\ phase = "finished"
  BY DEF FinalCommit, Quiet, writerVars, historyVars, watchVars
<1>2. Order' /\ Coverage' /\ Stacks' /\ Keeps /\ queue' = queue /\ open' = open
  BY <1>1, QuietParts
<1>3. Types' /\ Committed'
  BY FinalCommitTypes, FinalCommitted
<1>4. Reports' /\ Trackers' /\ Ended'
  BY <1>1, <1>2, ReportsStay, TrackersStay DEF Ended
<1> QED BY <1>2, <1>3, <1>4

LEMMA PhaseInv ==
  ASSUME Inv, PhaseOnly, Ended'
  PROVE  Inv'
<1> USE DEF Inv
<1>1. Quiet /\ watch' = watch /\ status' = status /\ committed' = committed
  BY DEF PhaseOnly, Quiet, writerVars, historyVars, watchVars, trackerVars
<1>2. Order' /\ Coverage' /\ Stacks' /\ Keeps /\ Grows
  BY <1>1, QuietParts
<1>3. Types' /\ Reports' /\ Trackers' /\ Committed'
  BY <1>1, <1>2, PhaseTypes, ReportsStay, TrackersStay, CommittedStays
<1> QED BY <1>2, <1>3

LEMMA RestartInv ==
  ASSUME Inv, Restart
  PROVE  Inv'
<1> USE DEF Inv
<1>1. /\ queue' = [w \in Writers |-> <<>>] /\ open' = [w \in Writers |-> <<>>] /\ phase' = "run"
      /\ watch' = [w \in Writers |-> NoFlag] /\ status' = [i \in Levels |-> NoFlag]
      /\ committed' = committed /\ stored' = stored /\ exposed' = exposed
  BY DEF Restart, Fresh
<1>2. (queue = [w \in Writers |-> <<>>] /\ open = [w \in Writers |-> <<>>] => Order)'
  BY EmptyOrder, PTL
<1>3. (watch = [w \in Writers |-> NoFlag] /\ status = [i \in Levels |-> NoFlag]
         => Reports /\ Trackers)'
  BY NothingKnown, PTL
<1>4. Order' /\ Reports' /\ Trackers'
  BY <1>1, <1>2, <1>3
<1>5. Types' /\ Coverage' /\ Stacks'
  BY RestartTypes, RestartCoverage, RestartStacks
<1>6. Committed'
  BY <1>1, CommittedStays DEF Grows
<1>7. Ended'
  BY <1>1 DEF Ended
<1> QED BY <1>4, <1>5, <1>6, <1>7

LEMMA InvStep == Inv /\ [Next]_vars => Inv'
<1> SUFFICES ASSUME Inv, [Next]_vars PROVE Inv'
  OBVIOUS
<1>1. 1..INSERT_LIMIT \subseteq Nat \ {0} /\ 1..spawn_limit \subseteq Nat \ {0}
  BY PersistorAssumption
<1>2. ASSUME NEW p \in Tags, OnMessage(p) PROVE Inv'
  BY <1>2, MessageInv
<1>3. ASSUME NEW p \in Tags, Resubscribe(p) PROVE Inv'
  BY <1>3, ResubscribeInv
<1>4. ASSUME NEW w \in Writers, NEW n \in 1..INSERT_LIMIT, SpawnTask(w, n) PROVE Inv'
  BY <1>1, <1>4, SpawnInv
<1>5. ASSUME NEW w \in Writers, NEW k \in 1..spawn_limit, TaskDone(w, k) PROVE Inv'
  BY <1>1, <1>5, DoneInv
<1>6. ASSUME NEW i \in Levels, NEW ok \in BOOLEAN, Changed(i, ok) PROVE Inv'
  BY <1>6, ChangedInv
<1>7. CASE CtrlC
  <2>1. PhaseOnly /\ Ended'
    BY <1>7 DEF CtrlC, PhaseOnly, Ended
  <2> QED BY <2>1, PhaseInv
<1>8. CASE Finish
  <2>1. PhaseOnly
    BY <1>8 DEF Finish, PhaseOnly
  <2>2. Ended'
    BY <1>8 DEF Finish, Ended, writerVars
  <2> QED BY <2>1, <2>2, PhaseInv
<1>9. ASSUME NEW ok \in BOOLEAN, FinalCommit(ok) PROVE Inv'
  BY <1>9, FinalInv
<1>10. CASE Restart
  BY <1>10, RestartInv
<1>11. CASE UNCHANGED vars
  <2>1. PhaseOnly
    BY <1>11 DEF vars, PhaseOnly, Inv, Types
  <2>2. Ended'
    BY <1>11 DEF vars, Ended, Inv, writerVars
  <2> QED BY <2>1, <2>2, PhaseInv
<1> QED BY <1>2, <1>3, <1>4, <1>5, <1>6, <1>7, <1>8, <1>9, <1>10, <1>11 DEF Next

\* What run_stream, the writers and the trackers keep up between them: in which
\* order rows are held, what a mark and a report stand for, what is committed.
THEOREM PersistorInvariant == Spec => []Inv
BY InvInit, InvStep, PTL DEF Spec

(***************************************************************************)
(* What it implies.                                                        *)
(***************************************************************************)
\* There are no more entries for a partition than open tasks.
LEMMA FewEntries ==
  ASSUME Types, Stacks, NEW w \in Writers, NEW p \in Tags
  PROVE  Len(tracing[w][p]) <= Len(open[w])
<1>1. Hits(tracing[w][p], At(p, Nat)) = Hits(open[w], With(p, Nat))
  BY DEF Stacks, Balanced
<1>2. /\ tracing[w][p] \in Seq(EntryOf(Offsets(p))) /\ open[w] \in Seq(Seq(Rows))
      /\ \A i \in DOMAIN tracing[w][p] : tracing[w][p][i] \in EntryOf(Offsets(p)) /\ tracing[w][p][i].n \in Nat
  <2>1. tracing[w][p] \in Seq(EntryOf(Offsets(p))) /\ open[w] \in Seq(Seq(Rows)) /\ Offsets(p) \in SUBSET Nat
    BY LogFacts DEF Types
  <2> QED BY <2>1, Entries
<1>3. {i \in DOMAIN tracing[w][p] : tracing[w][p][i] \in At(p, Nat)} = 1..Len(tracing[w][p])
  BY <1>2 DEF At
<1>4. Hits(tracing[w][p], At(p, Nat)) = Len(tracing[w][p])
  <2>1. \A n \in Nat : Cardinality(1..n) = n
    BY FS_Interval
  <2>2. Len(tracing[w][p]) \in Nat
    BY <1>2
  <2> QED BY <1>3, <2>1, <2>2 DEF Hits
<1>5. {i \in DOMAIN open[w] : open[w][i] \in With(p, Nat)} \subseteq 1..Len(open[w])
  BY <1>2
<1>6. Cardinality({i \in DOMAIN open[w] : open[w][i] \in With(p, Nat)}) <= Cardinality(1..Len(open[w]))
  BY <1>5, <1>2, FS_Interval, FS_Subset
<1>7. Hits(open[w], With(p, Nat)) <= Len(open[w])
  BY <1>2, <1>6, FS_Interval DEF Hits
<1> QED BY <1>1, <1>4, <1>7

\* Positions and commits stay within the logs, the tasks within spawn_limit and
\* the stacks within the tasks.
THEOREM PersistorTypes == Spec => []TypeOK
<1>1. Inv => TypeOK
  <2> SUFFICES ASSUME Inv PROVE TypeOK
    OBVIOUS
  <2>1. Types /\ Stacks
    BY DEF Inv
  <2>2. phase \in {"run", "finishing", "finished", "down"} /\ stored \subseteq Rows
        /\ exposed \subseteq Good /\ {reread, refused} \subseteq SUBSET Tags
    BY <2>1 DEF Types
  <2>3. ASSUME NEW p \in Tags PROVE position[p] \in 0..Len(Log[p]) /\ committed[p] \in 0..Len(Log[p])
    <3>1. /\ position[p] \in Nat /\ position[p] <= Len(Log[p])
          /\ committed[p] \in Nat /\ committed[p] <= Len(Log[p]) /\ Len(Log[p]) \in Nat
      BY <2>1, LogFacts DEF Types
    <3> QED BY <3>1
  <2>4. ASSUME NEW f \in Flags PROVE IsFlag(f)
    BY FlagType DEF IsFlag, Offsets
  <2>5. ASSUME NEW w \in Writers
        PROVE  /\ ToSet(queue[w]) \subseteq Rows /\ Len(open[w]) <= spawn_limit
               /\ \A p \in Tags : Len(tracing[w][p]) <= Len(open[w])
               /\ IsFlag(watch[w]) /\ overwritten[w] \subseteq Tags
    <3>1. ToSet(queue[w]) \subseteq Rows
      BY <2>1, TypesShape DEF Shapes, InQueue
    <3>2. Len(open[w]) <= spawn_limit /\ watch[w] \in Flags /\ overwritten[w] \subseteq Tags
      BY <2>1 DEF Types
    <3> QED BY <2>1, <2>4, <3>1, <3>2, FewEntries
  <2>6. ASSUME NEW i \in Levels
        PROVE  fresh[i] \in BOOLEAN /\ IsFlag([p \in DOMAIN status[i] |-> status[i][p].val])
    <3>1. fresh[i] \in BOOLEAN /\ status[i] \in Marks
      BY <2>1 DEF Types
    <3>2. PICK f : f = [p \in DOMAIN status[i] |-> status[i][p].val]
      OBVIOUS
    <3>3. DOMAIN f \subseteq Tags /\ \A p \in DOMAIN f : f[p] \in Offsets(p)
      BY <3>1, <3>2, MarkType
    <3> QED BY <3>1, <3>2, <3>3 DEF IsFlag, Offsets
  <2> QED BY <2>2, <2>3, <2>5, <2>6 DEF TypeOK
<1> QED BY <1>1, PersistorInvariant, PTL

\* An offset is committed only when the rows of all messages below it are stored,
\* except for torn tasks and for messages that were read again while they waited.
THEOREM CommitsAreStored == Spec => []CommittedIsStored
<1>1. Inv => CommittedIsStored
  <2> SUFFICES ASSUME Inv, NEW m \in Good \ exposed, m[2] < committed[m[1]], NEW i \in Levels
               PROVE  Row(m, i) \in stored
    BY DEF CommittedIsStored
  <2>1. PICK r : r = Row(m, i)
    OBVIOUS
  <2>2. r \in Rows /\ Tag(r) = m[1] /\ Off(r) = m[2] /\ r.msg = m
    BY <2>1, RowMade
  <2>3. ~Live(r)
    BY <2>2 DEF Inv, Committed
  <2> QED BY <2>1, <2>2, <2>3 DEF Live
<1> QED BY <1>1, PersistorInvariant, PTL

(***************************************************************************)
(* The commits catch up.  x is the newest offset of partition p that has   *)
(* been read and has rows.  A writer without rows of p reports x last.  A  *)
(* level is settled when the reports it and the levels below it have seen  *)
(* leave nothing below x unresolved: some level has seen the last report   *)
(* and waits for no other side, and the levels above it wait for the right *)
(* side, which has reached x.                                              *)
(***************************************************************************)
Newest(p, x) ==
  /\ <<p, x>> \in Good /\ x < position[p]
  /\ \A m \in Good : m[1] = p /\ m[2] < position[p] => m[2] <= x

Has(w, p) == \E r \in Held(w) : Tag(r) = p
Reporting(i, p) == fresh[i] /\ p \in DOMAIN watch[Chain[i]]

\* The level has seen all there is to see of the partition.
UpToDate(i, p) ==
  ~Has(Chain[i], p) /\ ~Reporting(i, p) /\ p \notin overwritten[Chain[i]]

SideAt(i, p, x, left) ==
  p \in DOMAIN status[i] /\ status[i][p].left = left /\ x <= status[i][p].val

Settled(i, p, x) ==
  \E j \in i..Bottom :
    /\ UpToDate(j, p) /\ (j = Bottom \/ SideAt(j, p, x, FALSE))
    /\ \A l \in i..j - 1 : SideAt(l, p, x, TRUE)

\* A level that has seen x from either side remembers it.
Kept(p, x) ==
  \A i \in 1..Bottom - 1 :
     UpToDate(i, p) \/ Settled(i + 1, p, x) => p \in DOMAIN status[i] /\ x <= status[i][p].val

Idle(p) == \A i \in Levels : ~Has(Chain[i], p) /\ ~Reporting(i, p)

Followed(p, x) ==
  \/ Idle(p) /\ x < committed[p]
  \/ Kept(p, x) /\ (Settled(1, p, x) => x < committed[p])

\* What the writer still holds of the partition ends with x.
Ends(w, p, x) ==
  /\ \A r \in Held(w) : Tag(r) = p => Off(r) <= x
  /\ \A i \in DOMAIN queue[w] : Tag(queue[w][i]) = p =>
       \E j \in DOMAIN queue[w] : i <= j /\ queue[w][j].msg = <<p, x>>
  /\ (\A r \in InQueue(w) : Tag(r) # p) /\ tracing[w][p] # <<>>
       => Top(tracing[w][p][Len(tracing[w][p])]) = x
  /\ ~Has(w, p) /\ (\E i \in Levels : Chain[i] = w /\ Reporting(i, p)) => watch[w][p] = x

\* The partition is read on from what is held.
Reads(p) == \A w \in Writers : \A r \in Held(w) : Tag(r) = p => Off(r) < position[p]

Follows(p) ==
  /\ Reads(p)
  /\ \A x \in Nat : Newest(p, x) =>
       /\ \A w \in Writers : Ends(w, p, x)
       /\ phase = "run" /\ p \notin refused => Followed(p, x)

Following == \A p \in Tags \ reread : Follows(p)

(***************************************************************************)
(* One level takes in a report of one side.                                *)
(***************************************************************************)
LEMMA TakesIn ==
  ASSUME NEW st \in Marks, NEW f \in Flags, NEW left \in BOOLEAN, NEW p, NEW x \in Nat,
         NEW new, new = merge(st, left, f), NEW r, r = Resolved(st, left, f)
  PROVE  /\ p \in DOMAIN st => p \in DOMAIN new /\ (x <= st[p].val => x <= new[p].val)
         /\ p \in DOMAIN f => p \in DOMAIN new /\ (x <= f[p] => x <= new[p].val)
         /\ p \notin DOMAIN f =>
              /\ p \notin DOMAIN r
              /\ p \in DOMAIN new <=> p \in DOMAIN st
              /\ p \in DOMAIN st => new[p] = st[p]
         /\ p \in DOMAIN f /\ p \in DOMAIN new /\ new[p].left # left /\ x <= f[p]
              => p \in DOMAIN r /\ x <= r[p]
         /\ p \in DOMAIN f /\ p \in DOMAIN st /\ x <= st[p].val /\ new[p].left = left
              => IF p \in DOMAIN r THEN x <= r[p] ELSE st[p].left = left
<1>1. DOMAIN new = DOMAIN st \cup DOMAIN f
  BY DEF merge
<1>2. DOMAIN r = {q \in DOMAIN f \cap DOMAIN st : st[q].left # left}
  BY DEF Resolved
<1>3. p \in DOMAIN st => st[p].val \in Nat /\ st[p].left \in BOOLEAN
  BY MarkType
<1>4. p \in DOMAIN f => f[p] \in Nat
  BY FlagType
<1>5. p \in DOMAIN r => r[p] = IF st[p].val < f[p] THEN st[p].val ELSE f[p]
  BY DEF Resolved, resolve
<1>6. CASE p \notin DOMAIN f
  <2>1. p \in DOMAIN st => new[p] = st[p]
    BY <1>6 DEF merge
  <2> QED BY <1>1, <1>2, <1>6, <2>1
<1>7. CASE p \in DOMAIN f /\ p \notin DOMAIN st
  <2>1. new[p] = Item(left, f[p])
    BY <1>7 DEF merge
  <2>2. new[p].left = left /\ new[p].val = f[p]
    BY <2>1 DEF Item
  <2> QED BY <1>1, <1>2, <1>7, <2>2
<1>8. CASE p \in DOMAIN f /\ p \in DOMAIN st
  <2>1. new[p] = IF st[p].val < f[p] THEN Item(left, f[p]) ELSE st[p]
    BY <1>8 DEF merge, item_merge
  <2>2. CASE st[p].val < f[p]
    <3>1. new[p].left = left /\ new[p].val = f[p]
      BY <2>1, <2>2 DEF Item
    <3> QED BY <1>1, <1>2, <1>3, <1>4, <1>5, <1>8, <2>2, <3>1
  <2>3. CASE ~(st[p].val < f[p])
    <3>1. new[p] = st[p]
      BY <2>1, <2>3
    <3> QED BY <1>1, <1>2, <1>3, <1>4, <1>5, <1>8, <2>3, <3>1
  <2> QED BY <2>2, <2>3
<1> QED BY <1>6, <1>7, <1>8

\* What level j takes in when level l sees a report.
Input(l, j) == IF j = l THEN watch[Chain[l]] ELSE Out(l)[j + 1]

LEMMA LevelForm ==
  ASSUME Types, NEW l \in Levels, NEW j \in 1..l
  PROVE  /\ Input(l, j) \in Flags /\ j \in Levels /\ status[j] \in Marks
         /\ Merged(l, j) = merge(status[j], j = l, Input(l, j))
         /\ Out(l)[j] = IF j = Bottom THEN Input(l, j) ELSE Resolved(status[j], j = l, Input(l, j))
<1>1. Levels = 1..Bottom /\ Bottom \in Nat /\ Chain[l] \in Writers
  BY ChainFacts
<1>2. j \in Levels /\ status[j] \in Marks /\ watch[Chain[l]] \in Flags
  BY <1>1 DEF Types
<1>3. CASE j = l
  <2>1. Merged(l, j) = merge(status[j], TRUE, watch[Chain[l]])
    BY <1>3 DEF Merged
  <2>2. Out(l)[j] = Seen(l)
    BY <1>3, OutForm, Zenon
  <2>3. Out(l)[j] = IF j = Bottom THEN watch[Chain[l]] ELSE Resolved(status[j], TRUE, watch[Chain[l]])
    BY <1>3, <2>2 DEF Seen
  <2>4. Input(l, j) = watch[Chain[l]] /\ (j = l) = TRUE
    BY <1>3 DEF Input
  <2> QED BY <1>2, <2>1, <2>3, <2>4
<1>4. CASE j # l
  <2>1. j \in 1..l - 1 /\ j + 1 \in 1..l /\ j < l /\ j # Bottom
    BY <1>1, <1>4
  <2>2. Input(l, j) = Out(l)[j + 1] /\ (j = l) = FALSE
    BY <1>4 DEF Input
  <2>3. Out(l)[j + 1] \in Flags
    BY <2>1, OutTypes
  <2>4. Merged(l, j) = merge(status[j], FALSE, Out(l)[j + 1])
    BY <1>4, <2>1 DEF Merged
  <2>5. Out(l)[j] = Resolved(status[j], FALSE, Out(l)[j + 1])
    BY <2>1, OutForm
  <2> QED BY <1>2, <2>1, <2>2, <2>3, <2>4, <2>5
<1> QED BY <1>3, <1>4

\* A level is settled by itself, or through the levels below.
SettlesBySteps ==
  \A i \in Levels : \A p, x :
    Settled(i, p, x) <=>
      \/ UpToDate(i, p) /\ (i = Bottom \/ SideAt(i, p, x, FALSE))
      \/ i < Bottom /\ SideAt(i, p, x, TRUE) /\ Settled(i + 1, p, x)

LEMMA SettledStep == SettlesBySteps
<1> SUFFICES ASSUME NEW i \in Levels, NEW p, NEW x
    PROVE Settled(i, p, x) <=>
            \/ UpToDate(i, p) /\ (i = Bottom \/ SideAt(i, p, x, FALSE))
            \/ i < Bottom /\ SideAt(i, p, x, TRUE) /\ Settled(i + 1, p, x)
  BY DEF SettlesBySteps
<1>1. Bottom \in Nat /\ i \in 1..Bottom
  BY ChainFacts
<1>2. ASSUME Settled(i, p, x)
      PROVE  \/ UpToDate(i, p) /\ (i = Bottom \/ SideAt(i, p, x, FALSE))
             \/ i < Bottom /\ SideAt(i, p, x, TRUE) /\ Settled(i + 1, p, x)
  <2>1. PICK j \in i..Bottom : /\ UpToDate(j, p) /\ (j = Bottom \/ SideAt(j, p, x, FALSE))
                               /\ \A l \in i..j - 1 : SideAt(l, p, x, TRUE)
    BY <1>2 DEF Settled
  <2>2. CASE j = i
    BY <2>1, <2>2
  <2>3. CASE j # i
    <3>1. j \in i + 1..Bottom /\ i \in i..j - 1 /\ i < Bottom /\ \A l \in i + 1..j - 1 : l \in i..j - 1
      BY <1>1, <2>1, <2>3
    <3>2. Settled(i + 1, p, x)
      BY <2>1, <3>1 DEF Settled
    <3> QED BY <2>1, <3>1, <3>2
  <2> QED BY <2>2, <2>3
<1>3. ASSUME UpToDate(i, p), i = Bottom \/ SideAt(i, p, x, FALSE) PROVE Settled(i, p, x)
  <2>1. i \in i..Bottom /\ i..i - 1 = {}
    BY <1>1
  <2> QED BY <1>3, <2>1 DEF Settled
<1>4. ASSUME i < Bottom, SideAt(i, p, x, TRUE), Settled(i + 1, p, x) PROVE Settled(i, p, x)
  <2>1. PICK j \in i + 1..Bottom : /\ UpToDate(j, p) /\ (j = Bottom \/ SideAt(j, p, x, FALSE))
                                   /\ \A l \in i + 1..j - 1 : SideAt(l, p, x, TRUE)
    BY <1>4 DEF Settled
  <2>2. j \in i..Bottom /\ \A l \in i..j - 1 : l = i \/ l \in i + 1..j - 1
    BY <1>1, <2>1
  <2> QED BY <1>4, <2>1, <2>2 DEF Settled
<1> QED BY <1>2, <1>3, <1>4

\* The claim of the next lemma for one level.
Resolves(l, j, p, x) ==
  Settled(j, p, x)' => IF p \in DOMAIN Out(l)[j] THEN x <= Out(l)[j][p] ELSE Settled(j, p, x)

\* What a report does to the levels of one partition.
Sees(l, p, x) ==
  /\ status' = [j \in Levels |-> Merged(l, j)]
  /\ \A i \in Levels : i # l => (UpToDate(i, p)' <=> UpToDate(i, p))
  /\ p \in DOMAIN watch[Chain[l]] /\ UpToDate(l, p)' => watch[Chain[l]][p] = x
  /\ p \notin DOMAIN watch[Chain[l]] /\ UpToDate(l, p)' => UpToDate(l, p)

LEMMA BelowSettled ==
  ASSUME NEW l \in Levels, NEW p, NEW x, Sees(l, p, x), NEW j \in Levels, j > l, Settled(j, p, x)'
  PROVE  Settled(j, p, x)
<1>1. Levels = 1..Bottom /\ Bottom \in Nat
  BY ChainFacts
<1>2. ASSUME NEW i \in Levels, i > l, NEW left
      PROVE  (SideAt(i, p, x, left)' <=> SideAt(i, p, x, left)) /\ (UpToDate(i, p)' <=> UpToDate(i, p))
  <2>1. i # l /\ ~(i < l)
    BY <1>1, <1>2
  <2>2. status'[i] = status[i]
    BY <2>1 DEF Sees, Merged
  <2> QED BY <2>1, <2>2 DEF SideAt, Sees
<1>3. PICK k \in j..Bottom : /\ UpToDate(k, p)' /\ (k = Bottom \/ SideAt(k, p, x, FALSE)')
                             /\ \A i \in j..k - 1 : SideAt(i, p, x, TRUE)'
  BY DEF Settled
<1>4. k \in Levels /\ k > l /\ \A i \in j..k - 1 : i \in Levels /\ i > l
  BY <1>1, <1>3
<1> QED BY <1>2, <1>3, <1>4 DEF Settled

\* A partition that a level does not hear of.
LEMMA NotHeard ==
  ASSUME Types, NEW l \in Levels, NEW p, NEW x \in Nat, Sees(l, p, x),
         NEW j \in 1..l, p \notin DOMAIN Input(l, j), j < l => Resolves(l, j + 1, p, x)
  PROVE  Resolves(l, j, p, x)
<1> SUFFICES ASSUME Settled(j, p, x)'
             PROVE  IF p \in DOMAIN Out(l)[j] THEN x <= Out(l)[j][p] ELSE Settled(j, p, x)
  BY DEF Resolves
<1> DEFINE st == status[j]
           f == Input(l, j)
           left == (j = l)
           new == merge(st, left, f)
           r == Resolved(st, left, f)
<1>1. Levels = 1..Bottom /\ Bottom \in Nat
  BY ChainFacts
<1>2. /\ f \in Flags /\ j \in Levels /\ st \in Marks /\ Merged(l, j) = new
      /\ Out(l)[j] = IF j = Bottom THEN f ELSE r
  BY LevelForm
<1>3. /\ p \notin DOMAIN r
      /\ p \in DOMAIN new <=> p \in DOMAIN st
      /\ p \in DOMAIN st => new[p] = st[p]
  <2> HIDE DEF st, f, left
  <2>1. left \in BOOLEAN /\ p \notin DOMAIN f
    BY DEF left, f
  <2> QED BY <1>2, <2>1, TakesIn
<1>4. status'[j] = new
  BY <1>2 DEF Sees
<1> HIDE DEF st, f, left, new, r
<1>5. p \notin DOMAIN Out(l)[j]
  BY <1>2, <1>3 DEF f
<1>6. \A side : SideAt(j, p, x, side)' <=> SideAt(j, p, x, side)
  BY <1>3, <1>4 DEF SideAt, st
<1>7. UpToDate(j, p)' => UpToDate(j, p)
  <2>1. CASE j = l
    BY <2>1 DEF Sees, Input
  <2>2. CASE j # l
    BY <1>2, <2>2 DEF Sees
  <2> QED BY <2>1, <2>2
<1>8. j < Bottom /\ Settled(j + 1, p, x)' => Settled(j + 1, p, x)
  <2> SUFFICES ASSUME j < Bottom, Settled(j + 1, p, x)' PROVE Settled(j + 1, p, x)
    OBVIOUS
  <2>1. j + 1 \in Levels /\ (j = l \/ j < l)
    BY <1>1
  <2>2. CASE j = l
    <3>1. j + 1 > l
      BY <1>1, <2>2
    <3> QED BY <2>1, <3>1, BelowSettled
  <2>3. CASE j < l
    <3>1. p \notin DOMAIN Out(l)[j + 1]
      BY <1>1, <2>3 DEF Input
    <3> QED BY <2>3, <3>1 DEF Resolves
  <2> QED BY <2>1, <2>2, <2>3
<1>9. SettlesBySteps'
  BY SettledStep, PTL
<1>10. \/ UpToDate(j, p)' /\ (j = Bottom \/ SideAt(j, p, x, FALSE)')
       \/ j < Bottom /\ SideAt(j, p, x, TRUE)' /\ Settled(j + 1, p, x)'
  BY <1>2, <1>9 DEF SettlesBySteps
<1>11. Settled(j, p, x)
  BY <1>2, <1>6, <1>7, <1>8, <1>10, SettledStep DEF SettlesBySteps
<1> QED BY <1>5, <1>11

LEMMA Heard ==
  ASSUME Types, NEW l \in Levels, NEW p, NEW x \in Nat, Sees(l, p, x), Kept(p, x),
         NEW j \in 1..l, p \in DOMAIN Input(l, j), j < l => Resolves(l, j + 1, p, x)
  PROVE  Resolves(l, j, p, x)
<1> SUFFICES ASSUME Settled(j, p, x)'
             PROVE  IF p \in DOMAIN Out(l)[j] THEN x <= Out(l)[j][p] ELSE Settled(j, p, x)
  BY DEF Resolves
<1> DEFINE st == status[j]
           f == Input(l, j)
           left == (j = l)
           new == merge(st, left, f)
           r == Resolved(st, left, f)
<1>1. Levels = 1..Bottom /\ Bottom \in Nat
  BY ChainFacts
<1>2. /\ f \in Flags /\ j \in Levels /\ st \in Marks /\ Merged(l, j) = new
      /\ Out(l)[j] = IF j = Bottom THEN f ELSE r
  BY LevelForm
<1>3. /\ p \in DOMAIN new /\ new[p].left # left /\ x <= f[p] => p \in DOMAIN r /\ x <= r[p]
      /\ p \in DOMAIN st /\ x <= st[p].val /\ new[p].left = left
           => IF p \in DOMAIN r THEN x <= r[p] ELSE st[p].left = left
  <2> HIDE DEF st, f, left
  <2>1. left \in BOOLEAN /\ p \in DOMAIN f
    BY DEF left, f
  <2> QED BY <1>2, <2>1, TakesIn
<1>4. status'[j] = new
  BY <1>2 DEF Sees
<1> HIDE DEF st, f, new, r
<1>5. SettlesBySteps'
  BY SettledStep, PTL
<1>6. \/ UpToDate(j, p)' /\ (j = Bottom \/ SideAt(j, p, x, FALSE)')
      \/ j < Bottom /\ SideAt(j, p, x, TRUE)' /\ Settled(j + 1, p, x)'
  BY <1>2, <1>5 DEF SettlesBySteps
<1>7. \A side : SideAt(j, p, x, side)' => p \in DOMAIN new /\ new[p].left = side
  BY <1>4 DEF SideAt
<1>8. \A side : p \in DOMAIN st /\ x <= st[p].val /\ st[p].left = side => SideAt(j, p, x, side)
  BY DEF SideAt, st
<1>9. p \in DOMAIN f
  BY DEF f
\* The report that the level itself waited for.
<1>10. CASE UpToDate(j, p)' /\ (j = Bottom \/ SideAt(j, p, x, FALSE)')
  <2>1. CASE j = l
    <3>1. f[p] = x
      BY <1>10, <2>1 DEF Sees, Input, f
    <3>2. x <= f[p]
      BY <3>1
    <3>3. CASE j = Bottom
      BY <1>2, <1>9, <3>2, <3>3
    <3>4. CASE j # Bottom
      BY <1>2, <1>3, <1>7, <1>10, <2>1, <3>2, <3>4
    <3> QED BY <3>3, <3>4
  <2>2. CASE j # l
    <3>1. UpToDate(j, p) /\ j \in 1..Bottom - 1 /\ j # Bottom
      BY <1>1, <1>2, <1>10, <2>2 DEF Sees
    <3>2. p \in DOMAIN st /\ x <= st[p].val
      BY <3>1 DEF Kept, st
    <3>3. new[p].left = FALSE
      BY <1>7, <1>10, <3>1
    <3>4. IF p \in DOMAIN r THEN x <= r[p] ELSE st[p].left = FALSE
      BY <1>3, <2>2, <3>2, <3>3
    <3>5. p \notin DOMAIN r => Settled(j, p, x)
      BY <1>2, <1>8, <3>1, <3>2, <3>4, SettledStep DEF SettlesBySteps
    <3> QED BY <1>2, <3>1, <3>4, <3>5
  <2> QED BY <2>1, <2>2
\* The level waits for the right side, and the levels below are settled.
<1>11. CASE j < Bottom /\ SideAt(j, p, x, TRUE)' /\ Settled(j + 1, p, x)'
  <2>1. j + 1 \in Levels /\ j \in 1..Bottom - 1 /\ j # Bottom
    BY <1>1, <1>11
  <2>2. CASE j = l
    <3>1. Settled(j + 1, p, x)
      <4>1. j + 1 > l
        BY <1>1, <2>2
      <4> QED BY <1>11, <2>1, <4>1, BelowSettled
    <3>2. p \in DOMAIN st /\ x <= st[p].val
      BY <2>1, <3>1 DEF Kept, st
    <3>3. IF p \in DOMAIN r THEN x <= r[p] ELSE st[p].left = TRUE
      BY <1>3, <1>7, <1>11, <2>2, <3>2
    <3>4. p \notin DOMAIN r => Settled(j, p, x)
      BY <1>2, <1>8, <1>11, <3>1, <3>2, <3>3, SettledStep DEF SettlesBySteps
    <3> QED BY <1>2, <2>1, <3>3, <3>4
  <2>3. CASE j # l
    <3>1. f = Out(l)[j + 1] /\ j < l
      BY <1>1, <2>3 DEF Input, f
    <3>2. x <= f[p]
      BY <1>11, <3>1 DEF Resolves, f
    <3>3. new[p].left = TRUE /\ p \in DOMAIN new
      BY <1>7, <1>11
    <3> QED BY <1>2, <1>3, <2>1, <2>3, <3>2, <3>3
  <2> QED BY <2>2, <2>3
<1> QED BY <1>6, <1>10, <1>11

\* A level that is settled after the report either was settled before and passes
\* nothing on, or passes on an offset that has reached x.
LEMMA AllResolve ==
  ASSUME Types, NEW l \in Levels, NEW p, NEW x \in Nat, Sees(l, p, x), Kept(p, x)
  PROVE  \A j \in 1..l : Resolves(l, j, p, x)
<1> DEFINE S == {j \in 1..l : Resolves(l, j, p, x)}
<1>1. l \in Nat /\ l \in 1..l
  BY ChainFacts
<1>2. ASSUME NEW j \in 1..l, j < l => Resolves(l, j + 1, p, x) PROVE Resolves(l, j, p, x)
  BY <1>2, NotHeard, Heard
<1>3. l \in S
  BY <1>1, <1>2
<1>4. ASSUME NEW j \in 1..l - 1, j + 1 \in S PROVE j \in S
  <2>1. j \in 1..l
    BY <1>1
  <2> QED BY <1>2, <1>4, <2>1
<1>5. 1..l \subseteq S
  <2> HIDE DEF S
  <2> QED BY <1>1, <1>3, <1>4, DownInduction
<1> QED BY <1>5

LEMMA NothingHeard ==
  ASSUME Types, NEW l \in Levels, NEW p, p \notin DOMAIN watch[Chain[l]]
  PROVE  \A j \in 1..l : p \notin DOMAIN Out(l)[j]
<1> DEFINE S == {j \in 1..l : p \notin DOMAIN Out(l)[j]}
<1>1. l \in Nat /\ l \in 1..l
  BY ChainFacts
<1>2. ASSUME NEW j \in 1..l, p \notin DOMAIN Input(l, j) PROVE p \notin DOMAIN Out(l)[j]
  <2>1. /\ Input(l, j) \in Flags /\ status[j] \in Marks
        /\ Out(l)[j] = IF j = Bottom THEN Input(l, j) ELSE Resolved(status[j], j = l, Input(l, j))
    BY LevelForm
  <2>2. p \notin DOMAIN Resolved(status[j], j = l, Input(l, j))
    BY <1>2 DEF Resolved
  <2> QED BY <1>2, <2>1, <2>2
<1>3. l \in S
  BY <1>1, <1>2 DEF Input
<1>4. ASSUME NEW j \in 1..l - 1, j + 1 \in S PROVE j \in S
  <2>1. j \in 1..l /\ j # l
    BY <1>1
  <2>2. p \notin DOMAIN Input(l, j)
    BY <1>4, <2>1 DEF Input
  <2> QED BY <1>2, <2>1, <2>2
<1>5. 1..l \subseteq S
  <2> HIDE DEF S
  <2> QED BY <1>1, <1>3, <1>4, DownInduction
<1> QED BY <1>5

\* A commit is not taken back, and one that is refused is remembered.
LEMMA CommitReaches ==
  ASSUME Types, NEW f \in Flags, NEW ok \in BOOLEAN, Commit(f, ok), NEW p \in Tags, p \notin refused'
  PROVE  /\ p \notin refused
         /\ committed'[p] = IF p \in DOMAIN f THEN f[p] + 1 ELSE committed[p]
<1>1. CASE ok
  BY <1>1 DEF Commit
<1>2. CASE ~ok
  BY <1>2 DEF Commit
<1> QED BY <1>1, <1>2

\* A level does not forget an offset for a lower one.
LEMMA LevelRemembers ==
  ASSUME Types, NEW l \in Levels, NEW p, NEW x \in Nat,
         status' = [j \in Levels |-> Merged(l, j)], NEW i \in Levels
  PROVE  /\ p \in DOMAIN status[i] /\ x <= status[i][p].val
              => p \in DOMAIN status'[i] /\ x <= status'[i][p].val
         /\ i <= l /\ p \in DOMAIN Input(l, i) /\ x <= Input(l, i)[p]
              => p \in DOMAIN status'[i] /\ x <= status'[i][p].val
<1>1. Levels = 1..Bottom /\ Bottom \in Nat
  BY ChainFacts
<1>2. CASE i <= l
  <2> DEFINE st == status[i]
             f == Input(l, i)
             left == (i = l)
             new == merge(st, left, f)
  <2>1. i \in 1..l
    BY <1>1, <1>2
  <2>2. f \in Flags /\ st \in Marks /\ Merged(l, i) = new /\ left \in BOOLEAN
    BY <2>1, LevelForm
  <2>3. status'[i] = new
    BY <2>2
  <2>4. /\ p \in DOMAIN st => p \in DOMAIN new /\ (x <= st[p].val => x <= new[p].val)
        /\ p \in DOMAIN f => p \in DOMAIN new /\ (x <= f[p] => x <= new[p].val)
    <3> HIDE DEF st, f, left
    <3> QED BY <2>2, TakesIn
  <2> HIDE DEF new
  <2> QED BY <2>3, <2>4
<1>3. CASE ~(i <= l)
  <2>1. i # l /\ ~(i < l)
    BY <1>1, <1>3
  <2>2. status'[i] = status[i]
    BY <2>1 DEF Merged
  <2> QED BY <1>3, <2>2
<1> QED BY <1>2, <1>3

LEMMA ReportKept ==
  ASSUME Types, NEW l \in Levels, NEW p, NEW x \in Nat, Sees(l, p, x), Kept(p, x)
  PROVE  Kept(p, x)'
<1> DEFINE Knows(i) == p \in DOMAIN status[i] /\ x <= status[i][p].val
           Hears(i) == i <= l /\ p \in DOMAIN Input(l, i) /\ x <= Input(l, i)[p]
<1>1. Levels = 1..Bottom /\ Bottom \in Nat /\ \A j \in 1..l : Resolves(l, j, p, x)
  BY ChainFacts, AllResolve
<1> SUFFICES ASSUME NEW i \in 1..Bottom - 1, UpToDate(i, p)' \/ Settled(i + 1, p, x)'
             PROVE  p \in DOMAIN status'[i] /\ x <= status'[i][p].val
  BY DEF Kept
<1>2. i \in Levels /\ i + 1 \in Levels
  BY <1>1
<1>3. UpToDate(i, p) \/ Settled(i + 1, p, x) => Knows(i)
  BY DEF Kept
<1>4. Knows(i) \/ Hears(i) => p \in DOMAIN status'[i] /\ x <= status'[i][p].val
  BY <1>2, LevelRemembers DEF Sees
<1>5. CASE UpToDate(i, p)' /\ i # l
  BY <1>2, <1>3, <1>4, <1>5 DEF Sees
<1>6. CASE UpToDate(i, p)' /\ i = l /\ p \in DOMAIN watch[Chain[l]]
  <2>1. watch[Chain[l]][p] = x /\ Input(l, i) = watch[Chain[l]] /\ i <= l
    BY <1>1, <1>2, <1>6 DEF Sees, Input
  <2>2. x <= x
    OBVIOUS
  <2>3. Hears(i)
    BY <1>6, <2>1, <2>2
  <2> HIDE DEF Knows, Hears
  <2> QED BY <1>4, <2>3
<1>7. CASE UpToDate(i, p)' /\ i = l /\ p \notin DOMAIN watch[Chain[l]]
  BY <1>3, <1>4, <1>7 DEF Sees
<1>8. CASE Settled(i + 1, p, x)' /\ i + 1 > l
  <2>1. Settled(i + 1, p, x)
    BY <1>2, <1>8, BelowSettled
  <2> QED BY <1>3, <1>4, <2>1
<1>9. CASE Settled(i + 1, p, x)' /\ ~(i + 1 > l)
  <2>1. i + 1 \in 1..l /\ i <= l /\ i # l
    BY <1>1, <1>2, <1>9
  <2>2. Input(l, i) = Out(l)[i + 1]
    BY <2>1 DEF Input
  <2>3. IF p \in DOMAIN Out(l)[i + 1] THEN x <= Out(l)[i + 1][p] ELSE Settled(i + 1, p, x)
    BY <1>1, <1>9, <2>1 DEF Resolves
  <2> QED BY <1>3, <1>4, <2>1, <2>2, <2>3
<1> QED BY <1>5, <1>6, <1>7, <1>8, <1>9

LEMMA ReportFollowed ==
  ASSUME Types, NEW l \in Levels, NEW ok \in BOOLEAN, Changed(l, ok), NEW p \in Tags, NEW x \in Nat,
         Ends(Chain[l], p, x), p \notin refused', p \notin refused => Followed(p, x)
  PROVE  Followed(p, x)'
<1>1. /\ queue' = queue /\ open' = open /\ watch' = watch /\ overwritten' = overwritten
      /\ fresh[l] /\ fresh' = [fresh EXCEPT ![l] = FALSE]
      /\ status' = [j \in Levels |-> Merged(l, j)] /\ Commit(Out(l)[1], ok)
  BY DEF Changed, writerVars
<1>2. 1 \in 1..l /\ \A i \in Levels : Chain[i] \in Writers
  BY ChainFacts
<1>3. Out(l)[1] \in Flags
  BY <1>2, OutTypes
<1>4. /\ p \notin refused
      /\ committed'[p] = IF p \in DOMAIN Out(l)[1] THEN Out(l)[1][p] + 1 ELSE committed[p]
  BY <1>1, <1>3, CommitReaches
<1>5. fresh \in [Levels -> BOOLEAN] /\ committed[p] \in Nat
  BY DEF Types
<1>6. \A w : Has(w, p)' <=> Has(w, p)
  BY <1>1, SameHeld DEF Has
<1>7. ASSUME NEW i \in Levels, i # l
      PROVE  (Reporting(i, p)' <=> Reporting(i, p)) /\ (UpToDate(i, p)' <=> UpToDate(i, p))
  <2>1. Reporting(i, p)' <=> Reporting(i, p)
    BY <1>1, <1>5, <1>7 DEF Reporting
  <2> QED BY <1>1, <1>6, <2>1 DEF UpToDate
<1>8. ~Reporting(l, p)'
  BY <1>1, <1>5 DEF Reporting
<1>9. CASE Idle(p) /\ x < committed[p]
  <2>1. Idle(p)'
    BY <1>6, <1>7, <1>8, <1>9 DEF Idle
  <2>2. p \notin DOMAIN watch[Chain[l]]
    BY <1>1, <1>9 DEF Idle, Reporting
  <2>3. p \notin DOMAIN Out(l)[1]
    BY <1>2, <2>2, NothingHeard
  <2>4. x < committed'[p]
    BY <1>4, <1>9, <2>3
  <2> QED BY <2>1, <2>4 DEF Followed
<1>10. CASE Kept(p, x) /\ (Settled(1, p, x) => x < committed[p])
  <2>1. ASSUME UpToDate(l, p)'
        PROVE  IF p \in DOMAIN watch[Chain[l]] THEN watch[Chain[l]][p] = x ELSE UpToDate(l, p)
    <3>1. ~Has(Chain[l], p) /\ p \notin overwritten[Chain[l]]
      BY <1>1, <1>6, <2>1 DEF UpToDate
    <3>2. CASE p \in DOMAIN watch[Chain[l]]
      <4>1. Reporting(l, p)
        BY <1>1, <3>2 DEF Reporting
      <4> QED BY <3>1, <3>2, <4>1 DEF Ends
    <3>3. CASE p \notin DOMAIN watch[Chain[l]]
      BY <3>1, <3>3 DEF UpToDate, Reporting
    <3> QED BY <3>2, <3>3
  <2>2. Sees(l, p, x)
    BY <1>1, <1>7, <2>1 DEF Sees
  <2>3. Kept(p, x)'
    BY <1>10, <2>2, ReportKept
  <2>4. ASSUME Settled(1, p, x)' PROVE x < committed'[p]
    <3>1. IF p \in DOMAIN Out(l)[1] THEN x <= Out(l)[1][p] ELSE Settled(1, p, x)
      BY <1>2, <1>10, <2>2, <2>4, AllResolve DEF Resolves
    <3>2. CASE p \in DOMAIN Out(l)[1]
      <4>1. Out(l)[1][p] \in Nat /\ x <= Out(l)[1][p]
        BY <1>3, <3>1, <3>2, FlagType
      <4> QED BY <1>4, <3>2, <4>1
    <3>3. CASE p \notin DOMAIN Out(l)[1]
      BY <1>4, <1>10, <3>1, <3>3
    <3> QED BY <3>2, <3>3
  <2> QED BY <2>3, <2>4 DEF Followed
<1> QED BY <1>4, <1>9, <1>10 DEF Followed

(***************************************************************************)
(* The steps that tell a tracker nothing.                                  *)
(***************************************************************************)
LEMMA FollowedStays ==
  ASSUME status' = status, NEW p, NEW x, committed'[p] = committed[p],
         \A i \in Levels : UpToDate(i, p)' => UpToDate(i, p), Idle(p) => Idle(p)',
         Followed(p, x)
  PROVE  Followed(p, x)'
<1>1. Levels = 1..Bottom /\ Bottom \in Nat
  BY ChainFacts
<1>2. \A i, left : SideAt(i, p, x, left)' <=> SideAt(i, p, x, left)
  BY DEF SideAt
<1>3. ASSUME NEW i \in Levels, Settled(i, p, x)' PROVE Settled(i, p, x)
  <2>1. PICK j \in i..Bottom : /\ UpToDate(j, p)' /\ (j = Bottom \/ SideAt(j, p, x, FALSE)')
                               /\ \A l \in i..j - 1 : SideAt(l, p, x, TRUE)'
    BY <1>3 DEF Settled
  <2>2. j \in Levels
    BY <1>1, <2>1
  <2> QED BY <1>2, <2>1, <2>2 DEF Settled
<1>4. CASE Idle(p) /\ x < committed[p]
  BY <1>4 DEF Followed
<1>5. CASE Kept(p, x) /\ (Settled(1, p, x) => x < committed[p])
  <2>1. \A i \in 1..Bottom - 1 : i \in Levels /\ i + 1 \in Levels
    BY <1>1
  <2>2. Kept(p, x)'
    BY <1>3, <1>5, <2>1 DEF Kept
  <2>3. 1 \in Levels
    BY ChainFacts
  <2>4. Settled(1, p, x)' => x < committed'[p]
    BY <1>3, <1>5, <2>3
  <2> QED BY <2>2, <2>4 DEF Followed
<1> QED BY <1>4, <1>5 DEF Followed

\* A writer that nothing happens to for the partition.
LEMMA EndsStays ==
  ASSUME NEW w, NEW p, NEW x, Ends(w, p, x),
         queue'[w] = queue[w], open'[w] = open[w], tracing'[w][p] = tracing[w][p],
         watch'[w] = watch[w], \A i \in Levels : Chain[i] = w /\ fresh'[i] => fresh[i]
  PROVE  Ends(w, p, x)'
<1>1. Held(w)' = Held(w) /\ InQueue(w)' = InQueue(w)
  BY SameHeldBy
<1>2. Has(w, p)' <=> Has(w, p)
  BY <1>1 DEF Has
<1>3. \A i \in Levels : Chain[i] = w /\ Reporting(i, p)' => Reporting(i, p)
  BY DEF Reporting
<1> QED BY <1>1, <1>2, <1>3 DEF Ends

LEMMA UpToDateStays ==
  ASSUME queue' = queue, open' = open, watch' = watch, fresh' = fresh, overwritten' = overwritten, NEW p
  PROVE  /\ \A w : Has(w, p)' <=> Has(w, p)
         /\ \A i : (Reporting(i, p)' <=> Reporting(i, p)) /\ (UpToDate(i, p)' <=> UpToDate(i, p))
         /\ Idle(p)' <=> Idle(p)
<1>1. \A w : Has(w, p)' <=> Has(w, p)
  BY SameHeld DEF Has
<1>2. \A i : Reporting(i, p)' <=> Reporting(i, p)
  BY DEF Reporting
<1> QED BY <1>1, <1>2 DEF UpToDate, Idle

\* Nothing happens to the partition.
LEMMA FollowsStays ==
  ASSUME NEW p, Follows(p), position'[p] = position[p],
         queue' = queue, open' = open, tracing' = tracing, watch' = watch, fresh' = fresh,
         phase' = "run" =>
           /\ overwritten' = overwritten /\ status' = status /\ committed'[p] = committed[p]
           /\ phase = "run" /\ refused' = refused
  PROVE  Follows(p)'
<1>1. \A w : Held(w)' = Held(w)
  BY SameHeld
<1>2. Reads(p)'
  BY <1>1 DEF Follows, Reads
<1>3. ASSUME NEW x \in Nat, Newest(p, x)'
      PROVE  /\ \A w \in Writers : Ends(w, p, x)'
             /\ phase' = "run" /\ p \notin refused' => Followed(p, x)'
  <2>1. Newest(p, x)
    BY <1>3 DEF Newest
  <2>2. \A w \in Writers : Ends(w, p, x)'
    BY <2>1, EndsStays DEF Follows
  <2>3. ASSUME phase' = "run", p \notin refused' PROVE Followed(p, x)'
    <3>1. Followed(p, x)
      BY <2>1, <2>3 DEF Follows
    <3>2. (\A i \in Levels : UpToDate(i, p)' => UpToDate(i, p)) /\ (Idle(p) => Idle(p)')
      BY <2>3, UpToDateStays
    <3> QED BY <2>3, <3>1, <3>2, FollowedStays
  <2> QED BY <2>2, <2>3
<1> QED BY <1>2, <1>3 DEF Follows

LEMMA ChangedFollows ==
  ASSUME Types, NEW l \in Levels, NEW ok \in BOOLEAN, Changed(l, ok), NEW p \in Tags, Follows(p)
  PROVE  Follows(p)'
<1>1. /\ queue' = queue /\ open' = open /\ tracing' = tracing /\ watch' = watch /\ position' = position
      /\ phase' = phase /\ fresh' = [fresh EXCEPT ![l] = FALSE] /\ fresh \in [Levels -> BOOLEAN]
      /\ Chain[l] \in Writers
  BY ChainFacts DEF Changed, writerVars, Types
<1>2. Reads(p)'
  BY <1>1, SameHeld DEF Follows, Reads
<1>3. ASSUME NEW x \in Nat, Newest(p, x)'
      PROVE  /\ \A w \in Writers : Ends(w, p, x)'
             /\ phase' = "run" /\ p \notin refused' => Followed(p, x)'
  <2>1. Newest(p, x)
    BY <1>1, <1>3 DEF Newest
  <2>2. \A w \in Writers : Ends(w, p, x)
    BY <2>1 DEF Follows
  <2>3. \A w \in Writers : Ends(w, p, x)'
    <3>1. \A i \in Levels : fresh'[i] => fresh[i]
      BY <1>1
    <3> QED BY <1>1, <2>2, <3>1, EndsStays
  <2>4. ASSUME phase' = "run", p \notin refused' PROVE Followed(p, x)'
    <3>1. p \notin refused => Followed(p, x)
      BY <1>1, <2>1, <2>4 DEF Follows
    <3> QED BY <1>1, <2>2, <2>4, <3>1, ReportFollowed
  <2> QED BY <2>3, <2>4
<1> QED BY <1>2, <1>3 DEF Follows

(***************************************************************************)
(* A message.                                                              *)
(***************************************************************************)
LEMMA OtherMessage ==
  ASSUME Types, NEW q \in Tags, OnMessage(q), NEW p \in Tags, Follows(p),
         p # q \/ <<q, position[q]>> \notin Good
  PROVE  Follows(p)'
<1> DEFINE m == <<q, position[q]>>
<1>1. /\ open' = open /\ tracing' = tracing
      /\ position' = [position EXCEPT ![q] = position[q] + 1] /\ position[q] \in Nat
      /\ \A w \in Writers : /\ queue'[w] = queue[w] \o NewRows(w, m)
                            /\ InQueue(w)' = InQueue(w) \cup ToSet(NewRows(w, m))
                            /\ Held(w)' = Held(w) \cup ToSet(NewRows(w, m))
  BY MessageEffect
<1>2. /\ watch' = watch /\ fresh' = fresh /\ overwritten' = overwritten /\ phase' = phase
      /\ status' = status /\ committed' = committed /\ refused' = refused
  BY DEF OnMessage, watchVars, trackerVars
<1>3. \A w \in Writers : \A r \in ToSet(NewRows(w, m)) : Tag(r) # p
  <2>1. \A w \in Writers : \A r \in ToSet(NewRows(w, m)) : r \in Rows /\ r.msg = m
    BY NewRowsFacts
  <2>2. (m \in Good => p # q) /\ m[1] = q
    OBVIOUS
  <2> HIDE DEF m
  <2> QED BY <2>1, <2>2, RowFacts DEF Tag
<1> HIDE DEF m
<1>4. position \in [Tags -> Nat]
  BY DEF Types
<1>5. \A w \in Writers : Has(w, p)' <=> Has(w, p)
  BY <1>1, <1>3 DEF Has
<1>6. \A i \in Levels : Chain[i] \in Writers
  BY ChainFacts
<1>7. \A i : Reporting(i, p)' <=> Reporting(i, p)
  BY <1>2 DEF Reporting
<1>8. (\A i \in Levels : UpToDate(i, p)' => UpToDate(i, p)) /\ (Idle(p) => Idle(p)')
  BY <1>2, <1>5, <1>6, <1>7 DEF UpToDate, Idle
<1>9. Reads(p)'
  <2> SUFFICES ASSUME NEW w \in Writers, NEW r \in Held(w)', Tag(r) = p PROVE Off(r) < position'[p]
    BY DEF Reads
  <2>1. r \in Held(w) /\ r \in Rows
    BY <1>1, <1>3, TypesShape DEF Shapes
  <2>2. Off(r) < position[p] /\ Off(r) \in Nat
    BY <2>1, RowFacts DEF Follows, Reads
  <2> QED BY <1>1, <1>4, <2>2
<1>10. ASSUME NEW x \in Nat, Newest(p, x)' PROVE Newest(p, x)
  <2>1. CASE p # q
    <3>1. position'[p] = position[p]
      BY <1>1, <1>4, <2>1
    <3> QED BY <1>10, <3>1 DEF Newest
  <2>2. CASE p = q
    <3>1. position'[p] = position[p] + 1 /\ <<p, position[p]>> \notin Good /\ position[p] \in Nat
      BY <1>1, <1>4, <2>2
    <3>2. <<p, x>> \in Good /\ x < position[p] + 1 /\ x # position[p]
      BY <1>10, <3>1 DEF Newest
    <3>3. x < position[p]
      BY <3>1, <3>2
    <3>4. ASSUME NEW g \in Good, g[1] = p, g[2] < position[p] PROVE g[2] <= x
      <4>1. g[2] < position[p] + 1
        BY <3>1, <3>4, GoodFacts
      <4> QED BY <1>10, <3>1, <3>4, <4>1 DEF Newest
    <3> QED BY <3>2, <3>3, <3>4 DEF Newest
  <2> QED BY <2>1, <2>2
<1>11. ASSUME NEW x \in Nat, NEW w \in Writers, Ends(w, p, x) PROVE Ends(w, p, x)'
  <2>1. queue[w] \in Seq(Rows) /\ NewRows(w, m) \in Seq(Rows)
    BY NewRowsFacts, TypesShape DEF Shapes
  <2> DEFINE b == NewRows(w, m)
  <2>2. /\ DOMAIN queue[w] = 1..Len(queue[w]) /\ DOMAIN queue'[w] = 1..Len(queue[w]) + Len(b)
        /\ Len(queue[w]) \in Nat /\ Len(b) \in Nat /\ DOMAIN b = 1..Len(b)
        /\ \A i \in 1..Len(queue[w]) + Len(b) :
             queue'[w][i] = IF i <= Len(queue[w]) THEN queue[w][i] ELSE b[i - Len(queue[w])]
    <3> DEFINE a == queue[w]
    <3>1. a \in Seq(Rows) /\ b \in Seq(Rows) /\ queue'[w] = a \o b
      BY <1>1, <2>1
    <3> HIDE DEF a, b
    <3>2. /\ Len(a) \in Nat /\ Len(b) \in Nat
          /\ DOMAIN a = 1..Len(a) /\ DOMAIN b = 1..Len(b) /\ DOMAIN (a \o b) = 1..Len(a) + Len(b)
          /\ \A i \in 1..Len(a) + Len(b) : (a \o b)[i] = IF i <= Len(a) THEN a[i] ELSE b[i - Len(a)]
      BY <3>1, Joined
    <3> QED BY <3>1, <3>2 DEF a
  <2>3. \A j \in DOMAIN b : Tag(b[j]) # p
    BY <1>3 DEF ToSet
  <2> HIDE DEF b
  <2>4. ASSUME NEW i \in DOMAIN queue'[w], Tag(queue'[w][i]) = p
        PROVE  \E j \in DOMAIN queue'[w] : i <= j /\ queue'[w][j].msg = <<p, x>>
    <3>1. i <= Len(queue[w])
      <4> SUFFICES ASSUME i > Len(queue[w]) PROVE FALSE
        BY <2>2
      <4>1. i - Len(queue[w]) \in DOMAIN b /\ queue'[w][i] = b[i - Len(queue[w])]
        BY <2>2
      <4> QED BY <2>3, <2>4, <4>1
    <3>2. i \in DOMAIN queue[w] /\ queue'[w][i] = queue[w][i]
      BY <2>2, <3>1
    <3>3. PICK j \in DOMAIN queue[w] : i <= j /\ queue[w][j].msg = <<p, x>>
      BY <1>11, <2>4, <3>2 DEF Ends
    <3>4. j \in DOMAIN queue'[w] /\ queue'[w][j] = queue[w][j]
      BY <2>2
    <3> QED BY <3>3, <3>4
  <2> QED BY <1>1, <1>2, <1>3, <1>5, <1>7, <1>11, <2>4 DEF Ends
<1>12. ASSUME NEW x \in Nat, Newest(p, x)', phase' = "run", p \notin refused' PROVE Followed(p, x)'
  <2>1. Followed(p, x)
    BY <1>2, <1>10, <1>12 DEF Follows
  <2> QED BY <1>2, <1>8, <2>1, FollowedStays
<1> QED BY <1>9, <1>10, <1>11, <1>12 DEF Follows

LEMMA OwnMessage ==
  ASSUME Types, NEW p \in Tags, OnMessage(p), <<p, position[p]>> \in Good, Reads(p)
  PROVE  Follows(p)'
<1> DEFINE m == <<p, position[p]>>
<1>1. /\ position' = [position EXCEPT ![p] = position[p] + 1] /\ position \in [Tags -> Nat]
      /\ \A w \in Writers : /\ queue'[w] = queue[w] \o NewRows(w, m)
                            /\ InQueue(w)' = InQueue(w) \cup ToSet(NewRows(w, m))
                            /\ Held(w)' = Held(w) \cup ToSet(NewRows(w, m))
  BY MessageEffect DEF Types
<1>2. position'[p] = position[p] + 1 /\ position[p] \in Nat
  BY <1>1
<1>3. \A r : r.msg = m => Tag(r) = p /\ Off(r) = position[p]
  BY DEF Tag, Off
<1>4. ASSUME NEW w \in Writers
      PROVE  /\ NewRows(w, m) \in Seq(Rows)
             /\ \A j \in DOMAIN NewRows(w, m) : NewRows(w, m)[j].msg = m
             /\ \A r \in ToSet(NewRows(w, m)) : r.msg = m
             /\ \E r \in ToSet(NewRows(w, m)) : r.msg = m
  <2>1. PICK i \in Levels : Chain[i] = w
    BY ChainFacts
  <2>2. Row(m, i) \in Rows /\ Row(m, i).msg = m /\ To(Row(m, i)) = w
    BY <2>1, RowMade
  <2> QED BY <2>2, NewRowsFacts
<1> HIDE DEF m
<1>5. \A w \in Writers : Has(w, p)' /\ \E r \in InQueue(w)' : Tag(r) = p
  BY <1>1, <1>3, <1>4 DEF Has
<1>6. ASSUME NEW w \in Writers, NEW r \in Held(w)', Tag(r) = p
      PROVE  Off(r) <= position[p] /\ Off(r) < position'[p]
  <2>1. CASE r \in Held(w)
    <3>1. r \in Rows /\ Off(r) < position[p]
      BY <1>6, <2>1, TypesShape DEF Shapes, Reads
    <3> QED BY <1>2, <3>1, RowFacts
  <2>2. CASE r \in ToSet(NewRows(w, m))
    BY <1>2, <1>3, <1>4, <2>2
  <2> QED BY <1>1, <1>6, <2>1, <2>2
<1>7. ASSUME NEW x \in Nat, Newest(p, x)' PROVE x = position[p] /\ m = <<p, x>>
  <2>1. x < position[p] + 1 /\ position[p] <= x
    <3>1. m \in Good /\ m[1] = p /\ m[2] = position[p] /\ m[2] < position'[p]
      BY <1>2 DEF m
    <3> QED BY <1>2, <1>7, <3>1 DEF Newest
  <2>2. x = position[p]
    BY <1>2, <2>1
  <2> QED BY <2>2 DEF m
<1>8. ASSUME NEW x \in Nat, x = position[p], m = <<p, x>>, NEW w \in Writers PROVE Ends(w, p, x)'
  <2>1. queue[w] \in Seq(Rows) /\ NewRows(w, m) \in Seq(Rows)
    BY <1>4, TypesShape DEF Shapes
  <2>2. PICK n \in DOMAIN queue'[w] : queue'[w][n].msg = m /\ \A i \in DOMAIN queue'[w] : i <= n
    <3> DEFINE a == queue[w]
               b == NewRows(w, m)
    <3>1. a \in Seq(Rows) /\ b \in Seq(Rows) /\ queue'[w] = a \o b
      BY <1>1, <2>1
    <3>2. (\A j \in DOMAIN b : b[j].msg = m) /\ DOMAIN b # {}
      BY <1>4 DEF ToSet
    <3> HIDE DEF a, b
    <3>3. /\ Len(a) \in Nat /\ Len(b) \in Nat /\ DOMAIN b = 1..Len(b)
          /\ DOMAIN (a \o b) = 1..Len(a) + Len(b)
          /\ \A i \in 1..Len(a) + Len(b) : (a \o b)[i] = IF i <= Len(a) THEN a[i] ELSE b[i - Len(a)]
      BY <3>1, Joined
    <3>4. Len(b) \in DOMAIN b /\ Len(b) # 0
      BY <3>2, <3>3
    <3> DEFINE n == Len(a) + Len(b)
    <3>5. n \in DOMAIN (a \o b) /\ \A i \in DOMAIN (a \o b) : i <= n
      BY <3>3, <3>4
    <3>6. ~(n <= Len(a)) /\ n - Len(a) = Len(b)
      BY <3>3, <3>4
    <3>7. (a \o b)[n] = b[Len(b)]
      BY <3>3, <3>5, <3>6
    <3> QED BY <3>1, <3>2, <3>4, <3>5, <3>7
  <2>3. \A r \in Held(w)' : Tag(r) = p => Off(r) <= x
    BY <1>6, <1>8
  <2> QED BY <1>5, <1>8, <2>2, <2>3 DEF Ends
<1>9. \A i \in Levels : ~UpToDate(i, p)'
  BY <1>5, ChainFacts DEF UpToDate
<1>10. ASSUME NEW x PROVE Followed(p, x)'
  <2>1. Levels = 1..Bottom /\ Bottom \in Nat
    BY ChainFacts
  <2>2. \A i \in Levels : ~Settled(i, p, x)'
    <3>1. \A i \in Levels : \A j \in i..Bottom : j \in Levels
      BY <2>1
    <3> QED BY <1>9, <3>1 DEF Settled
  <2>3. 1 \in Levels /\ \A i \in 1..Bottom - 1 : i \in Levels /\ i + 1 \in Levels
    BY <2>1, ChainFacts
  <2>4. Kept(p, x)'
    BY <1>9, <2>2, <2>3 DEF Kept
  <2> QED BY <2>2, <2>3, <2>4 DEF Followed
<1>11. Reads(p)'
  BY <1>6 DEF Reads
<1> QED BY <1>7, <1>8, <1>10, <1>11 DEF Follows

LEMMA MessageFollows ==
  ASSUME Types, NEW q \in Tags, OnMessage(q), NEW p \in Tags, Follows(p)
  PROVE  Follows(p)'
BY OtherMessage, OwnMessage DEF Follows

(***************************************************************************)
(* The top of a stack.                                                     *)
(***************************************************************************)
\* A position that no entry is above goes to the top.
LEMMA PushLast ==
  ASSUME NEW N \in SUBSET Nat, NEW s \in Seq(EntryOf(N)), NEW n \in N,
         \A i \in DOMAIN s : s[i].n <= n, NEW q, q = push_top(s, n)
  PROVE  q[Len(q)] = [n |-> n, mark |-> NoMark]
<1> DEFINE e == [n |-> n, mark |-> NoMark]
           a == SubSeq(s, 1, Len(s))
           b == SubSeq(s, Len(s) + 1, Len(s))
           d == a \o <<e>>
<1>1. DOMAIN s = 1..Len(s) /\ Len(s) \in Nat
  BY Entries
<1>2. e \in EntryOf(N)
  BY DEF EntryOf
<1>3. q = d \o b
  <2>1. {i \in DOMAIN s : s[i].n <= n} = 1..Len(s)
    <3>1. {i \in DOMAIN s : s[i].n <= n} = DOMAIN s
      OBVIOUS
    <3> QED BY <1>1, <3>1
  <2>2. Cardinality(1..Len(s)) = Len(s)
    <3>1. \A l \in Nat : Cardinality(1..l) = l
      BY FS_Interval
    <3> QED BY <1>1, <3>1
  <2>3. 1 + Len(s) = Len(s) + 1 /\ (1 + Len(s)) - 1 = Len(s)
    BY <1>1
  <2> QED BY <2>1, <2>2, <2>3 DEF push_top, InsertAt
<1> HIDE DEF e
<1>4. a \in Seq(EntryOf(N)) /\ Len(a) = Len(s) /\ b \in Seq(EntryOf(N)) /\ Len(b) = 0
  BY <1>1
<1> HIDE DEF a, b
<1>5. d \in Seq(EntryOf(N)) /\ Len(d) = Len(s) + 1 /\ d[Len(s) + 1] = e
  BY <1>1, <1>2, <1>4
<1> HIDE DEF d
<1>6. /\ Len(d \o b) = Len(d) + Len(b)
      /\ \A i \in 1..Len(d) + Len(b) : (d \o b)[i] = IF i <= Len(d) THEN d[i] ELSE b[i - Len(d)]
  BY <1>4, <1>5, Joined
<1>7. Len(q) = Len(s) + 1 /\ Len(s) + 1 \in 1..Len(d) + Len(b) /\ Len(s) + 1 <= Len(d)
  BY <1>1, <1>3, <1>4, <1>5, <1>6
<1>8. q[Len(q)] = d[Len(s) + 1]
  BY <1>3, <1>6, <1>7
<1> QED BY <1>5, <1>8 DEF e

\* What the top stands for does not change when an entry leaves.
LEMMA PopLast ==
  ASSUME NEW N \in SUBSET Nat, NEW s \in Seq(EntryOf(N)), Sorted(s), NEW n,
         \E i \in DOMAIN s : s[i].n = n, NEW t, t = pop_top(s, n).stack
  PROVE  /\ s # <<>> /\ Len(t) = Len(s) - 1
         /\ t # <<>> => Top(t[Len(t)]) = Top(s[Len(s)])
         /\ t = <<>> => Len(s) = 1 /\ pop_top(s, n).out = Top(s[1]) /\ Top(s[1]) # NoMark
<1>1. PICK k \in DOMAIN s, w \in Seq(EntryOf(N)) :
           /\ DOMAIN w = DOMAIN s
           /\ \A i \in DOMAIN s :
                w[i].n = s[i].n /\ w[i].mark = IF i = k - 1 THEN Top(s[k]) ELSE s[i].mark
           /\ t = RemoveAt(w, k)
           /\ pop_top(s, n).out = IF k = 1 THEN Top(s[k]) ELSE NoMark
  BY PopForm
<1>2. /\ DOMAIN s = 1..Len(s) /\ Len(s) \in Nat
      /\ \A i \in DOMAIN s : Top(s[i]) \in N
  BY Entries
<1>3. \A y \in N : y # NoMark
  BY DEF NoMark
<1> DEFINE E == EntryOf(N)
<1> HIDE DEF E
<1>4. /\ t \in Seq(E) /\ DOMAIN t = 1..Len(s) - 1
      /\ \A i \in 1..Len(s) - 1 : t[i] = IF i < k THEN w[i] ELSE w[i + 1]
  <2>1. w \in Seq(E) /\ k \in DOMAIN w /\ Len(w) = Len(s)
    BY <1>1, <1>2 DEF E
  <2> QED BY <1>1, <2>1, RemovedIndexes
<1>5. PICK L \in Nat : L = Len(s)
  BY <1>2
<1>6. s # <<>> /\ L # 0 /\ L - 1 \in Nat /\ k \in 1..L /\ k \in Nat /\ Len(t) = L - 1
  <2>1. k \in 1..L /\ L # 0 /\ k \in Nat /\ L - 1 \in Nat
    BY <1>2, <1>5
  <2>2. Len(t) = L - 1
    BY <1>4, <1>5, <2>1
  <2> QED BY <1>5, <2>1, <2>2
<1>7. ASSUME t # <<>> PROVE Top(t[Len(t)]) = Top(s[Len(s)])
  <2>1. L - 1 # 0
    BY <1>4, <1>6, <1>7
  <2>2. L - 1 \in 1..L - 1 /\ L - 1 \in 1..L /\ L \in 1..L
    BY <1>6, <2>1
  <2>3. L - 1 \in DOMAIN s /\ L \in DOMAIN s
    BY <1>2, <1>5, <2>2
  <2>4. t[Len(t)] = IF L - 1 < k THEN w[L - 1] ELSE w[(L - 1) + 1]
    BY <1>4, <1>5, <1>6, <2>2
  <2>5. CASE k = L
    <3>1. t[Len(t)] = w[k - 1]
      BY <1>6, <2>4, <2>5
    <3>2. w[k - 1].mark = Top(s[k])
      BY <1>1, <2>3, <2>5
    <3> QED BY <1>2, <1>3, <1>5, <2>5, <3>1, <3>2 DEF Top
  <2>6. CASE k # L
    <3>1. ~(L - 1 < k) /\ (L - 1) + 1 = L /\ L # k - 1
      BY <1>6, <2>6
    <3>2. t[Len(t)] = w[L]
      BY <2>4, <3>1
    <3>3. w[L].n = s[L].n /\ w[L].mark = s[L].mark
      BY <1>1, <2>3, <3>1
    <3> QED BY <1>5, <3>2, <3>3 DEF Top
  <2> QED BY <2>5, <2>6
<1>8. ASSUME t = <<>> PROVE Len(s) = 1 /\ pop_top(s, n).out = Top(s[1]) /\ Top(s[1]) # NoMark
  <2>1. L - 1 = 0
    BY <1>6, <1>8
  <2>2. L = 1 /\ k = 1
    BY <1>6, <2>1
  <2> QED BY <1>1, <1>2, <1>3, <1>5, <2>2
<1> QED BY <1>5, <1>6, <1>7, <1>8

LEMMA EntryHasRow ==
  ASSUME Types, Stacks, NEW w \in Writers, NEW p \in Tags, NEW i \in DOMAIN tracing[w][p]
  PROVE  \E r \in Held(w) : Tag(r) = p /\ Off(r) = tracing[w][p][i].n
<1> DEFINE s == tracing[w][p]
           v == s[i].n
<1>1. s \in Seq(EntryOf(Offsets(p))) /\ Offsets(p) \in SUBSET Nat
  BY LogFacts DEF Types
<1>2. s[i] \in EntryOf(Offsets(p)) /\ v \in Nat
  BY <1>1, Entries
<1>3. Hits(s, At(p, {v})) = Hits(open[w], With(p, {v}))
  <2>1. Balanced(w, p) /\ {v} \in SUBSET Nat
    BY <1>2 DEF Stacks
  <2> QED BY <2>1 DEF Balanced
<1>4. s[i] \in At(p, {v})
  BY <1>2 DEF At
<1> HIDE DEF v
<1>5. Hits(s, At(p, {v})) # 0
  BY <1>1, <1>4, HitsType
<1>6. open[w] \in Seq(Seq(Rows))
  BY TypesShape DEF Shapes
<1>7. PICK k \in DOMAIN open[w] : open[w][k] \in With(p, {v})
  BY <1>3, <1>5, <1>6, HitsType
<1>8. open[w][k] \in Seq(Rows) /\ InTask(w, k) \subseteq Held(w)
  BY TypesShape DEF Shapes
<1>9. p \in DOMAIN FlagOf(open[w][k]) /\ FlagOf(open[w][k])[p] = v
  BY <1>7 DEF With
<1>10. \E r \in ToSet(open[w][k]) : Tag(r) = p /\ Off(r) = v
  BY <1>8, <1>9, FlagFacts
<1> QED BY <1>8, <1>10 DEF InTask, v

\* A writer that holds nothing of a partition has an empty stack for it.
EmptyWithout ==
  Types /\ Stacks => \A w \in Writers, p \in Tags : ~Has(w, p) => tracing[w][p] = <<>>

LEMMA NoEntries == EmptyWithout
<1> SUFFICES ASSUME Types, Stacks, NEW w \in Writers, NEW p \in Tags, ~Has(w, p)
             PROVE  tracing[w][p] = <<>>
  BY DEF EmptyWithout
<1>1. DOMAIN tracing[w][p] = {}
  BY EntryHasRow DEF Has
<1>2. tracing[w][p] \in Seq(EntryOf(Offsets(p)))
  BY DEF Types
<1>3. ASSUME NEW E, NEW s \in Seq(E), DOMAIN s = {} PROVE s = <<>>
  <2>1. DOMAIN s = 1..Len(s) /\ Len(s) \in Nat
    OBVIOUS
  <2>2. Len(s) = 0
    <3>1. Len(s) # 0 => 1 \in 1..Len(s)
      BY <2>1
    <3> QED BY <1>3, <2>1, <3>1
  <2> QED BY <2>2
<1> QED BY <1>1, <1>2, <1>3

(***************************************************************************)
(* A task starts.                                                          *)
(***************************************************************************)
LEMMA SpawnEnds ==
  ASSUME Types, Stacks, NEW w \in Writers, NEW n \in Nat \ {0}, SpawnTask(w, n),
         NEW p \in Tags, NEW x \in Nat, Ends(w, p, x)
  PROVE  Ends(w, p, x)'
<1> DEFINE rows == SubSeq(queue[w], 1, n)
           f == FlagOf(rows)
<1>1. Spawned(w, n, rows, Len(open[w]) + 1)
  BY SpawnEffect
<1> HIDE DEF rows
<1>2. /\ tracing' = [tracing EXCEPT ![w] = update_from(tracing[w], f)]
      /\ rows \in Seq(Rows) /\ DOMAIN rows = 1..n
      /\ \A i \in 1..n : rows[i] = queue[w][i] /\ i \in DOMAIN queue[w]
      /\ DOMAIN queue'[w] = 1..Len(queue[w]) - n
      /\ \A i \in 1..Len(queue[w]) - n : queue'[w][i] = queue[w][i + n] /\ i + n \in DOMAIN queue[w]
      /\ InQueue(w) = ToSet(rows) \cup InQueue(w)' /\ Held(w)' = Held(w)
  BY <1>1 DEF Spawned
<1>3. /\ DOMAIN queue[w] = 1..Len(queue[w]) /\ Len(queue[w]) \in Nat
      /\ InQueue(w) \subseteq Held(w) /\ Held(w) \subseteq Rows
      /\ \A i \in DOMAIN queue[w] : queue[w][i] \in InQueue(w)
  BY TypesShape DEF Shapes
<1>4. watch' = watch /\ fresh' = fresh
  BY DEF SpawnTask, watchVars
<1>5. Has(w, p)' <=> Has(w, p)
  BY <1>2 DEF Has
<1>6. \A i : Reporting(i, p)' <=> Reporting(i, p)
  BY <1>4 DEF Reporting
<1>7. \A r \in Held(w) : Tag(r) = p => Off(r) <= x
  BY DEF Ends
<1>8. ASSUME NEW i \in DOMAIN queue'[w], Tag(queue'[w][i]) = p
      PROVE  \E j \in DOMAIN queue'[w] : i <= j /\ queue'[w][j].msg = <<p, x>>
  <2>1. i + n \in DOMAIN queue[w] /\ queue'[w][i] = queue[w][i + n]
    BY <1>2
  <2>2. PICK j \in DOMAIN queue[w] : i + n <= j /\ queue[w][j].msg = <<p, x>>
    BY <1>8, <2>1 DEF Ends
  <2>3. j - n \in DOMAIN queue'[w] /\ i <= j - n /\ (j - n) + n = j
    BY <1>2, <1>3, <2>2
  <2> QED BY <1>2, <2>2, <2>3
<1>9. ASSUME \A r \in InQueue(w)' : Tag(r) # p, tracing'[w][p] # <<>>
      PROVE  Top(tracing'[w][p][Len(tracing'[w][p])]) = x
  <2>1. DOMAIN tracing = Writers
    BY DEF Types
  <2>2. f \in Flags
    BY <1>2, FlagFacts
  <2>3. CASE p \in DOMAIN f
    <3>1. PICK r \in ToSet(rows) : Tag(r) = p
      BY <1>2, <2>3, FlagFacts
    <3>2. PICK i \in 1..n : r = rows[i]
      BY <1>2, <3>1 DEF ToSet
    <3>3. PICK j \in DOMAIN queue[w] : i <= j /\ queue[w][j].msg = <<p, x>>
      BY <1>2, <3>1, <3>2 DEF Ends
    <3>4. Tag(queue[w][j]) = p /\ Off(queue[w][j]) = x
      BY <3>3 DEF Tag, Off
    <3>5. j \in 1..n
      <4> SUFFICES ASSUME j > n PROVE FALSE
        BY <1>3
      <4>1. j - n \in DOMAIN queue'[w] /\ (j - n) + n = j
        BY <1>2, <1>3
      <4>2. queue'[w][j - n] = queue[w][j]
        BY <1>2, <4>1
      <4>3. queue[w][j] \in InQueue(w)'
        BY <4>1, <4>2 DEF InQueue, ToSet
      <4> QED BY <1>9, <3>4, <4>3
    <3>6. queue[w][j] \in ToSet(rows)
      BY <1>2, <3>5 DEF ToSet
    <3>7. f[p] = x
      <4>1. x <= f[p]
        BY <1>2, <3>4, <3>6, FlagFacts
      <4>2. PICK s \in ToSet(rows) : Tag(s) = p /\ Off(s) = f[p]
        BY <1>2, <2>3, FlagFacts
      <4>3. f[p] <= x
        BY <1>2, <1>3, <1>7, <4>2
      <4> QED BY <2>2, <2>3, <4>1, <4>3, FlagType
    <3>8. tracing'[w][p] = push_top(tracing[w][p], x)
      BY <1>2, <2>1, <2>3, <3>7 DEF update_from
    <3>9. tracing[w][p] \in Seq(EntryOf(Offsets(p))) /\ Offsets(p) \in SUBSET Nat /\ x \in Offsets(p)
      BY <2>2, <2>3, <3>7, LogFacts, FlagType DEF Types
    <3>10. \A l \in DOMAIN tracing[w][p] : tracing[w][p][l].n <= x
      BY <1>7, EntryHasRow
    <3>11. tracing'[w][p][Len(tracing'[w][p])] = [n |-> x, mark |-> NoMark]
      <4> DEFINE s == tracing[w][p]
                 q == tracing'[w][p]
                 N == Offsets(p)
      <4>1. /\ s \in Seq(EntryOf(N)) /\ N \in SUBSET Nat /\ x \in N /\ q = push_top(s, x)
            /\ \A l \in DOMAIN s : s[l].n <= x
        BY <3>8, <3>9, <3>10
      <4> HIDE DEF s, q, N
      <4>2. q[Len(q)] = [n |-> x, mark |-> NoMark]
        BY <4>1, PushLast
      <4> QED BY <4>2 DEF q
    <3> QED BY <3>11 DEF Top
  <2>4. CASE p \notin DOMAIN f
    <3>1. tracing'[w][p] = tracing[w][p]
      BY <1>2, <2>1, <2>4 DEF update_from
    <3>2. \A r \in ToSet(rows) : Tag(r) # p
      BY <1>2, <2>4, FlagFacts
    <3> QED BY <1>2, <1>9, <3>1, <3>2 DEF Ends
  <2> QED BY <2>3, <2>4
<1> QED BY <1>2, <1>4, <1>5, <1>6, <1>7, <1>8, <1>9 DEF Ends

LEMMA SpawnFollows ==
  ASSUME Types, Stacks, NEW w \in Writers, NEW n \in Nat \ {0}, SpawnTask(w, n),
         NEW p \in Tags, Follows(p)
  PROVE  Follows(p)'
<1> DEFINE rows == SubSeq(queue[w], 1, n)
<1>1. Spawned(w, n, rows, Len(open[w]) + 1)
  BY SpawnEffect
<1> HIDE DEF rows
<1>2. /\ tracing' = [tracing EXCEPT ![w] = update_from(tracing[w], FlagOf(rows))]
      /\ position' = position /\ \A v \in Writers : Held(v)' = Held(v)
      /\ \A v \in Writers \ {w} : queue'[v] = queue[v] /\ open'[v] = open[v]
      /\ DOMAIN tracing = Writers
  BY <1>1 DEF Spawned, Types
<1>3. /\ watch' = watch /\ fresh' = fresh /\ overwritten' = overwritten /\ status' = status
      /\ committed' = committed /\ refused' = refused /\ phase' = phase
  BY DEF SpawnTask, watchVars, trackerVars
<1>4. Reads(p)'
  BY <1>2 DEF Follows, Reads
<1>5. (\A i \in Levels : UpToDate(i, p)' => UpToDate(i, p)) /\ (Idle(p) => Idle(p)')
  <2>1. \A v \in Writers : Has(v, p)' <=> Has(v, p)
    BY <1>2 DEF Has
  <2>2. \A i : Reporting(i, p)' <=> Reporting(i, p)
    BY <1>3 DEF Reporting
  <2> QED BY <1>3, <2>1, <2>2, ChainFacts DEF UpToDate, Idle
<1>6. ASSUME NEW x \in Nat, Newest(p, x)'
      PROVE  /\ \A v \in Writers : Ends(v, p, x)'
             /\ phase' = "run" /\ p \notin refused' => Followed(p, x)'
  <2>1. Newest(p, x)
    BY <1>2, <1>6 DEF Newest
  <2>2. ASSUME NEW v \in Writers PROVE Ends(v, p, x)'
    <3>1. Ends(v, p, x)
      BY <2>1 DEF Follows
    <3>2. CASE v = w
      BY <3>1, <3>2, SpawnEnds
    <3>3. CASE v # w
      <4>1. queue'[v] = queue[v] /\ open'[v] = open[v] /\ tracing'[v] = tracing[v]
        BY <1>2, <3>3
      <4> QED BY <1>3, <3>1, <4>1, EndsStays
    <3> QED BY <3>2, <3>3
  <2>3. ASSUME phase' = "run", p \notin refused' PROVE Followed(p, x)'
    <3>1. Followed(p, x)
      BY <1>3, <2>1, <2>3 DEF Follows
    <3> QED BY <1>3, <1>5, <3>1, FollowedStays
  <2> QED BY <2>2, <2>3
<1> QED BY <1>4, <1>6 DEF Follows

(***************************************************************************)
(* A task ends.                                                            *)
(***************************************************************************)
\* What the writer keeps and reports of the partition when a task with flag f ends.
Tells(w, f, p) ==
  /\ p \in DOMAIN watch'[w] => p \in DOMAIN f
  /\ p \notin DOMAIN f => tracing'[w][p] = tracing[w][p]
  /\ tracing'[w][p] # <<>> =>
       /\ tracing[w][p] # <<>>
       /\ Top(tracing'[w][p][Len(tracing'[w][p])]) = Top(tracing[w][p][Len(tracing[w][p])])
  /\ p \in DOMAIN f /\ tracing'[w][p] = <<>> =>
       /\ Len(tracing[w][p]) = 1 /\ tracing[w][p] # <<>>
       /\ p \in DOMAIN watch'[w] /\ watch'[w][p] = Top(tracing[w][p][1])

LEMMA DoneTells ==
  ASSUME Types, Stacks, NEW w \in Writers, NEW k \in Nat \ {0}, TaskDone(w, k), k \in DOMAIN open[w],
         NEW f \in Flags, f = FlagOf(open[w][k]), NEW p \in Tags
  PROVE  Tells(w, f, p)
<1> DEFINE d == finish_from(tracing[w], f)
<1>1. tracing' = [tracing EXCEPT ![w] = d.tracing] /\ watch' = [watch EXCEPT ![w] = d.flag]
  BY DEF TaskDone
<1>2. DOMAIN tracing = Writers /\ DOMAIN tracing[w] = Tags /\ DOMAIN watch = Writers
  BY DEF Types
<1>3. Finished(tracing[w], f, d)
  BY <1>2, FinishForm
<1>4. tracing'[w] = d.tracing /\ watch'[w] = d.flag
  BY <1>1, <1>2
<1> HIDE DEF d
<1>5. CASE p \in DOMAIN f
  <2> DEFINE s == tracing[w][p]
             t == tracing'[w][p]
             N == Offsets(p)
             n == f[p]
             out == pop_top(s, n).out
  <2>1. /\ t = pop_top(s, n).stack
        /\ p \in DOMAIN watch'[w] <=> out # NoMark
        /\ p \in DOMAIN watch'[w] => watch'[w][p] = out
    BY <1>3, <1>4, <1>5 DEF Finished
  <2>2. N \in SUBSET Nat /\ s \in Seq(EntryOf(N)) /\ Sorted(s)
    BY LogFacts DEF Types, Stacks
  <2>3. \E i \in DOMAIN s : s[i].n = n
    BY <1>5, TaskHasEntry
  <2> HIDE DEF s, t, N, n
  <2>4. /\ s # <<>>
        /\ t # <<>> => Top(t[Len(t)]) = Top(s[Len(s)])
        /\ t = <<>> => Len(s) = 1 /\ out = Top(s[1]) /\ Top(s[1]) # NoMark
    BY <2>1, <2>2, <2>3, PopLast
  <2> HIDE DEF out
  <2>5. t = <<>> => p \in DOMAIN watch'[w] /\ watch'[w][p] = Top(s[1])
    BY <2>1, <2>4
  <2> QED BY <1>5, <2>4, <2>5 DEF Tells, s, t
<1>6. CASE p \notin DOMAIN f
  BY <1>3, <1>4, <1>6 DEF Finished, Tells
<1> QED BY <1>5, <1>6

\* The steps of a writer and of its watch channel.
DoneFacts(w, f) ==
  /\ queue' = queue /\ position' = position /\ phase' = phase
  /\ status' = status /\ committed' = committed /\ refused' = refused
  /\ InQueue(w)' = InQueue(w) /\ InQueue(w) \subseteq Held(w)'
  /\ \A v \in Writers : Held(v)' \subseteq Held(v)
  /\ \A r \in Held(w) : r \in Held(w)' \/ Tag(r) \in DOMAIN f
  /\ \A p \in DOMAIN f : Has(w, p)
  /\ \A v \in Writers \ {w} :
       /\ open'[v] = open[v] /\ tracing'[v] = tracing[v] /\ watch'[v] = watch[v]
       /\ overwritten'[v] = overwritten[v]
  /\ \A i \in Levels : fresh'[i] <=> fresh[i] \/ Chain[i] = w
  /\ \A p \in Tags : p \notin overwritten'[w] /\ p \notin DOMAIN watch'[w] =>
       p \notin overwritten[w] /\ \A i \in Levels : Chain[i] = w => ~Reporting(i, p)

LEMMA DoneForm ==
  ASSUME Types, NEW w \in Writers, NEW k \in Nat \ {0}, TaskDone(w, k),
         NEW f, f = FlagOf(open[w][k])
  PROVE  DoneFacts(w, f) /\ f \in Flags /\ k \in DOMAIN open[w]
<1> DEFINE rows == open[w][k]
           d == finish_from(tracing[w], f)
           unseen == \E i \in Levels : Chain[i] = w /\ fresh[i]
<1>1. Removed(w, k, rows)
  BY DoneEffect
<1>2. /\ tracing' = [tracing EXCEPT ![w] = d.tracing] /\ watch' = [watch EXCEPT ![w] = d.flag]
      /\ overwritten' = [overwritten EXCEPT ![w] =
           (overwritten[w] \cup IF unseen THEN DOMAIN watch[w] ELSE {}) \ DOMAIN d.flag]
      /\ fresh' = [i \in Levels |-> fresh[i] \/ Chain[i] = w]
      /\ phase' = phase /\ status' = status /\ committed' = committed /\ refused' = refused
  BY DEF TaskDone, trackerVars
<1>3. DOMAIN tracing = Writers /\ DOMAIN watch = Writers /\ DOMAIN overwritten = Writers
  BY DEF Types
<1>4. \A p \in Tags : p \notin overwritten'[w] /\ p \notin DOMAIN watch'[w] =>
        p \notin overwritten[w] /\ \A i \in Levels : Chain[i] = w => ~Reporting(i, p)
  <2> SUFFICES ASSUME NEW p \in Tags, p \notin overwritten'[w], p \notin DOMAIN watch'[w]
               PROVE  p \notin overwritten[w] /\ \A i \in Levels : Chain[i] = w => ~Reporting(i, p)
    OBVIOUS
  <2>1. /\ watch'[w] = d.flag
        /\ overwritten'[w] = (overwritten[w] \cup IF unseen THEN DOMAIN watch[w] ELSE {}) \ DOMAIN d.flag
    BY <1>2, <1>3
  <2> HIDE DEF d
  <2> QED BY <2>1 DEF Reporting
<1> HIDE DEF rows, d, unseen
<1>5. /\ queue' = queue /\ position' = position /\ k \in DOMAIN open[w] /\ rows \in Seq(Rows)
      /\ InTask(w, k) = ToSet(rows) /\ InQueue(w)' = InQueue(w)
      /\ \A v \in Writers \ {w} : open'[v] = open[v]
      /\ \A v \in Writers : Held(v)' \subseteq Held(v) /\ Held(v) \subseteq Held(v)' \cup ToSet(rows)
  BY <1>1 DEF Removed
<1>6. /\ f \in Flags
      /\ \A r \in ToSet(rows) : Tag(r) \in DOMAIN f
      /\ \A p \in DOMAIN f : \E r \in ToSet(rows) : Tag(r) = p
  BY <1>5, FlagFacts DEF rows
<1>7. InQueue(w) \subseteq Held(w)' /\ ToSet(rows) \subseteq Held(w)
  BY <1>5 DEF Held, InOpen
<1>8. \A p \in DOMAIN f : Has(w, p)
  BY <1>6, <1>7 DEF Has
<1>9. \A r \in Held(w) : r \in Held(w)' \/ Tag(r) \in DOMAIN f
  BY <1>5, <1>6
<1>10. \A v \in Writers \ {w} :
         tracing'[v] = tracing[v] /\ watch'[v] = watch[v] /\ overwritten'[v] = overwritten[v]
  BY <1>2, <1>3
<1>11. \A i \in Levels : fresh'[i] <=> fresh[i] \/ Chain[i] = w
  BY <1>2
<1> QED BY <1>2, <1>4, <1>5, <1>6, <1>7, <1>8, <1>9, <1>10, <1>11 DEF DoneFacts

LEMMA DoneEnds ==
  ASSUME Types, EmptyWithout', NEW w \in Writers, NEW f \in Flags, DoneFacts(w, f),
         Types', Stacks', NEW p \in Tags, Tells(w, f, p), NEW x \in Nat, Ends(w, p, x)
  PROVE  Ends(w, p, x)'
<1>1. /\ queue' = queue /\ InQueue(w)' = InQueue(w)
      /\ InQueue(w) \subseteq Held(w)' /\ Held(w)' \subseteq Held(w)
  BY DEF DoneFacts
<1>2. \A r \in Held(w)' : Tag(r) = p => Off(r) <= x
  BY <1>1 DEF Ends
<1>3. \A i \in DOMAIN queue'[w] : Tag(queue'[w][i]) = p =>
        \E j \in DOMAIN queue'[w] : i <= j /\ queue'[w][j].msg = <<p, x>>
  BY <1>1 DEF Ends
<1>4. (\A r \in InQueue(w)' : Tag(r) # p) /\ tracing'[w][p] # <<>>
        => Top(tracing'[w][p][Len(tracing'[w][p])]) = x
  BY <1>1 DEF Ends, Tells
<1>5. ASSUME ~Has(w, p)', NEW i \in Levels, Chain[i] = w, Reporting(i, p)' PROVE watch'[w][p] = x
  <2>1. p \in DOMAIN f
    BY <1>5 DEF Reporting, Tells
  <2>2. tracing'[w][p] = <<>>
    BY <1>5 DEF EmptyWithout
  <2>3. Len(tracing[w][p]) = 1 /\ tracing[w][p] # <<>> /\ watch'[w][p] = Top(tracing[w][p][1])
    BY <2>1, <2>2 DEF Tells
  <2>4. \A r \in InQueue(w) : Tag(r) # p
    BY <1>1, <1>5 DEF Has
  <2> QED BY <2>3, <2>4 DEF Ends
<1> QED BY <1>2, <1>3, <1>4, <1>5 DEF Ends

LEMMA DoneUpToDate ==
  ASSUME EmptyWithout', Types', Stacks', NEW w \in Writers, NEW f, DoneFacts(w, f),
         NEW p \in Tags, Tells(w, f, p)
  PROVE  /\ \A i \in Levels : UpToDate(i, p)' => UpToDate(i, p)
         /\ Idle(p) => Idle(p)'
<1>1. ASSUME NEW i \in Levels, Chain[i] # w
      PROVE  (UpToDate(i, p)' => UpToDate(i, p)) /\ (Reporting(i, p)' <=> Reporting(i, p))
  <2>1. Chain[i] \in Writers \ {w}
    BY <1>1, ChainFacts
  <2>2. /\ queue'[Chain[i]] = queue[Chain[i]] /\ open'[Chain[i]] = open[Chain[i]]
        /\ watch'[Chain[i]] = watch[Chain[i]] /\ overwritten'[Chain[i]] = overwritten[Chain[i]]
        /\ (fresh'[i] <=> fresh[i])
    BY <1>1, <2>1 DEF DoneFacts
  <2>3. Has(Chain[i], p)' <=> Has(Chain[i], p)
    BY <2>2, SameHeldBy DEF Has
  <2> QED BY <2>2, <2>3 DEF UpToDate, Reporting
<1>2. ASSUME NEW i \in Levels, Chain[i] = w, UpToDate(i, p)' PROVE UpToDate(i, p)
  <2>1. p \notin DOMAIN watch'[w] /\ ~Has(w, p)' /\ p \notin overwritten'[w]
    BY <1>2 DEF UpToDate, Reporting, DoneFacts
  <2>2. p \notin overwritten[w] /\ ~Reporting(i, p)
    BY <1>2, <2>1 DEF DoneFacts
  <2>3. p \notin DOMAIN f
    BY <2>1 DEF EmptyWithout, Tells
  <2>4. ~Has(w, p)
    BY <2>1, <2>3 DEF Has, DoneFacts
  <2> QED BY <1>2, <2>2, <2>4 DEF UpToDate
<1>3. ASSUME Idle(p) PROVE Idle(p)'
  <2>1. \A v \in Writers : ~Has(v, p)
    BY <1>3, ChainFacts DEF Idle
  <2>2. \A v \in Writers : ~Has(v, p)'
    BY <2>1 DEF DoneFacts, Has
  <2>3. p \notin DOMAIN watch'[w]
    BY <2>1 DEF DoneFacts, Tells
  <2>4. \A i \in Levels : ~Reporting(i, p)'
    BY <1>1, <1>3, <2>3 DEF Idle, Reporting
  <2> QED BY <2>2, <2>4, ChainFacts DEF Idle
<1> QED BY <1>1, <1>2, <1>3

LEMMA DoneFollows ==
  ASSUME Types, Stacks, Types', Stacks', NEW w \in Writers, NEW k \in Nat \ {0}, TaskDone(w, k),
         NEW p \in Tags, Follows(p)
  PROVE  Follows(p)'
<1>1. PICK f : f = FlagOf(open[w][k])
  OBVIOUS
<1>2. DoneFacts(w, f) /\ f \in Flags /\ k \in DOMAIN open[w]
  BY <1>1, DoneForm
<1>3. Tells(w, f, p)
  BY <1>1, <1>2, DoneTells
<1>4. EmptyWithout'
  BY NoEntries, PTL
<1>5. /\ queue' = queue /\ position' = position /\ phase' = phase
      /\ status' = status /\ committed' = committed /\ refused' = refused
  BY <1>2 DEF DoneFacts
<1>6. Reads(p)'
  BY <1>2 DEF DoneFacts, Follows, Reads
<1>7. (\A i \in Levels : UpToDate(i, p)' => UpToDate(i, p)) /\ (Idle(p) => Idle(p)')
  BY <1>2, <1>3, <1>4, DoneUpToDate
<1>8. ASSUME NEW x \in Nat, Newest(p, x)'
      PROVE  /\ \A v \in Writers : Ends(v, p, x)'
             /\ phase' = "run" /\ p \notin refused' => Followed(p, x)'
  <2>1. Newest(p, x)
    BY <1>5, <1>8 DEF Newest
  <2>2. ASSUME NEW v \in Writers PROVE Ends(v, p, x)'
    <3>1. Ends(v, p, x)
      BY <2>1 DEF Follows
    <3>2. CASE v = w
      BY <1>2, <1>3, <1>4, <3>1, <3>2, DoneEnds
    <3>3. CASE v # w
      <4>1. /\ queue'[v] = queue[v] /\ open'[v] = open[v] /\ tracing'[v] = tracing[v] /\ watch'[v] = watch[v]
            /\ \A i \in Levels : Chain[i] = v /\ fresh'[i] => fresh[i]
        BY <1>2, <3>3 DEF DoneFacts
      <4> QED BY <3>1, <4>1, EndsStays
    <3> QED BY <3>2, <3>3
  <2>3. ASSUME phase' = "run", p \notin refused' PROVE Followed(p, x)'
    <3>1. Followed(p, x)
      BY <1>5, <2>1, <2>3 DEF Follows
    <3> QED BY <1>5, <1>7, <3>1, FollowedStays
  <2> QED BY <2>2, <2>3
<1> QED BY <1>6, <1>8 DEF Follows

(***************************************************************************)
(* A partition that nothing is held or reported of.                        *)
(***************************************************************************)
Nothing(p) ==
  /\ \A w \in Writers : ~Has(w, p) /\ tracing[w][p] = <<>>
  /\ \A i \in Levels : ~Reporting(i, p)
  /\ position[p] = committed[p]

NothingToFollow == \A p \in Tags : Types /\ Nothing(p) => Follows(p)

LEMMA NothingFollows == NothingToFollow
<1> SUFFICES ASSUME NEW p \in Tags, Types, Nothing(p) PROVE Follows(p)
  BY DEF NothingToFollow
<1>1. Reads(p)
  BY DEF Nothing, Reads, Has
<1>2. ASSUME NEW x, NEW w \in Writers PROVE Ends(w, p, x)
  <2>1. \A r \in Held(w) : Tag(r) # p
    BY DEF Nothing, Has
  <2>2. \A i \in DOMAIN queue[w] : Tag(queue[w][i]) # p
    BY <2>1, TypesShape DEF Shapes
  <2> QED BY <2>1, <2>2 DEF Ends, Nothing
<1>3. \A x \in Nat : Newest(p, x) => Followed(p, x)
  BY ChainFacts DEF Newest, Followed, Idle, Nothing
<1> QED BY <1>1, <1>2, <1>3 DEF Follows

\* Nothing is held by a process that starts.
LEMMA StartNothing ==
  ASSUME \A w \in Writers : Held(w) = {},
         tracing = [w \in Writers |-> [p \in Tags |-> <<>>]],
         watch = [w \in Writers |-> NoFlag], NEW p \in Tags, position[p] = committed[p]
  PROVE  Nothing(p)
<1>1. \A w \in Writers : ~Has(w, p) /\ tracing[w][p] = <<>>
  BY DEF Has
<1>2. \A i \in Levels : ~Reporting(i, p)
  BY ChainFacts, NoFlagType DEF Reporting
<1> QED BY <1>1, <1>2 DEF Nothing

LEMMA FollowingInit == Init => Following
<1> SUFFICES ASSUME Init, NEW p \in Tags PROVE Follows(p)
  BY DEF Following
<1>1. \A w \in Writers : Held(w) = {}
  BY EmptyOrder DEF Init
<1>2. Types
  BY TypesInit
<1>3. Nothing(p)
  BY <1>1, StartNothing DEF Init
<1> QED BY <1>2, <1>3, NothingFollows DEF NothingToFollow

LEMMA RestartFollows ==
  ASSUME Types', Restart, NEW p \in Tags
  PROVE  Follows(p)'
<1>1. /\ tracing' = [w \in Writers |-> [q \in Tags |-> <<>>]]
      /\ watch' = [w \in Writers |-> NoFlag] /\ position' = committed /\ committed' = committed
      /\ \A w \in Writers : Held(w)' = {}
  BY StartEffect DEF Restart, Fresh
<1>2. \A w \in Writers : ~Has(w, p)' /\ tracing'[w][p] = <<>>
  BY <1>1 DEF Has
<1>3. \A i \in Levels : ~Reporting(i, p)'
  BY <1>1, ChainFacts, NoFlagType DEF Reporting
<1>4. Nothing(p)'
  BY <1>1, <1>2, <1>3 DEF Nothing
<1>5. NothingToFollow'
  BY NothingFollows, PTL
<1> QED BY <1>4, <1>5 DEF NothingToFollow

\* A partition that is read again is followed when all of it was written and seen.
LEMMA ResubscribeFollows ==
  ASSUME Types, Stacks, Types', NEW q \in Tags, Resubscribe(q), NEW p \in Tags, p \notin reread',
         Follows(p)
  PROVE  Follows(p)'
<1>1. /\ queue' = queue /\ open' = open /\ tracing' = tracing /\ watch' = watch /\ fresh' = fresh
      /\ overwritten' = overwritten /\ status' = status /\ committed' = committed /\ refused' = refused
      /\ phase' = phase /\ phase = "run"
      /\ position' = [position EXCEPT ![q] = committed[q]] /\ position \in [Tags -> Nat]
      /\ (Unsettled(q) => q \in reread')
  BY DEF Resubscribe, writerVars, trackerVars, watchVars, Types
<1>2. CASE p # q
  <2>1. position'[p] = position[p]
    BY <1>1, <1>2
  <2> QED BY <1>1, <2>1, FollowsStays
<1>3. CASE p = q
  <2>1. Waiting(p) = {} /\ \A i \in Levels : ~Reporting(i, p)
    BY <1>1, <1>3 DEF Unsettled, Reporting
  <2>2. ASSUME NEW w \in Writers, NEW r \in Held(w), Tag(r) = p PROVE FALSE
    <3>1. r \in Rows /\ r.msg \in Good
      BY TypesShape, RowFacts DEF Shapes
    <3>2. r \in ToSet(queue[w]) \/ \E k \in DOMAIN open[w] : r \in ToSet(open[w][k])
      BY DEF Held, InQueue, InOpen, InTask
    <3>3. r.msg[1] = p
      BY <2>2 DEF Tag
    <3>4. r.msg \in Waiting(p)
      BY <3>1, <3>2, <3>3 DEF Waiting
    <3> QED BY <2>1, <3>4
  <2>3. \A w \in Writers : ~Has(w, p)
    BY <2>2 DEF Has
  <2>4. \A w \in Writers : tracing[w][p] = <<>>
    BY <2>3, NoEntries DEF EmptyWithout
  <2>5. (\A w \in Writers : ~Has(w, p)') /\ \A i \in Levels : ~Reporting(i, p)'
    BY <1>1, <2>1, <2>3, UpToDateStays
  <2>6. position'[p] = committed'[p]
    BY <1>1, <1>3
  <2>7. Nothing(p)'
    BY <1>1, <2>4, <2>5, <2>6 DEF Nothing
  <2>8. NothingToFollow'
    BY NothingFollows, PTL
  <2> QED BY <2>7, <2>8 DEF NothingToFollow
<1> QED BY <1>2, <1>3

(***************************************************************************)
(* All partitions are followed.                                            *)
(***************************************************************************)
LEMMA FollowingStep == Inv /\ Inv' /\ Following /\ [Next]_vars => Following'
<1> SUFFICES ASSUME Inv, Inv', Following, [Next]_vars, NEW p \in Tags, p \notin reread'
             PROVE  Follows(p)'
  BY DEF Following
<1>1. Types /\ Stacks /\ Types' /\ Stacks'
  BY DEF Inv
<1>2. 1..INSERT_LIMIT \subseteq Nat \ {0} /\ 1..spawn_limit \subseteq Nat \ {0}
  BY PersistorAssumption
<1>3. p \notin reread => Follows(p)
  BY DEF Following
<1>4. ASSUME NEW q \in Tags, OnMessage(q) PROVE Follows(p)'
  <2>1. Follows(p)
    BY <1>3, <1>4 DEF OnMessage, historyVars
  <2> QED BY <1>1, <1>4, <2>1, MessageFollows
<1>5. ASSUME NEW q \in Tags, Resubscribe(q) PROVE Follows(p)'
  <2>1. Follows(p)
    BY <1>3, <1>5 DEF Resubscribe
  <2> QED BY <1>1, <1>5, <2>1, ResubscribeFollows
<1>6. ASSUME NEW w \in Writers, NEW n \in 1..INSERT_LIMIT, SpawnTask(w, n) PROVE Follows(p)'
  <2>1. Follows(p)
    BY <1>3, <1>6 DEF SpawnTask
  <2> QED BY <1>1, <1>2, <1>6, <2>1, SpawnFollows
<1>7. ASSUME NEW w \in Writers, NEW k \in 1..spawn_limit, TaskDone(w, k) PROVE Follows(p)'
  <2>1. Follows(p)
    BY <1>3, <1>7 DEF TaskDone, historyVars
  <2> QED BY <1>1, <1>2, <1>7, <2>1, DoneFollows
<1>8. ASSUME NEW i \in Levels, NEW ok \in BOOLEAN, Changed(i, ok) PROVE Follows(p)'
  <2>1. Follows(p)
    BY <1>3, <1>8 DEF Changed, historyVars
  <2> QED BY <1>1, <1>8, <2>1, ChangedFollows
<1>9. CASE CtrlC
  <2>1. /\ position' = position /\ queue' = queue /\ open' = open /\ tracing' = tracing
        /\ watch' = watch /\ fresh' = fresh /\ reread' = reread /\ phase' # "run"
    BY <1>9 DEF CtrlC, writerVars, historyVars, watchVars
  <2> QED BY <1>3, <2>1, FollowsStays
<1>10. CASE Finish
  <2>1. /\ position' = position /\ queue' = queue /\ open' = open /\ tracing' = tracing
        /\ watch' = watch /\ fresh' = fresh /\ reread' = reread /\ phase' # "run"
    BY <1>10 DEF Finish, writerVars, historyVars, watchVars
  <2> QED BY <1>3, <2>1, FollowsStays
<1>11. ASSUME NEW ok \in BOOLEAN, FinalCommit(ok) PROVE Follows(p)'
  <2>1. /\ position' = position /\ queue' = queue /\ open' = open /\ tracing' = tracing
        /\ watch' = watch /\ fresh' = fresh /\ reread' = reread /\ phase' # "run"
    BY <1>11 DEF FinalCommit, writerVars, historyVars, watchVars
  <2> QED BY <1>3, <2>1, FollowsStays
<1>12. CASE Restart
  BY <1>1, <1>12, RestartFollows
<1>13. CASE UNCHANGED vars
  <2>1. /\ position' = position /\ queue' = queue /\ open' = open /\ tracing' = tracing
        /\ watch' = watch /\ fresh' = fresh /\ reread' = reread /\ phase' = phase
        /\ overwritten' = overwritten /\ status' = status /\ committed' = committed /\ refused' = refused
    BY <1>13 DEF vars, writerVars, historyVars, watchVars, trackerVars
  <2> QED BY <1>3, <2>1, FollowsStays
<1> QED BY <1>4, <1>5, <1>6, <1>7, <1>8, <1>9, <1>10, <1>11, <1>12, <1>13 DEF Next

\* Between run_stream, the writers, their watch channels and the trackers no
\* report is lost of a partition that was not read again while it was written: the
\* last one is still to come, or every tracker has it, or it is committed.
THEOREM CommitsFollow == Spec => []Following
<1>1. Init => Inv /\ Following
  BY InvInit, FollowingInit
<1>2. Inv /\ Following /\ [Next]_vars => Inv' /\ Following'
  BY InvStep, FollowingStep
<1> QED BY <1>1, <1>2, PTL DEF Spec

(***************************************************************************)
(* At rest all levels are up to date, and the outermost one is settled.    *)
(***************************************************************************)
LEMMA AllSettled ==
  ASSUME Types, NEW p, NEW x, Kept(p, x), \A i \in Levels : UpToDate(i, p)
  PROVE  Settled(1, p, x)
<1> DEFINE S == {i \in 1..Bottom : Settled(i, p, x)}
<1>1. Levels = 1..Bottom /\ Bottom \in Nat /\ Bottom # 0 /\ Bottom \in 1..Bottom
  BY ChainFacts
<1>2. Bottom \in S
  BY <1>1, SettledStep DEF SettlesBySteps
<1>3. ASSUME NEW i \in 1..Bottom - 1, i + 1 \in S PROVE i \in S
  <2>1. i \in Levels /\ i < Bottom /\ i \in 1..Bottom /\ status[i] \in Marks
    BY <1>1 DEF Types
  <2>2. p \in DOMAIN status[i] /\ x <= status[i][p].val
    BY <1>3, <2>1 DEF Kept
  <2>3. status[i][p].left \in BOOLEAN
    BY <2>1, <2>2, MarkType
  <2>4. SideAt(i, p, x, TRUE) \/ SideAt(i, p, x, FALSE)
    BY <2>2, <2>3 DEF SideAt
  <2> QED BY <1>3, <2>1, <2>4, SettledStep DEF SettlesBySteps
<1>4. 1..Bottom \subseteq S
  <2> HIDE DEF S
  <2> QED BY <1>1, <1>2, <1>3, DownInduction
<1> QED BY <1>1, <1>4

\* The newest message of a partition that has rows.
LEMMA NewestExists ==
  ASSUME NEW m \in Good, NEW p \in Tags, p = m[1], position[p] = Len(Log[p])
  PROVE  \E x \in Nat : Newest(p, x) /\ m[2] <= x
<1> DEFINE L == Len(Log[p])
           S == {y \in 0..L : <<p, y>> \in Good}
<1>1. L \in Nat
  BY LogFacts
<1>2. ASSUME NEW g \in Good, g[1] = p PROVE g[2] \in S /\ g[2] < L
  <2>1. g = <<p, g[2]>> /\ g[2] \in Nat /\ g[2] < Len(Log[p])
    BY <1>2, GoodFacts
  <2> QED BY <1>1, <2>1
<1>3. m[2] \in S
  BY <1>2
<1>4. PICK x \in S : \A y \in S : y <= x
  <2>1. S \in SUBSET (0..L) /\ S # {}
    BY <1>3
  <2> HIDE DEF S, L
  <2> QED BY <1>1, <2>1, Largest
<1>5. <<p, x>> \in Good /\ x \in Nat /\ x < L
  <2>1. <<p, x>> \in Good /\ x \in Nat /\ <<p, x>>[1] = p /\ <<p, x>>[2] = x
    BY <1>1
  <2> QED BY <1>2, <2>1
<1>6. Newest(p, x)
  BY <1>2, <1>4, <1>5 DEF Newest
<1> QED BY <1>3, <1>4, <1>5, <1>6

\* A partition that no commit was refused for, whose reports were all looked at and
\* that was not read again while it was written is committed up to its last message
\* with rows, whatever order the writers ended in.
THEOREM CommitsCatchUpHolds == Spec => []CommitsCatchUp
<1>1. Inv /\ Following => CommitsCatchUp
  <2> SUFFICES ASSUME Inv, Following, AtRest, NEW m \in Good, m[1] \notin refused \cup reread,
                      \A w \in Writers : m[1] \notin overwritten[w]
               PROVE  m[2] < committed[m[1]]
    BY DEF CommitsCatchUp
  <2>1. PICK p \in Tags : p = m[1]
    BY GoodFacts
  <2>2. PICK x \in Nat : Newest(p, x) /\ m[2] <= x
    BY <2>1, NewestExists DEF AtRest
  <2>3. Followed(p, x)
    BY <2>1, <2>2 DEF Following, Follows, AtRest
  <2>4. \A i \in Levels : UpToDate(i, p)
    <3>1. \A w \in Writers : Held(w) = {}
      BY EmptyHeld DEF AtRest
    <3> QED BY <2>1, <3>1, ChainFacts DEF UpToDate, Has, Reporting, AtRest
  <2>5. x < committed[p]
    BY <2>3, <2>4, AllSettled DEF Followed, Inv
  <2>6. committed[p] \in Nat /\ m[2] \in Nat
    BY GoodFacts DEF Inv, Types
  <2> QED BY <2>1, <2>2, <2>5, <2>6
<1> QED BY <1>1, PersistorInvariant, CommitsFollow, PTL

=============================================================================
