--------------------------- MODULE ProducerProofs ---------------------------
(***************************************************************************)
(* The way of the engine's messages to Kafka, for any managers, operations *)
(* and errors and any sizes of the queues: the unified stream is in order, *)
(* the engine survives as long as no operation has more messages than      *)
(* is_block keeps free, and every message is in exactly one place.         *)
(***************************************************************************)
EXTENDS Producer, SequenceFacts

Full == {m \in Managers : ~Simple(m)}

U == "unifyevents"

Entry == [topic : {U}, msg : Nat, opaque : Nat]

\* The messages of a sequence of the Kafka client's entries.
Msgs(q) == [i \in 1..Len(q) |-> q[i].msg]

(***************************************************************************)
(* What Append and Tail do to an ascending sequence.                       *)
(***************************************************************************)
LEMMA AppendAscends ==
  ASSUME NEW s \in Seq(Nat), NEW x \in Nat, Ascending(s), \A y \in ToSet(s) : y < x
  PROVE  Ascending(Append(s, x))
<1>1. /\ Len(Append(s, x)) = Len(s) + 1 /\ Len(s) \in Nat
      /\ \A i \in 1..Len(s) : Append(s, x)[i] = s[i]
      /\ Append(s, x)[Len(s) + 1] = x
      /\ DOMAIN Append(s, x) = 1..Len(s) + 1 /\ DOMAIN s = 1..Len(s)
  OBVIOUS
<1>2. \A i \in 1..Len(s) : s[i] < x
  BY <1>1 DEF ToSet
<1> QED BY <1>1, <1>2 DEF Ascending

LEMMA TailAscends ==
  ASSUME NEW s \in Seq(Nat), s # <<>>, Ascending(s)
  PROVE  Ascending(Tail(s)) /\ \A y \in ToSet(Tail(s)) : Head(s) < y
<1>1. /\ Len(s) \in Nat \ {0} /\ DOMAIN s = 1..Len(s) /\ Head(s) = s[1]
      /\ DOMAIN Tail(s) = 1..Len(s) - 1
      /\ \A i \in 1..Len(s) - 1 : Tail(s)[i] = s[i + 1]
  OBVIOUS
<1>2. \A i \in 1..Len(s) - 1 : i + 1 \in DOMAIN s /\ 1 < i + 1 /\ 1 \in DOMAIN s
  BY <1>1
<1>3. \A i \in 1..Len(s) - 1 : Head(s) < Tail(s)[i]
  BY <1>1, <1>2 DEF Ascending
<1>4. \A i, j \in 1..Len(s) - 1 : i < j => i + 1 < j + 1
  BY <1>1
<1> QED BY <1>1, <1>2, <1>3, <1>4 DEF ToSet, Ascending

LEMMA MsgsType ==
  ASSUME NEW q \in Seq(Entry)
  PROVE  Msgs(q) \in Seq(Nat) /\ Len(Msgs(q)) = Len(q) /\ Len(q) \in Nat
<1>1. \A i \in 1..Len(q) : q[i] \in Entry /\ q[i].msg \in Nat
  <2>1. \A i \in 1..Len(q) : q[i] \in Entry
    OBVIOUS
  <2> QED BY <2>1 DEF Entry
<1>2. Len(q) \in Nat /\ Msgs(q) \in [1..Len(q) -> Nat]
  BY <1>1 DEF Msgs
<1>3. Msgs(q) \in Seq(Nat)
  BY <1>2, SeqDef
<1> QED BY <1>2, <1>3

LEMMA MsgsFacts ==
  ASSUME NEW q \in Seq(Entry)
  PROVE  /\ Msgs(q) \in Seq(Nat)
         /\ \A e \in Entry : /\ Append(q, e) \in Seq(Entry)
                             /\ Msgs(Append(q, e)) = Append(Msgs(q), e.msg)
         /\ q # <<>> => /\ Msgs(q) # <<>> /\ Msgs(Tail(q)) = Tail(Msgs(q))
                        /\ Head(Msgs(q)) = q[1].msg /\ q[1] \in Entry
                        /\ RemoveAt(q, 1) = Tail(q) /\ Tail(q) \in Seq(Entry)
<1>1. \A i \in 1..Len(q) : q[i] \in Entry /\ q[i].msg \in Nat
  <2>1. \A i \in 1..Len(q) : q[i] \in Entry
    OBVIOUS
  <2> QED BY <2>1 DEF Entry
<1>2. Msgs(q) \in Seq(Nat) /\ Len(Msgs(q)) = Len(q) /\ Len(q) \in Nat
  BY MsgsType
<1>3. ASSUME NEW e \in Entry
      PROVE  Append(q, e) \in Seq(Entry) /\ Msgs(Append(q, e)) = Append(Msgs(q), e.msg)
  <2>1. e.msg \in Nat /\ Append(q, e) \in Seq(Entry) /\ Len(Append(q, e)) = Len(q) + 1
    <3>1. e.msg \in Nat
      BY DEF Entry
    <3> QED BY <3>1
  <2>2. Append(Msgs(q), e.msg) \in Seq(Nat) /\ Len(Append(Msgs(q), e.msg)) = Len(q) + 1
    BY <1>2, <2>1
  <2>3. Msgs(Append(q, e)) \in Seq(Nat) /\ Len(Msgs(Append(q, e))) = Len(q) + 1
    <3>1. Len(Msgs(Append(q, e))) = Len(Append(q, e))
      BY <2>1, MsgsType
    <3> QED BY <2>1, <3>1, MsgsType
  <2>4. \A i \in 1..Len(q) + 1 : Msgs(Append(q, e))[i] = Append(Msgs(q), e.msg)[i]
    BY <1>2, <2>1 DEF Msgs
  <2> QED BY <2>1, <2>2, <2>3, <2>4, SeqEqual
<1>4. ASSUME q # <<>>
      PROVE  /\ Msgs(q) # <<>> /\ Msgs(Tail(q)) = Tail(Msgs(q))
             /\ Head(Msgs(q)) = q[1].msg /\ q[1] \in Entry
             /\ RemoveAt(q, 1) = Tail(q) /\ Tail(q) \in Seq(Entry)
  <2>1. Len(q) \in Nat \ {0} /\ Tail(q) \in Seq(Entry) /\ Len(Tail(q)) = Len(q) - 1
        /\ \A i \in 1..Len(q) - 1 : Tail(q)[i] = q[i + 1]
    BY <1>4, TailElements
  <2>2. Msgs(q) # <<>>
    BY <1>2, <2>1
  <2>3. /\ Tail(Msgs(q)) \in Seq(Nat) /\ Len(Tail(Msgs(q))) = Len(q) - 1
        /\ Head(Msgs(q)) = Msgs(q)[1]
        /\ \A i \in 1..Len(q) - 1 : Tail(Msgs(q))[i] = Msgs(q)[i + 1]
    BY <1>2, <2>2, TailElements
  <2>4. Msgs(Tail(q)) \in Seq(Nat) /\ Len(Msgs(Tail(q))) = Len(q) - 1
    BY <2>1, MsgsType
  <2>5. \A i \in 1..Len(q) - 1 : Msgs(Tail(q))[i] = Tail(Msgs(q))[i]
    BY <2>1, <2>3 DEF Msgs
  <2>6. Msgs(Tail(q)) = Tail(Msgs(q))
    BY <2>3, <2>4, <2>5, SeqEqual
  <2>7. Head(Msgs(q)) = q[1].msg /\ q[1] \in Entry
    BY <1>1, <2>1, <2>3 DEF Msgs
  <2> QED BY <1>4, <2>1, <2>2, <2>6, <2>7, RemoveFirstIsTail
<1> QED BY <1>2, <1>3, <1>4

(***************************************************************************)
(* Types, as far as the proofs need them: what the lists of the simple     *)
(* scheme hold is of no concern.                                           *)
(***************************************************************************)
FullTypes(m) ==
  /\ DOMAIN lists[m] = {U} /\ DOMAIN log[m] = {U}
  /\ lists[m][U] \in Seq(Nat) /\ log[m][U] \in Seq(Nat)
  /\ outbox[m] \in Seq(Entry) /\ reports[m] \in Seq(Nat)
  /\ deliver_cnt[m] \in Nat /\ commited_cnt[m] \in Nat

Phases == {"absorb", "send", "poll", "flush", "ended", "panicked"}

Domains ==
  /\ DOMAIN lists = Managers /\ DOMAIN log = Managers
  /\ DOMAIN outbox = Managers /\ DOMAIN reports = Managers
  /\ DOMAIN deliver_cnt = Managers /\ DOMAIN commited_cnt = Managers
  /\ DOMAIN lost = Managers

Types ==
  /\ engine \in {"up", "panicked", "closed"}
  /\ op \in Nat /\ target \in Nat
  /\ sent \in [Managers -> Nat]
  /\ chan \in [Managers -> Seq(Nat)]
  /\ pc \in [Managers -> Phases]
  /\ Domains
  /\ \A m \in Full : FullTypes(m)

(***************************************************************************)
(* The order of the unified stream.  What has been written, what the       *)
(* client holds, what is in the list and what is in the channel ascend,    *)
(* and each of them lies before the next.                                  *)
(***************************************************************************)
Before(s, t) == \A x \in ToSet(s), y \in ToSet(t) : x < y

InLine(g, o, l, c) ==
  /\ Ascending(g) /\ Ascending(o) /\ Ascending(l) /\ Ascending(c)
  /\ Before(g, o) /\ Before(g, l) /\ Before(g, c)
  /\ Before(o, l) /\ Before(o, c)
  /\ Before(l, c)

Pushed(g, o, l, c, n) == \A x \in ToSet(g) \cup ToSet(o) \cup ToSet(l) \cup ToSet(c) : x <= n

NoGap(g, o, l, c, n, K, gone) ==
  \A i \in K : i <= n => i \in ToSet(g) \cup ToSet(o) \cup ToSet(l) \cup ToSet(c) \cup gone

Line(g, o, l, c, n, K, gone) ==
  InLine(g, o, l, c) /\ Pushed(g, o, l, c, n) /\ NoGap(g, o, l, c, n, K, gone)

Stream(m) ==
  Line(log[m][U], Msgs(outbox[m]), lists[m][U], chan[m], sent[m], Concerns(m), lost[m])

(***************************************************************************)
(* The numbers the full-order scheme gives its messages: the reports not   *)
(* read, the messages in the client and the next one to send count on from *)
(* the last one committed, until a flush reads reports away.               *)
(***************************************************************************)
Looping(m) == pc[m] \in {"absorb", "send", "poll"}

Numbered(m) ==
  /\ \A i \in 1..Len(reports[m]) : reports[m][i] = commited_cnt[m] + i - 1
  /\ \A i \in 1..Len(outbox[m]) :
       outbox[m][i].opaque = commited_cnt[m] + Len(reports[m]) + i - 1
  /\ deliver_cnt[m] = commited_cnt[m] + Len(reports[m]) + Len(outbox[m])

Threads ==
  \A m \in Managers :
    /\ pc[m] # "panicked"
    /\ pc[m] \in {"flush", "ended"} => engine = "closed"
    /\ m \in Full /\ Looping(m) => Numbered(m)

\* Every operation fits into what is_block keeps free.
BurstsFit == \A k \in DOMAIN Operations : Len(Operations[k]) <= Reserve + 1

\* What an operation still has to push fits into the channel.
Room ==
  engine = "up" =>
    \A m \in Managers : sent[m] <= target /\ Len(chan[m]) + (target - sent[m]) <= Capacity

Survival == Threads /\ Room /\ engine # "panicked"

(***************************************************************************)
(* Moves along the line.                                                   *)
(***************************************************************************)
LEMMA ElementsType ==
  ASSUME NEW s \in Seq(Nat)
  PROVE  \A x \in ToSet(s) : x \in Nat
<1>1. DOMAIN s = 1..Len(s) /\ \A i \in 1..Len(s) : s[i] \in Nat
  OBVIOUS
<1> QED BY <1>1 DEF ToSet

LEMMA PassOn ==
  ASSUME NEW s \in Seq(Nat), NEW t \in Seq(Nat), t # <<>>,
         Ascending(s), Ascending(t), Before(s, t)
  PROVE  /\ Append(s, Head(t)) \in Seq(Nat) /\ Tail(t) \in Seq(Nat)
         /\ Ascending(Append(s, Head(t))) /\ Ascending(Tail(t))
         /\ Before(Append(s, Head(t)), Tail(t))
         /\ ToSet(Append(s, Head(t))) = ToSet(s) \cup {Head(t)}
         /\ ToSet(t) = {Head(t)} \cup ToSet(Tail(t))
<1>1. /\ Head(t) \in Nat /\ Tail(t) \in Seq(Nat) /\ ToSet(t) = {Head(t)} \cup ToSet(Tail(t))
  BY TailElements
<1>2. Append(s, Head(t)) \in Seq(Nat) /\ ToSet(Append(s, Head(t))) = ToSet(s) \cup {Head(t)}
  BY <1>1, AppendElements
<1>3. Ascending(Append(s, Head(t)))
  BY <1>1, AppendAscends DEF Before
<1>4. Ascending(Tail(t)) /\ \A y \in ToSet(Tail(t)) : Head(t) < y
  BY TailAscends
<1> QED BY <1>1, <1>2, <1>3, <1>4 DEF Before

LEMMA MoveToList ==
  ASSUME NEW g \in Seq(Nat), NEW o \in Seq(Nat), NEW l \in Seq(Nat), NEW c \in Seq(Nat),
         NEW n, NEW K, NEW gone, Line(g, o, l, c, n, K, gone), c # <<>>
  PROVE  /\ Line(g, o, Append(l, Head(c)), Tail(c), n, K, gone)
         /\ Head(c) \notin K => Line(g, o, l, Tail(c), n, K, gone)
<1>1. /\ ToSet(Append(l, Head(c))) = ToSet(l) \cup {Head(c)}
      /\ ToSet(c) = {Head(c)} \cup ToSet(Tail(c))
      /\ Ascending(Append(l, Head(c))) /\ Ascending(Tail(c))
      /\ Before(Append(l, Head(c)), Tail(c))
  BY PassOn DEF Line, InLine
<1>2. InLine(g, o, Append(l, Head(c)), Tail(c)) /\ InLine(g, o, l, Tail(c))
  BY <1>1 DEF Line, InLine, Before
<1> QED BY <1>1, <1>2 DEF Line, Pushed, NoGap

LEMMA MoveToClient ==
  ASSUME NEW g \in Seq(Nat), NEW o \in Seq(Nat), NEW l \in Seq(Nat), NEW c \in Seq(Nat),
         NEW n, NEW K, NEW gone, Line(g, o, l, c, n, K, gone), l # <<>>
  PROVE  Line(g, Append(o, Head(l)), Tail(l), c, n, K, gone)
<1>1. /\ ToSet(Append(o, Head(l))) = ToSet(o) \cup {Head(l)}
      /\ ToSet(l) = {Head(l)} \cup ToSet(Tail(l))
      /\ Ascending(Append(o, Head(l))) /\ Ascending(Tail(l))
      /\ Before(Append(o, Head(l)), Tail(l))
  BY PassOn DEF Line, InLine
<1>2. InLine(g, Append(o, Head(l)), Tail(l), c)
  BY <1>1 DEF Line, InLine, Before
<1> QED BY <1>1, <1>2 DEF Line, Pushed, NoGap

LEMMA MoveToLog ==
  ASSUME NEW g \in Seq(Nat), NEW o \in Seq(Nat), NEW l \in Seq(Nat), NEW c \in Seq(Nat),
         NEW n, NEW K, NEW gone, Line(g, o, l, c, n, K, gone), o # <<>>
  PROVE  /\ Line(Append(g, Head(o)), Tail(o), l, c, n, K, gone)
         /\ Line(g, Tail(o), l, c, n, K, gone \cup {Head(o)})
<1>1. /\ ToSet(Append(g, Head(o))) = ToSet(g) \cup {Head(o)}
      /\ ToSet(o) = {Head(o)} \cup ToSet(Tail(o))
      /\ Ascending(Append(g, Head(o))) /\ Ascending(Tail(o))
      /\ Before(Append(g, Head(o)), Tail(o))
  BY PassOn DEF Line, InLine
<1>2. InLine(Append(g, Head(o)), Tail(o), l, c) /\ InLine(g, Tail(o), l, c)
  BY <1>1 DEF Line, InLine, Before
<1> QED BY <1>1, <1>2 DEF Line, Pushed, NoGap

LEMMA Enqueue ==
  ASSUME NEW g \in Seq(Nat), NEW o \in Seq(Nat), NEW l \in Seq(Nat), NEW c \in Seq(Nat),
         NEW n \in Nat, NEW K \in SUBSET Int, NEW gone, Line(g, o, l, c, n, K, gone)
  PROVE  Line(g, o, l, Append(c, n + 1), n + 1, K, gone)
<1>1. n + 1 \in Nat /\ ToSet(Append(c, n + 1)) = ToSet(c) \cup {n + 1}
  <2>1. PICK k \in Nat : k = n + 1
    OBVIOUS
  <2>2. ToSet(Append(c, k)) = ToSet(c) \cup {k}
    BY AppendElements, SMTT(30)
  <2> QED BY <2>1, <2>2
<1>2. \A x \in ToSet(g) \cup ToSet(o) \cup ToSet(l) \cup ToSet(c) : x \in Nat
  BY ElementsType
<1>3. \A x \in ToSet(g) \cup ToSet(o) \cup ToSet(l) \cup ToSet(c) : x < n + 1
  BY <1>2 DEF Line, Pushed
<1>4. Ascending(Append(c, n + 1))
  BY <1>1, <1>3, AppendAscends DEF Line, InLine
<1>5. InLine(g, o, l, Append(c, n + 1))
  BY <1>1, <1>3, <1>4 DEF Line, InLine, Before
<1>6. Pushed(g, o, l, Append(c, n + 1), n + 1)
  BY <1>1, <1>2, <1>3 DEF Pushed
<1>7. NoGap(g, o, l, Append(c, n + 1), n + 1, K, gone)
  <2>1. \A i \in K : i <= n + 1 => i <= n \/ i = n + 1
    OBVIOUS
  <2>2. ToSet(c) \subseteq ToSet(Append(c, n + 1)) /\ n + 1 \in ToSet(Append(c, n + 1))
    BY <1>1
  <2>3. NoGap(g, o, l, c, n, K, gone)
    BY DEF Line
  <2>4. SUFFICES ASSUME NEW i \in K, i <= n + 1
                 PROVE  i \in ToSet(g) \cup ToSet(o) \cup ToSet(l) \cup ToSet(Append(c, n + 1))
                                \cup gone
    BY DEF NoGap
  <2>5. CASE i <= n
    BY <2>2, <2>3, <2>5 DEF NoGap
  <2> QED BY <2>1, <2>2, <2>4, <2>5
<1> QED BY <1>5, <1>6, <1>7 DEF Line

(***************************************************************************)
(* The full-order scheme has one list.                                     *)
(***************************************************************************)
LEMMA OneList ==
  ASSUME Types, NEW m \in Full
  PROVE  /\ m \in Managers /\ ~Simple(m) /\ FullTypes(m)
         /\ Longest(m) = U
         /\ Empty(m) <=> lists[m][U] = <<>>
         /\ \A i \in InFlight(m) : i = 1 /\ outbox[m] # <<>>
<1>1. m \in Managers /\ ~Simple(m) /\ FullTypes(m)
  BY DEF Full, Types
<1>2. Lists(m) = <<U>>
  BY <1>1 DEF Lists, U
<1>3. Len(<<U>>) = 1 /\ DOMAIN <<U>> = {1} /\ <<U>>[1] = U
  OBVIOUS
<1>4. Len(lists[m][U]) \in Nat
  BY <1>1 DEF FullTypes
<1>5. Longest(m) = U
  <2> DEFINE first(i) ==
        /\ \A j \in 1..i - 1 : Len(lists[m][<<U>>[j]]) < Len(lists[m][<<U>>[i]])
        /\ \A j \in i..Len(<<U>>) : Len(lists[m][<<U>>[j]]) <= Len(lists[m][<<U>>[i]])
  <2>1. first(1)
    BY <1>3, <1>4
  <2>2. (CHOOSE i \in DOMAIN <<U>> : first(i)) \in {1}
    <3> HIDE DEF first
    <3> QED BY <1>3, <2>1
  <2>3. Longest(m) = <<U>>[CHOOSE i \in DOMAIN <<U>> : first(i)]
    BY <1>2 DEF Longest
  <2> HIDE DEF first
  <2> QED BY <1>3, <2>2, <2>3
<1>6. Empty(m) <=> lists[m][U] = <<>>
  BY <1>1 DEF Empty, FullTypes
<1>7. \A i \in InFlight(m) : i = 1 /\ outbox[m] # <<>>
  <2>1. InFlight(m) = DOMAIN outbox[m] \cap {1}
    BY <1>1 DEF InFlight
  <2>2. outbox[m] = <<>> => DOMAIN outbox[m] = {}
    OBVIOUS
  <2> QED BY <2>1, <2>2
<1> QED BY <1>1, <1>5, <1>6, <1>7

(***************************************************************************)
(* Who changes what.                                                       *)
(***************************************************************************)
Thread(m) ==
  \/ Absorb(m) \/ SendNothing(m) \/ SendOne(m) \/ SendError(m) \/ Poll(m)
  \/ FlushOne(m) \/ FlushError(m) \/ FlushEnd(m)

Kafka(m) ==
  \E i \in InFlight(m) : Deliver(m, i) \/ DeliverError(m, i) \/ DeliverTwice(m, i)

Kept(n) ==
  /\ lists'[n] = lists[n] /\ log'[n] = log[n] /\ outbox'[n] = outbox[n]
  /\ reports'[n] = reports[n] /\ deliver_cnt'[n] = deliver_cnt[n]
  /\ commited_cnt'[n] = commited_cnt[n] /\ lost'[n] = lost[n]
  /\ chan'[n] = chan[n] /\ sent'[n] = sent[n] /\ pc'[n] = pc[n]

LEMMA ThreadFrame ==
  ASSUME Types, NEW m \in Managers, Thread(m)
  PROVE  /\ Domains' /\ pc' \in [Managers -> Phases] /\ chan' \in [Managers -> Seq(Nat)]
         /\ UNCHANGED <<engineVars, log, lost>>
         /\ \A n \in Managers : n # m => Kept(n)
<1> USE DEF Types, Domains, Kept, engineVars, kafkaVars, Step, Failed, Sent, Phases
<1>1. CASE Absorb(m)
  <2>1. chan[m] # <<>> => Tail(chan[m]) \in Seq(Nat)
    BY TailElements
  <2>2. chan' \in [Managers -> Seq(Nat)]
    BY <1>1, <2>1 DEF Absorb
  <2> QED BY <1>1, <2>2 DEF Absorb, on_message
<1>2. CASE SendNothing(m)
  BY <1>2 DEF SendNothing
<1>3. CASE SendOne(m)
  BY <1>3 DEF SendOne
<1>4. CASE SendError(m)
  BY <1>4 DEF SendError
<1>5. CASE Poll(m)
  BY <1>5 DEF Poll
<1>6. CASE FlushOne(m)
  BY <1>6 DEF FlushOne
<1>7. CASE FlushError(m)
  BY <1>7 DEF FlushError
<1>8. CASE FlushEnd(m)
  BY <1>8 DEF FlushEnd
<1> QED BY <1>1, <1>2, <1>3, <1>4, <1>5, <1>6, <1>7, <1>8 DEF Thread

LEMMA KafkaFrame ==
  ASSUME Types, NEW m \in Managers, Kafka(m)
  PROVE  /\ Domains'
         /\ UNCHANGED <<engineVars, chan, threadVars>>
         /\ \A n \in Managers : n # m => Kept(n)
<1> USE DEF Types, Domains, Kept, engineVars, threadVars, Reported, Written
<1>1. PICK i \in InFlight(m) : Deliver(m, i) \/ DeliverError(m, i) \/ DeliverTwice(m, i)
  BY DEF Kafka
<1>2. CASE Deliver(m, i)
  BY <1>2 DEF Deliver
<1>3. CASE DeliverError(m, i)
  BY <1>3 DEF DeliverError
<1>4. CASE DeliverTwice(m, i)
  BY <1>4 DEF DeliverTwice
<1> QED BY <1>1, <1>2, <1>3, <1>4

(***************************************************************************)
(* The steps of a manager of the full-order scheme.                        *)
(***************************************************************************)
LEMMA KeptStream ==
  ASSUME NEW m, Stream(m), lists'[m][U] = lists[m][U], log'[m][U] = log[m][U],
         outbox'[m] = outbox[m], chan'[m] = chan[m], sent'[m] = sent[m], lost'[m] = lost[m]
  PROVE  Stream(m)'
  BY DEF Stream

LEMMA Sending ==
  ASSUME Types, NEW m \in Full, lists[m][U] # <<>>, Sent(m, U)
  PROVE  /\ DOMAIN lists'[m] = {U} /\ lists'[m][U] = Tail(lists[m][U])
         /\ lists'[m][U] \in Seq(Nat)
         /\ deliver_cnt'[m] = deliver_cnt[m] + 1
         /\ \E e \in Entry : /\ e.msg = Head(lists[m][U]) /\ e.opaque = deliver_cnt[m]
                             /\ outbox'[m] = Append(outbox[m], e)
<1>1. m \in Managers /\ ~Simple(m) /\ FullTypes(m)
  BY OneList
<1>2. Tail(lists[m][U]) \in Seq(Nat) /\ Head(lists[m][U]) \in Nat
  BY <1>1, TailElements DEF FullTypes
<1>3. [topic |-> U, msg |-> Head(lists[m][U]), opaque |-> deliver_cnt[m]] \in Entry
  BY <1>1, <1>2 DEF Entry, FullTypes
<1>4. /\ outbox'[m] = Append(outbox[m], [topic |-> U, msg |-> Head(lists[m][U]),
                                         opaque |-> deliver_cnt[m]])
      /\ lists'[m] = [lists[m] EXCEPT ![U] = Tail(@)]
      /\ deliver_cnt'[m] = deliver_cnt[m] + 1
  BY <1>1 DEF Sent, Types, Domains
<1>5. DOMAIN lists'[m] = {U} /\ lists'[m][U] = Tail(lists[m][U])
  BY <1>1, <1>4 DEF FullTypes
<1> QED BY <1>2, <1>3, <1>4, <1>5

LEMMA SendingStream ==
  ASSUME Types, NEW m \in Full, lists[m][U] # <<>>, Sent(m, U), Stream(m),
         log'[m] = log[m], chan'[m] = chan[m], sent'[m] = sent[m], lost'[m] = lost[m]
  PROVE  Stream(m)'
<1> DEFINE g == log[m][U]  o == Msgs(outbox[m])  l == lists[m][U]  c == chan[m]
<1>1. g \in Seq(Nat) /\ l \in Seq(Nat) /\ c \in Seq(Nat) /\ outbox[m] \in Seq(Entry)
  BY OneList DEF FullTypes, Types
<1>2. o \in Seq(Nat)
  BY <1>1, MsgsFacts
<1>3. lists'[m][U] = Tail(l) /\ Msgs(outbox'[m]) = Append(o, Head(l))
  BY <1>1, Sending, MsgsFacts
<1>4. Line(g, Append(o, Head(l)), Tail(l), c, sent[m], Concerns(m), lost[m])
  BY <1>1, <1>2, MoveToClient DEF Stream
<1> HIDE DEF g, o, l, c
<1> QED BY <1>3, <1>4 DEF Stream, g, c

LEMMA FullThreadTypes ==
  ASSUME Types, NEW m \in Full, Thread(m)
  PROVE  FullTypes(m)'
<1>1. m \in Managers /\ ~Simple(m) /\ FullTypes(m) /\ Longest(m) = U
  BY OneList
<1>2. Empty(m) <=> lists[m][U] = <<>>
  BY OneList
<1>3. Domains /\ chan \in [Managers -> Seq(Nat)]
  BY DEF Types
<1>4. log' = log
  BY <1>1, ThreadFrame
<1>5. ASSUME UNCHANGED <<lists, deliver_cnt, outbox>>, reports'[m] \in Seq(Nat),
             commited_cnt'[m] \in Nat
      PROVE  FullTypes(m)'
  BY <1>1, <1>4, <1>5 DEF FullTypes
<1>6. ASSUME lists[m][U] # <<>>, Sent(m, U), reports' = reports, commited_cnt' = commited_cnt
      PROVE  FullTypes(m)'
  <2>1. PICK e \in Entry : outbox'[m] = Append(outbox[m], e)
    BY <1>6, Sending
  <2>2. outbox'[m] \in Seq(Entry)
    BY <1>1, <2>1 DEF FullTypes
  <2>3. /\ DOMAIN lists'[m] = {U} /\ lists'[m][U] \in Seq(Nat)
        /\ deliver_cnt'[m] = deliver_cnt[m] + 1
    BY <1>6, Sending
  <2>4. deliver_cnt'[m] \in Nat
    BY <1>1, <2>3 DEF FullTypes
  <2> QED BY <1>1, <1>4, <1>6, <2>2, <2>3, <2>4 DEF FullTypes
<1>7. CASE Absorb(m)
  <2>1. UNCHANGED <<deliver_cnt, commited_cnt, outbox, reports>>
    BY <1>7 DEF Absorb, kafkaVars
  <2>2. CASE lists' = lists
    BY <1>1, <1>5, <2>1, <2>2 DEF FullTypes
  <2>3. CASE lists' # lists
    <3>1. chan[m] # <<>> /\ lists' = [lists EXCEPT ![m][U] = Append(@, Head(chan[m]))]
      BY <1>1, <1>7, <2>3 DEF Absorb, on_message, ListOf, U
    <3>2. Head(chan[m]) \in Nat
      BY <1>1, <1>3, <3>1, TailElements
    <3>3. lists'[m] = [lists[m] EXCEPT ![U] = Append(@, Head(chan[m]))]
      BY <1>1, <1>3, <3>1 DEF Domains
    <3>4. DOMAIN lists'[m] = {U} /\ lists'[m][U] = Append(lists[m][U], Head(chan[m]))
      BY <1>1, <3>3 DEF FullTypes
    <3>5. lists'[m][U] \in Seq(Nat)
      BY <1>1, <3>2, <3>4 DEF FullTypes
    <3> QED BY <1>1, <1>4, <2>1, <3>4, <3>5 DEF FullTypes
  <2> QED BY <2>2, <2>3
<1>8. CASE SendNothing(m) \/ FlushError(m) \/ FlushEnd(m)
  BY <1>1, <1>5, <1>8 DEF SendNothing, FlushError, FlushEnd, kafkaVars, FullTypes
<1>9. CASE SendOne(m)
  BY <1>1, <1>2, <1>5, <1>6, <1>9 DEF SendOne, Failed, FullTypes
<1>10. CASE SendError(m)
  BY <1>1, <1>5, <1>10 DEF SendError, Failed, kafkaVars, FullTypes
<1>11. CASE Poll(m)
  <2>1. commited_cnt'[m] = commited_cnt[m] + Len(reports[m]) /\ reports'[m] = <<>>
    BY <1>1, <1>3, <1>11 DEF Poll, Domains
  <2>2. commited_cnt'[m] \in Nat /\ reports'[m] \in Seq(Nat)
    BY <1>1, <2>1 DEF FullTypes
  <2> QED BY <1>5, <1>11, <2>2 DEF Poll
<1>12. CASE FlushOne(m)
  <2>1. CASE ClientFull(m)
    <3>1. reports'[m] = <<>>
      BY <1>3, <1>1, <1>12, <2>1 DEF FlushOne, Domains
    <3> QED BY <1>1, <1>5, <1>12, <2>1, <3>1 DEF FlushOne, Failed, FullTypes
  <2>2. CASE ~ClientFull(m)
    BY <1>1, <1>2, <1>6, <1>12, <2>2 DEF FlushOne
  <2> QED BY <2>1, <2>2
<1> QED BY <1>7, <1>8, <1>9, <1>10, <1>11, <1>12 DEF Thread

LEMMA FullThreadStream ==
  ASSUME Types, NEW m \in Full, Thread(m), Stream(m)
  PROVE  Stream(m)'
<1>1. m \in Managers /\ ~Simple(m) /\ FullTypes(m) /\ Longest(m) = U
  BY OneList
<1>2. Empty(m) <=> lists[m][U] = <<>>
  BY OneList
<1>3. UNCHANGED <<log, lost, sent>>
  BY <1>1, ThreadFrame DEF engineVars
<1>4. CASE Absorb(m)
  <2> DEFINE g == log[m][U]  o == Msgs(outbox[m])  l == lists[m][U]  c == chan[m]
  <2>1. g \in Seq(Nat) /\ l \in Seq(Nat) /\ c \in Seq(Nat) /\ o \in Seq(Nat)
    BY <1>1, MsgsFacts DEF FullTypes, Types
  <2>2. outbox' = outbox
    BY <1>4 DEF Absorb, kafkaVars
  <2>3. CASE UNCHANGED <<chan, lists>>
    BY <1>3, <2>2, <2>3, KeptStream
  <2>4. CASE ~UNCHANGED <<chan, lists>>
    <3>1. c # <<>> /\ chan' = [chan EXCEPT ![m] = Tail(@)] /\ on_message(m, Head(c))
      BY <1>4, <2>4 DEF Absorb
    <3>2. chan'[m] = Tail(c)
      BY <1>1, <3>1 DEF Types
    <3>3. CASE Relevant(m, Topic[Head(c)])
      <4>1. lists' = [lists EXCEPT ![m][U] = Append(@, Head(c))]
        BY <1>1, <3>1, <3>3 DEF on_message, ListOf, U
      <4>2. lists'[m][U] = Append(l, Head(c))
        BY <1>1, <4>1 DEF Types, Domains, FullTypes
      <4>3. Line(g, o, Append(l, Head(c)), Tail(c), sent[m], Concerns(m), lost[m])
        BY <2>1, <3>1, MoveToList DEF Stream
      <4> HIDE DEF g, o, l, c
      <4> QED BY <1>3, <2>2, <3>2, <4>2, <4>3 DEF Stream, g, o
    <3>4. CASE ~Relevant(m, Topic[Head(c)])
      <4>1. lists' = lists /\ Head(c) \notin Concerns(m)
        BY <3>1, <3>4 DEF on_message, Concerns
      <4>2. Line(g, o, l, Tail(c), sent[m], Concerns(m), lost[m])
        BY <2>1, <3>1, <4>1, MoveToList DEF Stream
      <4> HIDE DEF g, o, l, c
      <4> QED BY <1>3, <2>2, <3>2, <4>1, <4>2 DEF Stream, g, o, l
    <3> QED BY <3>3, <3>4
  <2> QED BY <2>3, <2>4
<1>5. CASE SendNothing(m) \/ FlushError(m) \/ FlushEnd(m)
  BY <1>3, <1>5, KeptStream DEF SendNothing, FlushError, FlushEnd, kafkaVars
<1>6. CASE SendOne(m)
  <2>1. CASE ClientFull(m)
    BY <1>1, <1>3, <1>6, <2>1, KeptStream DEF SendOne, Failed
  <2>2. CASE ~ClientFull(m)
    BY <1>1, <1>2, <1>3, <1>6, <2>2, SendingStream DEF SendOne
  <2> QED BY <2>1, <2>2
<1>7. CASE SendError(m) \/ Poll(m)
  BY <1>1, <1>3, <1>7, KeptStream DEF SendError, Poll, Failed, kafkaVars
<1>8. CASE FlushOne(m)
  <2>1. CASE ClientFull(m)
    BY <1>1, <1>3, <1>8, <2>1, KeptStream DEF FlushOne, Failed
  <2>2. CASE ~ClientFull(m)
    BY <1>1, <1>2, <1>3, <1>8, <2>2, SendingStream DEF FlushOne
  <2> QED BY <2>1, <2>2
<1> QED BY <1>4, <1>5, <1>6, <1>7, <1>8 DEF Thread

LEMMA FullKafka ==
  ASSUME Types, NEW m \in Full, Kafka(m)
  PROVE  FullTypes(m)' /\ (Stream(m) => Stream(m)')
<1>1. m \in Managers /\ ~Simple(m) /\ FullTypes(m) /\ outbox[m] # <<>>
  BY OneList DEF Kafka
<1>2. Deliver(m, 1) \/ DeliverError(m, 1)
  BY <1>1, OneList DEF Kafka, DeliverTwice
<1>3. UNCHANGED <<lists, chan, sent, deliver_cnt, commited_cnt>>
  BY <1>1, KafkaFrame DEF threadVars, engineVars
<1>4. Reported(m, 1)
  BY <1>2 DEF Deliver, DeliverError
<1> DEFINE g == log[m][U]  o == Msgs(outbox[m])  l == lists[m][U]  c == chan[m]
<1>5. g \in Seq(Nat) /\ l \in Seq(Nat) /\ c \in Seq(Nat) /\ outbox[m] \in Seq(Entry)
  BY <1>1 DEF FullTypes, Types
<1>6. /\ o \in Seq(Nat) /\ o # <<>> /\ Head(o) = outbox[m][1].msg /\ outbox[m][1] \in Entry
      /\ RemoveAt(outbox[m], 1) = Tail(outbox[m]) /\ Tail(outbox[m]) \in Seq(Entry)
      /\ Msgs(Tail(outbox[m])) = Tail(o)
  BY <1>1, <1>5, MsgsFacts
<1>7. outbox'[m] = Tail(outbox[m]) /\ reports'[m] = Append(reports[m], outbox[m][1].opaque)
  BY <1>1, <1>4, <1>6 DEF Reported, Types, Domains
<1>8. outbox[m][1].opaque \in Nat /\ outbox[m][1].topic = U /\ Head(o) \in Nat
  <2>1. outbox[m][1].msg \in Nat /\ outbox[m][1].opaque \in Nat /\ outbox[m][1].topic = U
    BY <1>6 DEF Entry
  <2> QED BY <1>6, <2>1
<1>9. outbox'[m] \in Seq(Entry) /\ reports'[m] \in Seq(Nat) /\ Msgs(outbox'[m]) = Tail(o)
  BY <1>1, <1>6, <1>7, <1>8 DEF FullTypes
<1>10. CASE Deliver(m, 1)
  <2>1. log'[m] = [log[m] EXCEPT ![U] = Append(@, Head(o))] /\ lost' = lost
    BY <1>1, <1>6, <1>8, <1>10 DEF Deliver, Written, Types, Domains
  <2>2. DOMAIN log'[m] = {U} /\ log'[m][U] = Append(g, Head(o))
    BY <1>1, <2>1 DEF FullTypes
  <2>3. log'[m][U] \in Seq(Nat)
    BY <1>5, <1>8, <2>2
  <2>4. FullTypes(m)'
    BY <1>1, <1>3, <1>9, <2>2, <2>3 DEF FullTypes
  <2>5. Stream(m) => Line(Append(g, Head(o)), Tail(o), l, c, sent[m], Concerns(m), lost[m])
    BY <1>5, <1>6, MoveToLog DEF Stream
  <2> HIDE DEF g, o, l, c
  <2>6. Stream(m) => Stream(m)'
    BY <1>3, <1>9, <2>1, <2>2, <2>5 DEF Stream, l, c
  <2> QED BY <2>4, <2>6
<1>11. CASE DeliverError(m, 1)
  <2>1. log' = log /\ lost'[m] = lost[m] \cup {Head(o)}
    BY <1>1, <1>6, <1>11 DEF DeliverError, Types, Domains
  <2>2. FullTypes(m)'
    BY <1>1, <1>3, <1>9, <2>1 DEF FullTypes
  <2>3. Stream(m) => Line(g, Tail(o), l, c, sent[m], Concerns(m), lost[m] \cup {Head(o)})
    BY <1>5, <1>6, MoveToLog DEF Stream
  <2> HIDE DEF g, o, l, c
  <2>4. Stream(m) => Stream(m)'
    BY <1>3, <1>9, <2>1, <2>3 DEF Stream, g, l, c
  <2> QED BY <2>2, <2>4
<1> QED BY <1>2, <1>10, <1>11

LEMMA PushFacts ==
  ASSUME Types, NEW m \in Managers, Push(m)
  PROVE  /\ engine' \in {"up", "panicked"} /\ sent' \in [Managers -> Nat]
         /\ chan' \in [Managers -> Seq(Nat)]
         /\ UNCHANGED <<op, target, threadVars, kafkaVars>>
         /\ \A n \in Managers : n # m => sent'[n] = sent[n] /\ chan'[n] = chan[n]
         /\ \/ UNCHANGED <<sent, chan>>
            \/ sent'[m] = sent[m] + 1 /\ chan'[m] = Append(chan[m], sent[m] + 1)
<1>1. sent[m] + 1 \in Nat /\ Append(chan[m], sent[m] + 1) \in Seq(Nat)
  <2>1. sent[m] \in Nat /\ chan[m] \in Seq(Nat)
    BY DEF Types
  <2> QED BY <2>1
<1> QED BY <1>1 DEF Push, Types

(***************************************************************************)
(* Types are kept.                                                         *)
(***************************************************************************)
LEMMA KeptTypes ==
  ASSUME NEW n, FullTypes(n), Kept(n)
  PROVE  FullTypes(n)'
  BY DEF FullTypes, Kept

LEMMA NextTypes == Types /\ [Next]_vars => Types'
<1> SUFFICES ASSUME Types, [Next]_vars PROVE Types'
  OBVIOUS
<1>1. \A n \in Full : n \in Managers /\ FullTypes(n)
  BY DEF Full, Types
<1>2. ASSUME UNCHANGED <<threadVars, kafkaVars>> PROVE Domains' /\ \A n \in Full : FullTypes(n)'
  BY <1>1, <1>2 DEF Types, Domains, FullTypes, threadVars, kafkaVars
<1>3. CASE Operation
  <2>1. op' \in Nat /\ target' \in Nat
    <3>1. op + 1 \in 1..Len(Operations)
      BY <1>3, ProducerAssumption DEF Operation, Types
    <3>2. Len(Operations[op + 1]) \in Nat
      BY <3>1, ProducerAssumption
    <3> QED BY <1>3, <3>2 DEF Operation, Types
  <2> QED BY <1>2, <1>3, <2>1 DEF Operation, Types, threadVars
<1>4. CASE Close
  BY <1>2, <1>4 DEF Close, Types, threadVars
<1>5. CASE ProcessExit
  <2>1. Domains' /\ \A n \in Full : FullTypes(n)'
    BY <1>1, <1>5 DEF ProcessExit, Types, Domains, FullTypes, kafkaVars
  <2> QED BY <1>5, <2>1 DEF ProcessExit, Types, Phases, engineVars
<1>6. CASE \E m \in Managers : Push(m)
  <2>1. PICK m \in Managers : Push(m)
    BY <1>6
  <2> QED BY <1>2, <2>1, PushFacts DEF Types, threadVars
<1>7. CASE \E m \in Managers : Thread(m)
  <2>1. PICK m \in Managers : Thread(m)
    BY <1>7
  <2>2. \A n \in Full : FullTypes(n)'
    BY <1>1, <2>1, FullThreadTypes, ThreadFrame, KeptTypes
  <2> QED BY <2>1, <2>2, ThreadFrame DEF Types, engineVars
<1>8. CASE \E m \in Managers : Kafka(m)
  <2>1. PICK m \in Managers : Kafka(m)
    BY <1>8
  <2>2. \A n \in Full : FullTypes(n)'
    BY <1>1, <2>1, FullKafka, KafkaFrame, KeptTypes
  <2> QED BY <2>1, <2>2, KafkaFrame DEF Types, engineVars, threadVars
<1>9. CASE UNCHANGED vars
  BY <1>2, <1>9 DEF vars, engineVars, Types, threadVars
<1> QED BY <1>3, <1>4, <1>5, <1>6, <1>7, <1>8, <1>9 DEF Next, Thread, Kafka

LEMMA InitTypes == Init => Types
<1> SUFFICES ASSUME Init PROVE Types
  OBVIOUS
<1>1. Domains
  BY DEF Init, Domains
<1>2. <<>> \in Seq(Nat) /\ <<>> \in Seq(Entry)
  OBVIOUS
<1>3. ASSUME NEW m \in Full PROVE FullTypes(m)
  <2>1. m \in Managers /\ Lists(m) = <<U>>
    BY DEF Full, Lists, U
  <2>2. ToSet(Lists(m)) = {U}
    BY <2>1 DEF ToSet
  <2>3. /\ lists[m] = [t \in {U} |-> <<>>] /\ log[m] = [t \in {U} |-> <<>>]
        /\ outbox[m] = <<>> /\ reports[m] = <<>>
        /\ deliver_cnt[m] = 0 /\ commited_cnt[m] = 0
    BY <2>1, <2>2 DEF Init
  <2> QED BY <1>2, <2>3 DEF FullTypes
<1>4. /\ sent \in [Managers -> Nat] /\ chan \in [Managers -> Seq(Nat)]
      /\ pc \in [Managers -> Phases]
  BY DEF Init, Phases
<1> QED BY <1>1, <1>3, <1>4 DEF Init, Types

(***************************************************************************)
(* The unified stream.                                                     *)
(***************************************************************************)
Streams == \A m \in Full : Stream(m)

LEMMA InitStreams == Init => Streams
<1> SUFFICES ASSUME Init, NEW m \in Full PROVE Stream(m)
  BY DEF Streams
<1>1. m \in Managers /\ Lists(m) = <<U>>
  BY DEF Full, Lists, U
<1>2. ToSet(Lists(m)) = {U}
  BY <1>1 DEF ToSet
<1>3. /\ lists[m][U] = <<>> /\ log[m][U] = <<>> /\ outbox[m] = <<>> /\ chan[m] = <<>>
      /\ sent[m] = 0
  BY <1>1, <1>2 DEF Init
<1>4. Msgs(outbox[m]) = <<>>
  BY <1>3 DEF Msgs
<1>5. ToSet(<<>>) = {} /\ Ascending(<<>>)
  BY DEF ToSet, Ascending
<1>6. \A i \in Concerns(m) : i \in Int /\ 1 <= i
  BY DEF Concerns, Messages
<1>7. \A i \in Concerns(m) : ~(i <= 0)
  BY <1>6
<1> QED BY <1>3, <1>4, <1>5, <1>7 DEF Stream, Line, InLine, Before, Pushed, NoGap

LEMMA NextStreams == Types /\ Streams /\ [Next]_vars => Streams'
<1> SUFFICES ASSUME Types, Streams, [Next]_vars, NEW n \in Full PROVE Stream(n)'
  BY DEF Streams
<1>1. n \in Managers /\ Stream(n)
  BY DEF Full, Streams
<1>2. ASSUME Kept(n) PROVE Stream(n)'
  BY <1>1, <1>2, KeptStream DEF Kept
<1>3. CASE Operation \/ Close \/ ProcessExit \/ UNCHANGED vars
  BY <1>1, <1>3, KeptStream
     DEF Operation, Close, ProcessExit, vars, engineVars, threadVars, kafkaVars
<1>4. CASE \E m \in Managers : Push(m)
  <2>1. PICK m \in Managers : Push(m)
    BY <1>4
  <2>2. UNCHANGED <<lists, outbox, log, lost>>
    BY <2>1, PushFacts DEF threadVars, kafkaVars
  <2>3. CASE sent'[n] = sent[n] /\ chan'[n] = chan[n]
    BY <1>1, <2>2, <2>3, KeptStream
  <2>4. CASE sent'[n] = sent[n] + 1 /\ chan'[n] = Append(chan[n], sent[n] + 1)
    <3>1. /\ log[n][U] \in Seq(Nat) /\ Msgs(outbox[n]) \in Seq(Nat) /\ lists[n][U] \in Seq(Nat)
          /\ chan[n] \in Seq(Nat) /\ sent[n] \in Nat
      BY <1>1, MsgsFacts DEF Types, FullTypes
    <3>2. Concerns(n) \in SUBSET Int
      BY DEF Concerns, Messages
    <3>3. Line(log[n][U], Msgs(outbox[n]), lists[n][U], Append(chan[n], sent[n] + 1),
               sent[n] + 1, Concerns(n), lost[n])
      BY <1>1, <3>1, <3>2, Enqueue DEF Stream
    <3> QED BY <2>2, <2>4, <3>3 DEF Stream
  <2> QED BY <1>1, <2>1, <2>3, <2>4, PushFacts
<1>5. CASE \E m \in Managers : Thread(m)
  BY <1>1, <1>2, <1>5, FullThreadStream, ThreadFrame
<1>6. CASE \E m \in Managers : Kafka(m)
  BY <1>1, <1>2, <1>6, FullKafka, KafkaFrame
<1> QED BY <1>3, <1>4, <1>5, <1>6 DEF Next, Thread, Kafka

LEMMA StreamIsUnified == Types /\ Streams => UnifyInOrder
<1> SUFFICES ASSUME Types, Streams, NEW m \in Managers, ~Simple(m)
             PROVE  /\ Ascending(log[m][U])
                    /\ \A i \in Concerns(m) : log[m][U] # <<>> /\ i < Last(log[m][U])
                         => i \in ToSet(log[m][U]) \cup lost[m]
  BY DEF UnifyInOrder, U
<1> DEFINE g == log[m][U]  o == Msgs(outbox[m])  l == lists[m][U]  c == chan[m]
<1>1. m \in Full /\ Line(g, o, l, c, sent[m], Concerns(m), lost[m])
  BY DEF Full, Streams, Stream
<1>2. g \in Seq(Nat) /\ o \in Seq(Nat) /\ l \in Seq(Nat) /\ c \in Seq(Nat) /\ sent[m] \in Nat
  BY <1>1, MsgsFacts DEF Types, FullTypes
<1> HIDE DEF g, o, l, c
<1>3. ASSUME NEW i \in Concerns(m), g # <<>>, i < Last(g) PROVE i \in ToSet(g) \cup lost[m]
  <2>1. Last(g) \in ToSet(g)
    <3>1. Len(g) \in DOMAIN g
      BY <1>2, <1>3
    <3> QED BY <3>1 DEF Last, ToSet
  <2>2. Last(g) \in Nat /\ Last(g) <= sent[m]
    BY <1>1, <1>2, <2>1, ElementsType DEF Line, Pushed
  <2>3. i \in Int
    BY DEF Concerns, Messages
  <2>4. i <= sent[m]
    BY <1>2, <1>3, <2>2, <2>3
  <2>5. i \in ToSet(g) \cup ToSet(o) \cup ToSet(l) \cup ToSet(c) \cup lost[m]
    BY <1>1, <2>4 DEF Line, NoGap
  <2>6. i \in ToSet(o) \cup ToSet(l) \cup ToSet(c) => Last(g) < i
    BY <1>1, <2>1 DEF Line, InLine, Before
  <2>7. ~(Last(g) < i)
    BY <1>3, <2>2, <2>3
  <2> QED BY <2>5, <2>6, <2>7
<1> QED BY <1>1, <1>3 DEF Line, InLine, g

(***************************************************************************)
(* The full-order scheme writes its messages in the order the engine       *)
(* pushed them, without a gap but for messages reported lost, whatever     *)
(* sends fail, however full the queues are and whenever the process ends   *)
(* (FullOrderMessageScheme, its on_message, pop_up and commit).            *)
(***************************************************************************)
THEOREM UnifiedInOrder == Spec => []UnifyInOrder
<1>1. Init => Types /\ Streams
  BY InitTypes, InitStreams
<1>2. Types /\ Streams /\ [Next]_vars => (Types /\ Streams)'
  BY NextTypes, NextStreams
<1>3. Types /\ Streams => UnifyInOrder
  BY StreamIsUnified
<1> QED BY <1>1, <1>2, <1>3, PTL DEF Spec

(***************************************************************************)
(* The engine and the threads live on.                                     *)
(***************************************************************************)
LEMMA SendingNumbered ==
  ASSUME Types, NEW m \in Full, lists[m][U] # <<>>, Sent(m, U), Numbered(m),
         reports'[m] = reports[m], commited_cnt'[m] = commited_cnt[m]
  PROVE  Numbered(m)'
<1>1. /\ outbox[m] \in Seq(Entry) /\ Len(outbox[m]) \in Nat
      /\ Len(reports[m]) \in Nat /\ commited_cnt[m] \in Nat
  BY OneList DEF FullTypes
<1>2. PICK e \in Entry : e.opaque = deliver_cnt[m] /\ outbox'[m] = Append(outbox[m], e)
  BY Sending
<1>3. deliver_cnt'[m] = deliver_cnt[m] + 1
  BY Sending
<1>4. /\ Len(outbox'[m]) = Len(outbox[m]) + 1
      /\ \A i \in 1..Len(outbox[m]) : outbox'[m][i] = outbox[m][i]
      /\ outbox'[m][Len(outbox[m]) + 1] = e
  BY <1>1, <1>2
<1>5. deliver_cnt[m] = commited_cnt[m] + Len(reports[m]) + Len(outbox[m])
  BY DEF Numbered
<1>6. deliver_cnt'[m] = commited_cnt[m] + Len(reports[m]) + Len(outbox'[m])
  <2>1. \A a, b, c \in Int : (a + b + c) + 1 = a + b + (c + 1)
    OBVIOUS
  <2>2. Len(outbox[m]) \in Int /\ Len(reports[m]) \in Int /\ commited_cnt[m] \in Int
    BY <1>1
  <2>3. (commited_cnt[m] + Len(reports[m]) + Len(outbox[m])) + 1
          = commited_cnt[m] + Len(reports[m]) + (Len(outbox[m]) + 1)
    BY <2>1, <2>2
  <2>4. Len(outbox'[m]) = Len(outbox[m]) + 1
    BY <1>4
  <2> QED BY <1>3, <1>5, <2>3, <2>4
<1>7. ASSUME NEW i \in 1..Len(outbox[m])
      PROVE  outbox'[m][i].opaque = commited_cnt[m] + Len(reports[m]) + i - 1
  <2>1. outbox[m][i].opaque = commited_cnt[m] + Len(reports[m]) + i - 1
    BY DEF Numbered
  <2> QED BY <1>4, <2>1
<1>8. ASSUME NEW i, i = Len(outbox[m]) + 1
      PROVE  outbox'[m][i].opaque = commited_cnt[m] + Len(reports[m]) + i - 1
  <2>1. outbox'[m][i].opaque = deliver_cnt[m]
    BY <1>2, <1>4, <1>8
  <2>2. deliver_cnt[m] = commited_cnt[m] + Len(reports[m]) + i - 1
    BY <1>1, <1>5, <1>8
  <2> QED BY <2>1, <2>2
<1>9. ASSUME NEW i \in 1..Len(outbox'[m])
      PROVE  i \in 1..Len(outbox[m]) \/ i = Len(outbox[m]) + 1
  <2>1. Len(outbox[m]) \in Nat /\ Len(outbox'[m]) = Len(outbox[m]) + 1
    BY <1>1, <1>4
  <2> QED BY <2>1
<1>10. \A i \in 1..Len(outbox'[m]) :
         outbox'[m][i].opaque = commited_cnt[m] + Len(reports[m]) + i - 1
  BY <1>7, <1>8, <1>9
<1> QED BY <1>6, <1>10 DEF Numbered

LEMMA ThreadNumbered ==
  ASSUME Types, NEW m \in Full, Thread(m), Looping(m) => Numbered(m), Looping(m)'
  PROVE  Numbered(m)'
<1>1. m \in Managers /\ ~Simple(m) /\ FullTypes(m) /\ Longest(m) = U
  BY OneList
<1>2. Empty(m) <=> lists[m][U] = <<>>
  BY OneList
<1>3. ASSUME NEW from, NEW to, Step(m, from, to) PROVE pc[m] = from /\ pc'[m] = to
  BY <1>1, <1>3 DEF Step, Types
<1>4. ASSUME Numbered(m), UNCHANGED <<reports, outbox, deliver_cnt, commited_cnt>>
      PROVE  Numbered(m)'
  BY <1>4 DEF Numbered
<1>5. CASE Absorb(m)
  <2>1. pc[m] = "absorb"
    BY <1>3, <1>5 DEF Absorb
  <2> QED BY <1>4, <1>5, <2>1 DEF Absorb, Looping, kafkaVars
<1>6. CASE SendNothing(m) \/ SendError(m)
  <2>1. pc[m] = "send"
    BY <1>3, <1>6 DEF SendNothing, SendError
  <2> QED BY <1>4, <1>6, <2>1 DEF SendNothing, SendError, Looping, kafkaVars
<1>7. CASE SendOne(m)
  <2>1. Numbered(m)
    BY <1>3, <1>7 DEF SendOne, Looping
  <2>2. CASE ClientFull(m)
    BY <1>4, <1>7, <2>1, <2>2 DEF SendOne
  <2>3. CASE ~ClientFull(m)
    BY <1>1, <1>2, <1>7, <2>1, <2>3, SendingNumbered DEF SendOne
  <2> QED BY <2>2, <2>3
<1>8. CASE Poll(m)
  <2>1. Numbered(m)
    BY <1>3, <1>8 DEF Poll, Looping
  <2>2. /\ commited_cnt'[m] = commited_cnt[m] + Len(reports[m]) /\ reports'[m] = <<>>
        /\ UNCHANGED <<outbox, deliver_cnt>>
    BY <1>1, <1>8 DEF Poll, Types, Domains
  <2>3. commited_cnt[m] \in Nat /\ Len(reports[m]) \in Nat /\ Len(outbox[m]) \in Nat
    BY <1>1 DEF FullTypes
  <2>4. Len(reports'[m]) = 0
    BY <2>2
  <2> QED BY <2>1, <2>2, <2>3, <2>4 DEF Numbered
<1>9. CASE FlushOne(m) \/ FlushError(m) \/ FlushEnd(m)
  <2>1. pc'[m] \in {"flush", "ended"}
    BY <1>3, <1>9 DEF FlushOne, FlushError, FlushEnd
  <2> QED BY <2>1 DEF Looping
<1> QED BY <1>5, <1>6, <1>7, <1>8, <1>9 DEF Thread

LEMMA KafkaNumbered ==
  ASSUME Types, NEW m \in Full, Kafka(m), Numbered(m)
  PROVE  Numbered(m)'
<1>1. m \in Managers /\ ~Simple(m) /\ FullTypes(m) /\ outbox[m] # <<>>
  BY OneList DEF Kafka
<1>2. Deliver(m, 1) \/ DeliverError(m, 1)
  BY <1>1, OneList DEF Kafka, DeliverTwice
<1>3. Reported(m, 1) /\ UNCHANGED <<deliver_cnt, commited_cnt>>
  BY <1>2 DEF Deliver, DeliverError, threadVars
<1>4. /\ outbox[m] \in Seq(Entry) /\ reports[m] \in Seq(Nat) /\ commited_cnt[m] \in Nat
      /\ Len(reports[m]) \in Nat
  BY <1>1 DEF FullTypes
<1>5. RemoveAt(outbox[m], 1) = Tail(outbox[m])
  BY <1>1, <1>4, RemoveFirstIsTail
<1>6. outbox'[m] = Tail(outbox[m]) /\ reports'[m] = Append(reports[m], outbox[m][1].opaque)
  BY <1>1, <1>3, <1>5 DEF Reported, Types, Domains
<1>7. /\ Len(outbox[m]) \in Nat \ {0} /\ Len(outbox'[m]) = Len(outbox[m]) - 1
      /\ \A i \in 1..Len(outbox[m]) - 1 : outbox'[m][i] = outbox[m][i + 1]
  BY <1>1, <1>4, <1>6, TailElements
<1>8. outbox[m][1].opaque = commited_cnt[m] + Len(reports[m])
  BY <1>4, <1>7 DEF Numbered
<1>9. /\ Len(reports'[m]) = Len(reports[m]) + 1
      /\ \A i \in 1..Len(reports[m]) : reports'[m][i] = reports[m][i]
      /\ reports'[m][Len(reports[m]) + 1] = commited_cnt[m] + Len(reports[m])
  BY <1>4, <1>6, <1>8
<1>10. \A i \in 1..Len(reports'[m]) : reports'[m][i] = commited_cnt[m] + i - 1
  <2>1. ASSUME NEW i \in 1..Len(reports[m])
        PROVE  reports'[m][i] = commited_cnt[m] + i - 1
    <3>1. reports[m][i] = commited_cnt[m] + i - 1
      BY DEF Numbered
    <3> QED BY <1>9, <3>1
  <2>2. ASSUME NEW i, i = Len(reports[m]) + 1
        PROVE  reports'[m][i] = commited_cnt[m] + i - 1
    <3>1. reports'[m][i] = commited_cnt[m] + Len(reports[m])
      BY <1>9, <2>2
    <3>2. commited_cnt[m] \in Int /\ Len(reports[m]) \in Int
      BY <1>4
    <3>3. commited_cnt[m] + Len(reports[m]) = commited_cnt[m] + i - 1
      BY <2>2, <3>2
    <3> QED BY <3>1, <3>3
  <2>3. ASSUME NEW i \in 1..Len(reports'[m])
        PROVE  i \in 1..Len(reports[m]) \/ i = Len(reports[m]) + 1
    <3>1. Len(reports[m]) \in Nat /\ Len(reports'[m]) = Len(reports[m]) + 1
      BY <1>4, <1>9
    <3> QED BY <3>1
  <2> QED BY <2>1, <2>2, <2>3
<1>11. \A i \in 1..Len(outbox'[m]) :
         outbox'[m][i].opaque = commited_cnt[m] + Len(reports'[m]) + i - 1
  <2> SUFFICES ASSUME NEW i \in 1..Len(outbox[m]) - 1
               PROVE  outbox'[m][i].opaque = commited_cnt[m] + Len(reports'[m]) + i - 1
    BY <1>7
  <2>1. i + 1 \in 1..Len(outbox[m]) /\ outbox'[m][i] = outbox[m][i + 1]
    BY <1>7
  <2>2. outbox[m][i + 1].opaque = commited_cnt[m] + Len(reports[m]) + (i + 1) - 1
    BY <2>1 DEF Numbered
  <2>3. Len(reports'[m]) = Len(reports[m]) + 1
    BY <1>9
  <2>4. i \in Int /\ Len(reports[m]) \in Int /\ commited_cnt[m] \in Int
    BY <1>4
  <2>5. outbox'[m][i].opaque = commited_cnt[m] + Len(reports[m]) + (i + 1) - 1
    BY <2>1, <2>2
  <2> QED BY <2>3, <2>4, <2>5
<1>12. deliver_cnt[m] = commited_cnt[m] + Len(reports'[m]) + Len(outbox'[m])
  <2>1. deliver_cnt[m] = commited_cnt[m] + Len(reports[m]) + Len(outbox[m])
    BY DEF Numbered
  <2>2. Len(reports'[m]) = Len(reports[m]) + 1 /\ Len(outbox'[m]) = Len(outbox[m]) - 1
    BY <1>7, <1>9
  <2>3. Len(outbox[m]) \in Int /\ Len(reports[m]) \in Int /\ commited_cnt[m] \in Int
    BY <1>4, <1>7
  <2> QED BY <2>1, <2>2, <2>3
<1> QED BY <1>3, <1>10, <1>11, <1>12 DEF Numbered

LEMMA NextThreads ==
  ASSUME Types, Threads, [Next]_vars
  PROVE  Threads'
<1> SUFFICES ASSUME NEW n \in Managers
             PROVE  /\ pc'[n] # "panicked"
                    /\ pc'[n] \in {"flush", "ended"} => engine' = "closed"
                    /\ n \in Full /\ Looping(n)' => Numbered(n)'
  BY DEF Threads
<1>1. /\ pc[n] # "panicked" /\ (pc[n] \in {"flush", "ended"} => engine = "closed")
      /\ (n \in Full /\ Looping(n) => Numbered(n))
  BY DEF Threads
<1>2. ASSUME Kept(n) PROVE (n \in Full /\ Looping(n)' => Numbered(n)') /\ pc'[n] = pc[n]
  BY <1>1, <1>2 DEF Kept, Looping, Numbered
<1>3. CASE Operation \/ Close \/ UNCHANGED vars
  <2>1. Kept(n) /\ (engine = "closed" => engine' = "closed")
    BY <1>3 DEF Operation, Close, vars, Kept, engineVars, threadVars, kafkaVars
  <2> QED BY <1>1, <1>2, <2>1
<1>4. CASE ProcessExit
  BY <1>4 DEF ProcessExit, Looping, engineVars
<1>5. CASE \E m \in Managers : Push(m)
  <2>1. PICK m \in Managers : Push(m)
    BY <1>5
  <2>2. engine = "up" /\ UNCHANGED <<threadVars, kafkaVars>>
    BY <2>1 DEF Push
  <2> QED BY <1>1, <2>2 DEF Looping, Numbered, threadVars, kafkaVars
<1>6. CASE \E m \in Managers : Thread(m)
  <2>1. PICK m \in Managers : Thread(m)
    BY <1>6
  <2>2. engine' = engine /\ (n # m => Kept(n))
    BY <2>1, ThreadFrame DEF engineVars
  <2>3. CASE n # m
    BY <1>1, <1>2, <2>2, <2>3
  <2>4. CASE n = m
    <3>1. n \in Full /\ Looping(n)' => Numbered(n)'
      BY <1>1, <2>1, <2>4, ThreadNumbered
    <3>2. ASSUME NEW from, NEW to, Step(n, from, to) PROVE pc[n] = from /\ pc'[n] = to
      BY <3>2 DEF Step, Types
    <3>3. Absorb(n) => /\ pc'[n] \in {"flush", "send"}
                       /\ pc'[n] = "flush" => engine = "closed"
      BY <3>2 DEF Absorb
    <3>4. SendNothing(n) \/ SendOne(n) \/ SendError(n) => pc'[n] = "poll"
      BY <3>2 DEF SendNothing, SendOne, SendError
    <3>5. Poll(n) => pc'[n] = "absorb"
      <4> SUFFICES ASSUME Poll(n) PROVE InSequence(n)
        BY <3>2 DEF Poll
      <4>1. pc[n] = "poll"
        BY <3>2 DEF Poll
      <4>2. CASE n \in Full
        <5>1. DOMAIN reports[n] = 1..Len(reports[n])
          BY <4>2, OneList DEF FullTypes
        <5> QED BY <1>1, <4>1, <4>2, <5>1 DEF InSequence, Numbered, Looping
      <4> QED BY <4>2 DEF Full, InSequence
    <3>6. FlushOne(n) \/ FlushError(n) \/ FlushEnd(n) => /\ pc[n] = "flush"
                                                         /\ pc'[n] \in {"flush", "ended"}
      BY <3>2 DEF FlushOne, FlushError, FlushEnd
    <3> QED BY <1>1, <2>1, <2>2, <2>4, <3>1, <3>3, <3>4, <3>5, <3>6 DEF Thread
  <2> QED BY <2>3, <2>4
<1>7. CASE \E m \in Managers : Kafka(m)
  <2>1. PICK m \in Managers : Kafka(m)
    BY <1>7
  <2>2. UNCHANGED <<engine, pc>> /\ (n # m => Kept(n))
    BY <2>1, KafkaFrame DEF engineVars, threadVars
  <2>3. CASE n # m
    BY <1>1, <1>2, <2>2, <2>3
  <2>4. CASE n = m
    BY <1>1, <2>1, <2>2, <2>4, KafkaNumbered DEF Looping
  <2> QED BY <2>3, <2>4
<1> QED BY <1>3, <1>4, <1>5, <1>6, <1>7 DEF Next, Thread, Kafka

LEMMA NextRoom ==
  ASSUME BurstsFit, Types, Survival, [Next]_vars
  PROVE  Room' /\ engine' # "panicked"
<1> USE DEF Survival
<1>1. \A m \in Managers : sent[m] \in Nat /\ Len(chan[m]) \in Nat
  <2>1. \A m \in Managers : sent[m] \in Nat /\ chan[m] \in Seq(Nat)
    BY DEF Types
  <2> QED BY <2>1
<1>2. Capacity \in Nat /\ Reserve \in Nat /\ target \in Nat
  BY ProducerAssumption DEF Types
<1>3. CASE Operation
  <2>1. op + 1 \in 1..Len(Operations)
    BY <1>3, ProducerAssumption DEF Operation, Types
  <2>2. op + 1 \in DOMAIN Operations /\ Len(Operations[op + 1]) \in Nat
    BY <2>1, ProducerAssumption
  <2>3. Len(Operations[op + 1]) <= Reserve + 1
    BY <2>2 DEF BurstsFit
  <2>4. /\ \A m \in Managers : sent[m] = target /\ Len(chan[m]) < Capacity - Reserve
        /\ UNCHANGED <<sent, chan, engine>> /\ target' = target + Len(Operations[op + 1])
    <3>1. \A m \in Managers : sent[m] = target /\ ~(Len(chan[m]) >= Capacity - Reserve)
      BY <1>3 DEF Operation, Idle, is_block
    <3>2. UNCHANGED <<sent, chan, engine>> /\ target' = target + Len(Operations[op + 1])
      BY <1>3 DEF Operation
    <3> QED BY <1>1, <1>2, <3>1, <3>2
  <2>5. \A m \in Managers :
          sent'[m] <= target' /\ Len(chan'[m]) + (target' - sent'[m]) <= Capacity
    <3>1. ASSUME NEW x \in Nat, x < Capacity - Reserve, NEW k \in Nat, k <= Reserve + 1
          PROVE  target <= target + k /\ x + ((target + k) - target) <= Capacity
      BY <1>2, <3>1
    <3> QED BY <1>1, <2>2, <2>3, <2>4, <3>1
  <2> QED BY <2>4, <2>5 DEF Room
<1>4. CASE Close
  BY <1>4 DEF Close, Room
<1>5. CASE ProcessExit \/ UNCHANGED vars
  BY <1>5 DEF ProcessExit, vars, engineVars, Room
<1>6. CASE \E m \in Managers : Push(m)
  <2>1. PICK m \in Managers : Push(m)
    BY <1>6
  <2>2. engine = "up" /\ sent[m] < target
    BY <2>1 DEF Push, Turn
  <2>3. \A n \in Managers : sent[n] <= target /\ Len(chan[n]) + (target - sent[n]) <= Capacity
    BY <2>2 DEF Room
  <2>4. Len(chan[m]) < Capacity
    BY <1>1, <1>2, <2>2, <2>3
  <2>5. Alive(m)
    BY <2>2 DEF Threads, Alive
  <2>6. /\ chan' = [chan EXCEPT ![m] = Append(@, sent[m] + 1)]
        /\ sent' = [sent EXCEPT ![m] = @ + 1] /\ UNCHANGED <<engine, target>>
    BY <2>1, <2>4, <2>5 DEF Push
  <2>7. Len(chan'[m]) = Len(chan[m]) + 1 /\ sent'[m] = sent[m] + 1
    <3>1. chan'[m] = Append(chan[m], sent[m] + 1) /\ sent'[m] = sent[m] + 1
      BY <2>6 DEF Types
    <3>2. chan[m] \in Seq(Nat)
      BY DEF Types
    <3> QED BY <3>1, <3>2
  <2>8. sent'[m] <= target /\ Len(chan'[m]) + (target - sent'[m]) <= Capacity
    BY <1>1, <1>2, <2>2, <2>3, <2>7
  <2>9. \A n \in Managers : n # m => sent'[n] = sent[n] /\ chan'[n] = chan[n]
    BY <2>6 DEF Types
  <2> QED BY <2>2, <2>3, <2>6, <2>8, <2>9 DEF Room
<1>7. CASE \E m \in Managers : Thread(m)
  <2>1. PICK m \in Managers : Thread(m)
    BY <1>7
  <2>2. UNCHANGED <<engine, target, sent>> /\ \A n \in Managers : n # m => chan'[n] = chan[n]
    BY <2>1, ThreadFrame DEF engineVars, Kept
  <2>3. chan' = chan \/ (chan[m] # <<>> /\ chan'[m] = Tail(chan[m]))
    BY <2>1 DEF Thread, Absorb, SendNothing, SendOne, SendError, Poll, FlushOne, FlushError,
                FlushEnd, Types
  <2>4. Len(chan'[m]) \in Nat /\ Len(chan'[m]) <= Len(chan[m])
    <3>1. chan[m] \in Seq(Nat) /\ Len(chan[m]) \in Nat
      BY <1>1 DEF Types
    <3>2. CASE chan' = chan
      BY <3>1, <3>2
    <3>3. CASE chan[m] # <<>> /\ chan'[m] = Tail(chan[m])
      BY <3>1, <3>3, TailElements
    <3> QED BY <2>3, <3>2, <3>3
  <2>5. ASSUME engine = "up", NEW n \in Managers
        PROVE  sent[n] <= target /\ Len(chan'[n]) + (target - sent[n]) <= Capacity
    <3>1. sent[n] <= target /\ Len(chan[n]) + (target - sent[n]) <= Capacity
      BY <2>5 DEF Room
    <3>2. Len(chan'[n]) \in Nat /\ Len(chan'[n]) <= Len(chan[n])
      BY <1>1, <2>2, <2>4
    <3> QED BY <1>1, <1>2, <3>1, <3>2
  <2> QED BY <2>2, <2>5 DEF Room
<1>8. CASE \E m \in Managers : Kafka(m)
  BY <1>8, KafkaFrame DEF Room, engineVars
<1> QED BY <1>3, <1>4, <1>5, <1>6, <1>7, <1>8 DEF Next, Thread, Kafka

LEMMA InitSurvival == Init => Survival
<1> SUFFICES ASSUME Init PROVE Survival
  OBVIOUS
<1>1. ASSUME NEW m \in Managers PROVE Numbered(m)
  BY DEF Init, Numbered
<1>2. Threads
  BY <1>1 DEF Threads, Init
<1>3. Room
  BY ProducerAssumption DEF Room, Init
<1> QED BY <1>2, <1>3 DEF Survival, Init

(***************************************************************************)
(* As long as no operation has more messages than is_block keeps free, and *)
(* one more, no push finds its channel full or its receiver gone, and the  *)
(* full scheme's assertion on the order of the delivery reports holds      *)
(* (check_service_available, is_block, push_message, deliver_commit).      *)
(***************************************************************************)
THEOREM EngineSurvivesBursts == BurstsFit => (Spec => []EngineSurvives)
<1> SUFFICES ASSUME BurstsFit PROVE Spec => []EngineSurvives
  OBVIOUS
<1>1. Init => Types /\ Survival
  BY InitTypes, InitSurvival
<1>2. Types /\ Survival /\ [Next]_vars => (Types /\ Survival)'
  BY NextTypes, NextThreads, NextRoom DEF Survival
<1>3. Survival => EngineSurvives
  BY DEF Survival, Threads, EngineSurvives
<1> QED BY <1>1, <1>2, <1>3, PTL DEF Spec

(***************************************************************************)
(* Every message in one place.  The messages of the first k operations are *)
(* the first Begun(k) ones.                                                *)
(***************************************************************************)
Begins(f) ==
  /\ \A k \in 0..Len(Operations) : f[k] \in Nat /\ f[k] <= Len(Topic)
  /\ f[0] = 0
  /\ \A k \in 1..Len(Operations) : f[k] = f[k - 1] + Len(Operations[k])

Begun == CHOOSE f : Begins(f)

LEMMA BegunFacts == Begins(Begun) /\ Len(Topic) \in Nat
<1> DEFINE S == ToSet(SimpleTopics) \cup FullTopics
           N == Len(Operations)
<1>1. Operations \in Seq(Seq(S)) /\ N \in Nat
  BY ProducerAssumption
<1>2. CASE N = 0
  <2>1. Topic = Operations /\ Len(Topic) = 0
    BY <1>2 DEF Topic, FlattenSeq
  <2>2. Begins([k \in {0} |-> 0])
    BY <1>2, <2>1 DEF Begins
  <2> QED BY <2>1, <2>2 DEF Begun
<1>3. CASE N # 0
  <2>1. Operations # <<>>
    BY <1>3
  <2>2. PICK g \in [1..N -> Seq(S)] : Gathers(g, Operations, N) /\ FlattenSeq(Operations) = g[N]
    BY <1>1, <2>1, FlattenGathers
  <2> DEFINE f == [k \in 0..N |-> IF k = 0 THEN 0 ELSE Len(g[k])]
  <2> HIDE DEF S
  <2>3. ASSUME NEW k \in 1..N PROVE f[k] = Len(g[k]) /\ f[k] \in Nat
    BY <2>3
  <2>4. f[0] = 0
    BY <1>1
  <2>5. ASSUME NEW k \in 1..N PROVE f[k] = f[k - 1] + Len(Operations[k])
    <3>1. Operations[k] \in Seq(S) /\ Len(Operations[k]) \in Nat
      BY <1>1
    <3>2. g[k] = IF k = 1 THEN Operations[k] ELSE g[k - 1] \o Operations[k]
      BY <2>2 DEF Gathers
    <3>3. CASE k = 1
      BY <2>3, <2>4, <3>1, <3>2, <3>3
    <3>4. CASE k # 1
      <4>1. k - 1 \in 1..N
        BY <3>4
      <4>2. f[k - 1] = Len(g[k - 1]) /\ g[k - 1] \in Seq(S)
        BY <2>3, <4>1
      <4>3. Len(g[k - 1] \o Operations[k]) = Len(g[k - 1]) + Len(Operations[k])
        BY <3>1, <4>2
      <4>4. f[k] = Len(g[k]) /\ g[k] = g[k - 1] \o Operations[k]
        BY <2>3, <3>2, <3>4
      <4> QED BY <4>2, <4>3, <4>4
    <3> QED BY <3>3, <3>4
  <2> HIDE DEF f
  <2>6. ASSUME NEW k \in 0..N PROVE f[k] \in Nat
    BY <2>3, <2>4
  <2>7. Len(Topic) = f[N] /\ f[N] \in Nat
    BY <1>1, <1>3, <2>2, <2>3 DEF Topic
  <2> DEFINE T == {d \in Nat : d \in 0..N => f[N - d] <= f[N]}
  <2>8. 0 \in T
    <3>1. N - 0 = N
      BY <1>1
    <3> QED BY <2>7, <3>1
  <2>9. ASSUME NEW d \in Nat, d \in T PROVE d + 1 \in T
    <3> SUFFICES ASSUME d + 1 \in 0..N PROVE f[N - (d + 1)] <= f[N]
      OBVIOUS
    <3>1. N - d \in 1..N /\ (N - d) - 1 = N - (d + 1) /\ d \in 0..N /\ N - (d + 1) \in 0..N
      BY <1>1
    <3>2. f[N - d] = f[N - (d + 1)] + Len(Operations[N - d])
      BY <2>5, <3>1
    <3>3. Len(Operations[N - d]) \in Nat
      BY <1>1, <3>1
    <3>4. f[N - d] <= f[N] /\ f[N - (d + 1)] \in Nat
      BY <2>6, <2>9, <3>1
    <3> QED BY <2>7, <3>2, <3>3, <3>4
  <2>10. Nat \subseteq T
    <3> HIDE DEF T
    <3> QED BY <2>8, <2>9, SetInduction
  <2>11. ASSUME NEW k \in 0..N PROVE f[k] <= Len(Topic)
    <3>1. N - k \in T /\ N - k \in 0..N /\ N - (N - k) = k
      BY <1>1, <2>10
    <3> QED BY <2>7, <3>1
  <2>12. Begins(f)
    BY <2>4, <2>5, <2>6, <2>11 DEF Begins
  <2> QED BY <2>7, <2>12 DEF Begun
<1> QED BY <1>2, <1>3

(***************************************************************************)
(* What each queue of a manager may hold, and within which limits.         *)
(***************************************************************************)
Names(m) == ToSet(Lists(m))

Carried(m, t) == {i \in Concerns(m) : ListOf(m, Topic[i]) = t}

Parcel(m) ==
  {e \in [topic : Names(m), msg : Messages, opaque : Nat] : e.msg \in Carried(m, e.topic)}

\* The lists, or the topics, of a manager.
Sorted(m, h) == DOMAIN h = Names(m) /\ \A t \in Names(m) : h[t] \in Seq(Carried(m, t))

Queues(m) ==
  /\ chan[m] \in Seq(Messages) /\ Len(chan[m]) <= Capacity
  /\ Sorted(m, lists[m]) /\ \A t \in Names(m) : Len(lists[m][t]) <= ListLimit
  /\ Sorted(m, log[m])
  /\ outbox[m] \in Seq(Parcel(m)) /\ Len(outbox[m]) <= KafkaLimit

Counters(m) ==
  /\ deliver_cnt[m] \in Nat /\ commited_cnt[m] \in Nat /\ reports[m] \in Seq(Nat)
  /\ queue_full[m] \in BOOLEAN
  /\ lost[m] \subseteq Messages /\ repeated[m] \in [Messages -> 0..errors]
  /\ sent[m] \in 0..target

(***************************************************************************)
(* The copies of a message, place by place.  One of them is on its way or  *)
(* has arrived; the others are what retries have written to the log.       *)
(***************************************************************************)
At(m, h, i) == Hits(h[ListOf(m, Topic[i])], {i})
InChan(m, i) == Hits(chan[m], {i})
InList(m, i) == At(m, lists[m], i)
InClient(m, i) == Hits(outbox[m], {e \in Parcel(m) : e.msg = i})
InLog(m, i) == At(m, log[m], i)
IsLost(m, i) == IF i \in lost[m] THEN 1 ELSE 0

Balanced(c, l, o, g, x, r, pushed) ==
  /\ g >= r
  /\ c + l + o + (g - r) + x = IF pushed THEN 1 ELSE 0
  /\ ~pushed => r = 0

Accounts(m) ==
  \A i \in Concerns(m) :
    Balanced(InChan(m, i), InList(m, i), InClient(m, i), InLog(m, i), IsLost(m, i),
             repeated[m][i], i <= sent[m])

Placed(m) == Queues(m) /\ Counters(m) /\ Accounts(m)

Begin ==
  /\ DOMAIN repeated = Managers /\ DOMAIN queue_full = Managers
  /\ op \in 0..Len(Operations) /\ target = Begun[op]
  /\ errors \in 0..MaxErrors

Places == Begin /\ \A m \in Managers : Placed(m)

LEMMA ListNames ==
  ASSUME NEW m
  PROVE  /\ \A i \in Concerns(m) : /\ i \in Messages /\ i \in Nat
                                   /\ ListOf(m, Topic[i]) \in Names(m)
                                   /\ i \in Carried(m, ListOf(m, Topic[i]))
         /\ \A t : Carried(m, t) \subseteq Concerns(m) /\ Concerns(m) \subseteq Messages
         /\ Messages \subseteq Nat
<1>1. Messages \subseteq Nat
  BY BegunFacts DEF Messages
<1>2. ASSUME NEW i \in Concerns(m) PROVE ListOf(m, Topic[i]) \in Names(m)
  <2>1. CASE Simple(m)
    BY <2>1 DEF Concerns, Relevant, ListOf, Names, Lists
  <2>2. CASE ~Simple(m)
    <3>1. ToSet(<<"unifyevents">>) = {"unifyevents"}
      BY DEF ToSet
    <3> QED BY <2>2, <3>1 DEF ListOf, Names, Lists
  <2> QED BY <2>1, <2>2
<1> QED BY <1>1, <1>2 DEF Concerns, Carried

LEMMA FirstLongest ==
  ASSUME NEW n \in {1, 4}, NEW f \in [1..n -> Nat]
  PROVE  \E i \in 1..n : /\ \A j \in 1..i - 1 : f[j] < f[i]
                         /\ \A j \in i..n : f[j] <= f[i]
<1>1. CASE n = 1
  BY <1>1
<1>2. CASE n = 4
  <2>1. f[1] \in Nat /\ f[2] \in Nat /\ f[3] \in Nat /\ f[4] \in Nat
    BY <1>2
  <2> DEFINE P(i) == (\A j \in 1..i - 1 : f[j] < f[i]) /\ (\A j \in i..4 : f[j] <= f[i])
  <2>2. CASE f[1] >= f[2] /\ f[1] >= f[3] /\ f[1] >= f[4]
    <3>1. P(1)
      BY <2>1, <2>2
    <3> QED BY <1>2, <3>1
  <2>3. CASE f[2] > f[1] /\ f[2] >= f[3] /\ f[2] >= f[4]
    <3>1. P(2)
      BY <2>1, <2>3
    <3> QED BY <1>2, <3>1
  <2>4. CASE f[3] > f[1] /\ f[3] > f[2] /\ f[3] >= f[4]
    <3>1. P(3)
      BY <2>1, <2>4
    <3> QED BY <1>2, <3>1
  <2>5. CASE f[4] > f[1] /\ f[4] > f[2] /\ f[4] > f[3]
    <3>1. P(4)
      BY <2>1, <2>5
    <3> QED BY <1>2, <3>1
  <2> QED BY <2>1, <2>2, <2>3, <2>4, <2>5
<1> QED BY <1>1, <1>2

LEMMA LongestList ==
  ASSUME NEW m, Queues(m)
  PROVE  Longest(m) \in Names(m) /\ (~Empty(m) => lists[m][Longest(m)] # <<>>)
<1> DEFINE L == Lists(m)
           n == Len(L)
           f == [i \in 1..n |-> Len(lists[m][L[i]])]
           first(i) == /\ \A j \in 1..i - 1 : Len(lists[m][L[j]]) < Len(lists[m][L[i]])
                       /\ \A j \in i..Len(L) : Len(lists[m][L[j]]) <= Len(lists[m][L[i]])
<1>1. n \in {1, 4} /\ DOMAIN L = 1..n
  <2>1. Len(SimpleTopics) = 4 /\ DOMAIN SimpleTopics = 1..4
    BY DEF SimpleTopics
  <2>2. Len(<<"unifyevents">>) = 1 /\ DOMAIN <<"unifyevents">> = 1..1
    OBVIOUS
  <2>3. L = SimpleTopics \/ L = <<"unifyevents">>
    BY DEF Lists
  <2> HIDE DEF L
  <2> QED BY <2>1, <2>2, <2>3
<1>2. \A i \in 1..n : L[i] \in Names(m)
  BY <1>1 DEF Names, ToSet
<1>3. \A t \in Names(m) : lists[m][t] \in Seq(Carried(m, t)) /\ Len(lists[m][t]) \in Nat
  BY DEF Queues, Sorted
<1>4. f \in [1..n -> Nat]
  BY <1>2, <1>3
<1>5. PICK i \in 1..n : /\ \A j \in 1..i - 1 : f[j] < f[i]
                        /\ \A j \in i..n : f[j] <= f[i]
  BY <1>1, <1>4, FirstLongest
<1>6. first(i)
  <2>1. \A j \in 1..n : f[j] = Len(lists[m][L[j]])
    OBVIOUS
  <2>2. (\A j \in 1..i - 1 : j \in 1..n) /\ \A j \in i..n : j \in 1..n
    BY <1>1
  <2> HIDE DEF f
  <2> QED BY <1>5, <2>1, <2>2
<1> DEFINE k == CHOOSE j \in DOMAIN L : first(j)
<1>7. k \in 1..n /\ first(k)
  <2> HIDE DEF first
  <2> QED BY <1>1, <1>6
<1>8. Longest(m) = L[k]
  BY DEF Longest
<1> HIDE DEF L, k
<1>9. ASSUME ~Empty(m) PROVE lists[m][L[k]] # <<>>
  <2>1. PICK t \in Names(m) : lists[m][t] # <<>>
    BY <1>9 DEF Empty, Queues, Sorted
  <2>2. PICK j \in 1..n : t = L[j]
    BY <1>1, <2>1 DEF Names, ToSet, L
  <2>3. Len(lists[m][L[j]]) <= Len(lists[m][L[k]])
    <3>1. j \in 1..k - 1 \/ j \in k..n
      BY <1>1, <1>7
    <3>2. L[j] \in Names(m) /\ L[k] \in Names(m)
      BY <1>2, <1>7
    <3> QED BY <1>3, <1>7, <3>1, <3>2
  <2>4. Len(lists[m][L[j]]) # 0 /\ Len(lists[m][L[j]]) \in Nat
    BY <1>3, <2>1, <2>2
  <2>5. Len(lists[m][L[k]]) # 0
    BY <1>2, <1>3, <1>7, <2>3, <2>4
  <2> QED BY <2>5
<1> QED BY <1>2, <1>7, <1>8, <1>9

(***************************************************************************)
(* What a move does to the copies of every message.                        *)
(***************************************************************************)
One(i, x) == IF i = x THEN 1 ELSE 0

LEMMA PlaceTypes ==
  ASSUME NEW m, Queues(m), NEW i \in Concerns(m)
  PROVE  /\ InChan(m, i) \in Nat /\ InList(m, i) \in Nat /\ InClient(m, i) \in Nat
         /\ InLog(m, i) \in Nat /\ IsLost(m, i) \in {0, 1}
<1>1. ListOf(m, Topic[i]) \in Names(m)
  BY ListNames
<1>2. /\ chan[m] \in Seq(Messages) /\ outbox[m] \in Seq(Parcel(m))
      /\ lists[m][ListOf(m, Topic[i])] \in Seq(Carried(m, ListOf(m, Topic[i])))
      /\ log[m][ListOf(m, Topic[i])] \in Seq(Carried(m, ListOf(m, Topic[i])))
  BY <1>1 DEF Queues, Sorted
<1>3. InChan(m, i) \in Nat /\ InClient(m, i) \in Nat
  BY <1>2, HitsType DEF InChan, InClient
<1>4. InList(m, i) \in Nat /\ InLog(m, i) \in Nat
  BY <1>2, HitsType DEF At, InList, InLog
<1> QED BY <1>3, <1>4 DEF IsLost

\* Only the list t changes, to q.
Becomes(m, h, k, t, q) ==
  DOMAIN k = Names(m) /\ k[t] = q /\ \A u \in Names(m) : u # t => k[u] = h[u]

LEMMA SortedGains ==
  ASSUME NEW m, NEW h, Sorted(m, h), NEW t \in Names(m), NEW x \in Carried(m, t),
         NEW k, Becomes(m, h, k, t, Append(h[t], x))
  PROVE  Sorted(m, k) /\ \A i \in Concerns(m) : At(m, k, i) = At(m, h, i) + One(i, x)
<1>1. h[t] \in Seq(Carried(m, t)) /\ Append(h[t], x) \in Seq(Carried(m, t))
  <2>1. h[t] \in Seq(Carried(m, t))
    BY DEF Sorted
  <2> QED BY <2>1, AppendElements
<1>2. k[t] = Append(h[t], x) /\ \A u \in Names(m) : u # t => k[u] = h[u]
  BY DEF Becomes
<1>3. Sorted(m, k)
  BY <1>1, <1>2 DEF Sorted, Becomes
<1>4. ASSUME NEW i \in Concerns(m) PROVE At(m, k, i) = At(m, h, i) + One(i, x)
  <2>1. ListOf(m, Topic[i]) \in Names(m)
    BY ListNames
  <2>2. CASE ListOf(m, Topic[i]) = t
    <3>1. Hits(Append(h[t], x), {i}) = Hits(h[t], {i}) + (IF x \in {i} THEN 1 ELSE 0)
      BY <1>1, AppendHits
    <3> QED BY <1>2, <2>2, <3>1 DEF At, One
  <2>3. CASE ListOf(m, Topic[i]) # t
    <3>1. i # x
      BY <2>3 DEF Carried
    <3>2. Hits(h[ListOf(m, Topic[i])], {i}) \in Nat
      BY <2>1, HitsType DEF Sorted
    <3> QED BY <1>2, <2>1, <2>3, <3>1, <3>2 DEF At, One
  <2> QED BY <2>2, <2>3
<1> QED BY <1>3, <1>4

\* x is the first of q, and the others are r.
Splits(q, x, r) == q # <<>> /\ x = Head(q) /\ r = Tail(q)

LEMMA SortedLoses ==
  ASSUME NEW m, NEW h, Sorted(m, h), NEW t \in Names(m),
         NEW x, NEW q, Splits(h[t], x, q),
         NEW k, Becomes(m, h, k, t, q)
  PROVE  /\ Sorted(m, k) /\ x \in Carried(m, t)
         /\ \A i \in Concerns(m) : At(m, k, i) = At(m, h, i) - One(i, x)
<1> USE DEF Splits
<1>1. h[t] \in Seq(Carried(m, t)) /\ Tail(h[t]) \in Seq(Carried(m, t)) /\ x \in Carried(m, t)
  <2>1. h[t] \in Seq(Carried(m, t))
    BY DEF Sorted
  <2> QED BY <2>1, TailElements
<1>2. k[t] = Tail(h[t]) /\ \A u \in Names(m) : u # t => k[u] = h[u]
  BY DEF Becomes
<1>3. Sorted(m, k)
  BY <1>1, <1>2 DEF Sorted, Becomes
<1>4. ASSUME NEW i \in Concerns(m) PROVE At(m, k, i) = At(m, h, i) - One(i, x)
  <2>1. ListOf(m, Topic[i]) \in Names(m)
    BY ListNames
  <2>2. CASE ListOf(m, Topic[i]) = t
    <3>1. Hits(Tail(h[t]), {i}) = Hits(h[t], {i}) - (IF Head(h[t]) \in {i} THEN 1 ELSE 0)
      BY <1>1, TailHits
    <3> QED BY <1>2, <2>2, <3>1 DEF At, One
  <2>3. CASE ListOf(m, Topic[i]) # t
    <3>1. i # x
      BY <1>1, <2>3 DEF Carried
    <3>2. Hits(h[ListOf(m, Topic[i])], {i}) \in Nat
      BY <2>1, HitsType DEF Sorted
    <3> QED BY <1>2, <2>1, <2>3, <3>1, <3>2 DEF At, One
  <2> QED BY <2>2, <2>3
<1> QED BY <1>1, <1>3, <1>4

LEMMA SortedTurns ==
  ASSUME NEW m, NEW h, Sorted(m, h), NEW t \in Names(m), h[t] # <<>>,
         NEW k, Becomes(m, h, k, t, Append(Tail(h[t]), Head(h[t])))
  PROVE  /\ Sorted(m, k) /\ Len(k[t]) = Len(h[t])
         /\ \A i \in Concerns(m) : At(m, k, i) = At(m, h, i)
<1>1. PICK x, q : Splits(h[t], x, q)
  BY DEF Splits
<1>2. PICK g : Becomes(m, h, g, t, q)
  <2>1. Becomes(m, h, [u \in Names(m) |-> IF u = t THEN q ELSE h[u]], t, q)
    BY DEF Becomes
  <2> QED BY <2>1
<1>3. /\ Sorted(m, g) /\ x \in Carried(m, t)
      /\ \A i \in Concerns(m) : At(m, g, i) = At(m, h, i) - One(i, x)
  BY <1>2, <1>1, SortedLoses
<1>4. Becomes(m, g, k, t, Append(g[t], x))
  BY <1>2, <1>1 DEF Becomes, Splits
<1>5. Sorted(m, k) /\ \A i \in Concerns(m) : At(m, k, i) = At(m, g, i) + One(i, x)
  BY <1>3, <1>4, SortedGains
<1>6. ASSUME NEW i \in Concerns(m) PROVE At(m, k, i) = At(m, h, i)
  <2>1. At(m, h, i) \in Nat
    BY ListNames, HitsType DEF At, Sorted
  <2>2. At(m, g, i) = At(m, h, i) - One(i, x) /\ At(m, k, i) = At(m, g, i) + One(i, x)
    BY <1>3, <1>5
  <2> QED BY <2>1, <2>2 DEF One
<1>7. Len(k[t]) = Len(h[t])
  <2>1. h[t] \in Seq(Carried(m, t))
    BY DEF Sorted
  <2>2. /\ Tail(h[t]) \in Seq(Carried(m, t)) /\ x \in Carried(m, t)
        /\ Len(Tail(h[t])) = Len(h[t]) - 1 /\ Len(h[t]) \in Nat
    BY <1>1, <2>1, TailElements DEF Splits
  <2>3. k[t] = Append(Tail(h[t]), x)
    BY <1>1 DEF Becomes, Splits
  <2> QED BY <2>2, <2>3
<1> QED BY <1>5, <1>6, <1>7

(***************************************************************************)
(* The moves of one manager.  Still(n): none of its messages has moved.    *)
(***************************************************************************)
Still(n) ==
  /\ chan'[n] = chan[n] /\ lists'[n] = lists[n] /\ log'[n] = log[n] /\ outbox'[n] = outbox[n]
  /\ lost'[n] = lost[n] /\ repeated'[n] = repeated[n] /\ sent'[n] = sent[n]

LEMMA StillPlaced ==
  ASSUME NEW n, Queues(n), Accounts(n), Still(n)
  PROVE  Queues(n)' /\ Accounts(n)'
BY DEF Queues, Accounts, Still, InChan, InList, InClient, InLog, IsLost

LEMMA FailedMoves ==
  ASSUME Types, NEW m \in Managers, Queues(m), Accounts(m), NEW t \in Names(m),
         lists[m][t] # <<>>, Failed(m, t),
         chan'[m] = chan[m], log'[m] = log[m], outbox'[m] = outbox[m], lost'[m] = lost[m],
         repeated'[m] = repeated[m], sent'[m] = sent[m]
  PROVE  Queues(m)' /\ Accounts(m)'
<1>1. CASE ~Simple(m)
  <2>1. Still(m)
    BY <1>1 DEF Failed, Still
  <2> QED BY <2>1, StillPlaced
<1>2. CASE Simple(m)
  <2>1. Sorted(m, lists[m])
    BY DEF Queues
  <2>2. lists'[m] = [lists[m] EXCEPT ![t] = Append(Tail(@), Head(@))]
    BY <1>2 DEF Failed, Types, Domains
  <2>3. Becomes(m, lists[m], lists'[m], t, Append(Tail(lists[m][t]), Head(lists[m][t])))
    BY <2>1, <2>2 DEF Becomes, Sorted
  <2>4. /\ Sorted(m, lists'[m]) /\ Len(lists'[m][t]) = Len(lists[m][t])
        /\ \A i \in Concerns(m) : At(m, lists'[m], i) = At(m, lists[m], i)
    BY <2>1, <2>3, SortedTurns
  <2>5. \A u \in Names(m) : Len(lists'[m][u]) <= ListLimit
    BY <2>3, <2>4 DEF Becomes, Queues
  <2>6. Queues(m)'
    BY <2>4, <2>5 DEF Queues
  <2> QED BY <2>4, <2>6 DEF Accounts, InChan, InList, InClient, InLog, IsLost
<1> QED BY <1>1, <1>2

LEMMA SentMoves ==
  ASSUME Types, NEW m \in Managers, Queues(m), Accounts(m), deliver_cnt[m] \in Nat,
         NEW t \in Names(m), lists[m][t] # <<>>, Sent(m, t), ~ClientFull(m),
         chan'[m] = chan[m], log'[m] = log[m], lost'[m] = lost[m],
         repeated'[m] = repeated[m], sent'[m] = sent[m]
  PROVE  Queues(m)' /\ Accounts(m)'
<1>1. PICK x, q : Splits(lists[m][t], x, q)
  BY DEF Splits
<1>2. PICK e : e = [topic |-> t, msg |-> x, opaque |-> deliver_cnt[m]]
  OBVIOUS
<1>3. Sorted(m, lists[m])
  BY DEF Queues
<1>4. /\ lists'[m] = [lists[m] EXCEPT ![t] = Tail(@)]
      /\ outbox'[m] = Append(outbox[m], e)
  BY <1>1, <1>2 DEF Sent, Types, Domains, Splits
<1>5. Becomes(m, lists[m], lists'[m], t, q)
  BY <1>1, <1>3, <1>4 DEF Becomes, Sorted, Splits
<1>6. /\ Sorted(m, lists'[m]) /\ x \in Carried(m, t)
      /\ \A i \in Concerns(m) : At(m, lists'[m], i) = At(m, lists[m], i) - One(i, x)
  BY <1>1, <1>3, <1>5, SortedLoses
<1>7. e \in Parcel(m) /\ e.msg = x
  <2>1. x \in Messages
    BY <1>6, ListNames
  <2>2. e \in [topic : Names(m), msg : Messages, opaque : Nat] /\ e.msg = x /\ e.topic = t
    BY <1>2, <2>1
  <2> QED BY <1>6, <2>2 DEF Parcel
<1>8. outbox[m] \in Seq(Parcel(m)) /\ Len(outbox[m]) \in Nat
  BY DEF Queues
<1>9. outbox'[m] \in Seq(Parcel(m)) /\ Len(outbox'[m]) <= KafkaLimit
  <2>1. KafkaLimit \in Nat /\ Len(outbox[m]) < KafkaLimit
    BY <1>8, ProducerAssumption DEF ClientFull
  <2>2. Append(outbox[m], e) \in Seq(Parcel(m)) /\ Len(Append(outbox[m], e)) = Len(outbox[m]) + 1
    BY <1>7, <1>8
  <2> QED BY <1>4, <1>8, <2>1, <2>2
<1>10. \A u \in Names(m) : Len(lists'[m][u]) <= ListLimit
  <2>1. lists[m][t] \in Seq(Carried(m, t)) /\ Len(lists[m][t]) <= ListLimit
    BY DEF Queues, Sorted
  <2>2. Len(Tail(lists[m][t])) = Len(lists[m][t]) - 1 /\ Len(lists[m][t]) \in Nat
    BY <2>1, TailElements
  <2>3. ListLimit \in Nat
    BY ProducerAssumption
  <2>4. Len(Tail(lists[m][t])) <= ListLimit
    BY <2>1, <2>2, <2>3
  <2> QED BY <1>1, <1>5, <2>4 DEF Becomes, Queues, Splits
<1>11. Queues(m)'
  BY <1>6, <1>9, <1>10 DEF Queues
<1>12. ASSUME NEW i \in Concerns(m)
       PROVE  InClient(m, i)' = InClient(m, i) + One(i, x)
  <2> DEFINE T == {p \in Parcel(m) : p.msg = i}
  <2>1. e \in T <=> i = x
    BY <1>7
  <2> HIDE DEF T
  <2>2. Hits(outbox'[m], T) = Hits(outbox[m], T) + (IF e \in T THEN 1 ELSE 0)
    BY <1>4, <1>7, <1>8, AppendHits
  <2>3. Hits(outbox'[m], T) = Hits(outbox[m], T) + One(i, x)
    BY <2>1, <2>2 DEF One
  <2> QED BY <2>3 DEF InClient, T
<1>13. ASSUME NEW i \in Concerns(m)
       PROVE  Balanced(InChan(m, i)', InList(m, i)', InClient(m, i)', InLog(m, i)',
                       IsLost(m, i)', repeated'[m][i], i <= sent'[m])
  <2>1. /\ InChan(m, i)' = InChan(m, i) /\ InLog(m, i)' = InLog(m, i)
        /\ IsLost(m, i)' = IsLost(m, i) /\ repeated'[m][i] = repeated[m][i]
        /\ InList(m, i)' = InList(m, i) - One(i, x)
    BY <1>6 DEF InChan, InLog, IsLost, InList
  <2>2. InClient(m, i)' = InClient(m, i) + One(i, x)
    BY <1>12
  <2>3. /\ InChan(m, i) \in Int /\ InList(m, i) \in Int /\ InClient(m, i) \in Int
        /\ InLog(m, i) \in Int /\ IsLost(m, i) \in Int /\ One(i, x) \in Int
    BY PlaceTypes DEF One
  <2>4. Balanced(InChan(m, i), InList(m, i), InClient(m, i), InLog(m, i), IsLost(m, i),
                 repeated[m][i], i <= sent[m])
    BY DEF Accounts
  <2>5. (InList(m, i) - One(i, x)) + (InClient(m, i) + One(i, x))
          = InList(m, i) + InClient(m, i)
    BY <2>3
  <2> QED BY <2>1, <2>2, <2>3, <2>4, <2>5 DEF Balanced
<1> QED BY <1>11, <1>13 DEF Accounts

LEMMA AbsorbMoves ==
  ASSUME Types, NEW m \in Managers, Queues(m), Accounts(m), Absorb(m),
         log'[m] = log[m], outbox'[m] = outbox[m], lost'[m] = lost[m],
         repeated'[m] = repeated[m], sent'[m] = sent[m]
  PROVE  Queues(m)' /\ Accounts(m)'
<1>1. CASE is_full(m) \/ chan[m] = <<>>
  <2>1. Still(m)
    BY <1>1 DEF Absorb, Still
  <2> QED BY <2>1, StillPlaced
<1>2. CASE ~is_full(m) /\ chan[m] # <<>>
  <2>1. PICK x : x = Head(chan[m])
    OBVIOUS
  <2>2. chan'[m] = Tail(chan[m]) /\ on_message(m, x)
    BY <1>2, <2>1 DEF Absorb, Types
  <2>3. chan[m] \in Seq(Messages) /\ Sorted(m, lists[m]) /\ Len(chan[m]) <= Capacity
    BY DEF Queues
  <2>4. /\ Tail(chan[m]) \in Seq(Messages) /\ x \in Messages
        /\ Len(Tail(chan[m])) = Len(chan[m]) - 1 /\ Len(chan[m]) \in Nat
    BY <1>2, <2>1, <2>3, TailElements
  <2>5. chan'[m] \in Seq(Messages) /\ Len(chan'[m]) <= Capacity
    <3>1. Capacity \in Nat
      BY ProducerAssumption
    <3> QED BY <2>2, <2>3, <2>4, <3>1
  <2>6. ASSUME NEW i \in Concerns(m) PROVE InChan(m, i)' = InChan(m, i) - One(i, x)
    <3>1. Hits(Tail(chan[m]), {i})
            = Hits(chan[m], {i}) - (IF Head(chan[m]) \in {i} THEN 1 ELSE 0)
      BY <1>2, <2>3, TailHits
    <3> QED BY <2>1, <2>2, <3>1 DEF InChan, One
  <2>7. /\ Sorted(m, lists'[m]) /\ \A u \in Names(m) : Len(lists'[m][u]) <= ListLimit
        /\ \A i \in Concerns(m) : InList(m, i)' = InList(m, i) + One(i, x)
    <3>1. CASE x \in Concerns(m)
      <4>1. PICK t : t = ListOf(m, Topic[x])
        OBVIOUS
      <4>2. t \in Names(m) /\ x \in Carried(m, t)
        BY <3>1, <4>1, ListNames
      <4>3. lists' = [lists EXCEPT ![m][t] = Append(@, x)]
        BY <2>2, <3>1, <4>1 DEF on_message, Concerns
      <4>4. lists'[m] = [lists[m] EXCEPT ![t] = Append(@, x)]
        BY <4>3 DEF Types, Domains
      <4>5. Becomes(m, lists[m], lists'[m], t, Append(lists[m][t], x))
        BY <2>3, <4>2, <4>4 DEF Becomes, Sorted
      <4>6. /\ Sorted(m, lists'[m])
            /\ \A i \in Concerns(m) : At(m, lists'[m], i) = At(m, lists[m], i) + One(i, x)
        BY <2>3, <4>2, <4>5, SortedGains
      <4>7. lists[m][t] \in Seq(Carried(m, t)) /\ Len(lists[m][t]) \in Nat /\ ListLimit \in Nat
        BY <2>3, <4>2, ProducerAssumption DEF Sorted
      <4>8. Len(lists[m][t]) < ListLimit
        <5>1. ~(Len(lists[m][t]) >= ListLimit)
          BY <1>2, <2>3, <4>2 DEF is_full, Sorted
        <5> QED BY <4>7, <5>1
      <4>9. Len(Append(lists[m][t], x)) <= ListLimit
        BY <4>2, <4>7, <4>8
      <4> QED BY <4>5, <4>6, <4>9 DEF Becomes, Queues, InList
    <3>2. CASE x \notin Concerns(m)
      <4>1. lists' = lists
        BY <2>2, <2>4, <3>2 DEF on_message, Concerns
      <4>2. \A i \in Concerns(m) : InList(m, i) \in Nat /\ One(i, x) = 0
        BY <3>2, PlaceTypes DEF One
      <4>3. \A i \in Concerns(m) : InList(m, i)' = InList(m, i)
        BY <4>1 DEF InList
      <4> QED BY <4>1, <4>2, <4>3 DEF Queues
    <3> QED BY <3>1, <3>2
  <2>8. Queues(m)'
    BY <2>5, <2>7 DEF Queues
  <2>9. ASSUME NEW i \in Concerns(m)
        PROVE  Balanced(InChan(m, i)', InList(m, i)', InClient(m, i)', InLog(m, i)',
                        IsLost(m, i)', repeated'[m][i], i <= sent'[m])
    <3>1. /\ InClient(m, i)' = InClient(m, i) /\ InLog(m, i)' = InLog(m, i)
          /\ IsLost(m, i)' = IsLost(m, i) /\ repeated'[m][i] = repeated[m][i]
      BY DEF InClient, InLog, IsLost
    <3>2. InChan(m, i)' = InChan(m, i) - One(i, x) /\ InList(m, i)' = InList(m, i) + One(i, x)
      BY <2>6, <2>7
    <3>3. /\ InChan(m, i) \in Int /\ InList(m, i) \in Int /\ InClient(m, i) \in Int
          /\ InLog(m, i) \in Int /\ IsLost(m, i) \in Int /\ One(i, x) \in Int
      BY PlaceTypes DEF One
    <3>4. Balanced(InChan(m, i), InList(m, i), InClient(m, i), InLog(m, i), IsLost(m, i),
                   repeated[m][i], i <= sent[m])
      BY DEF Accounts
    <3>5. (InChan(m, i) - One(i, x)) + (InList(m, i) + One(i, x)) = InChan(m, i) + InList(m, i)
      BY <3>3
    <3> QED BY <3>1, <3>2, <3>3, <3>4, <3>5 DEF Balanced
  <2> QED BY <2>8, <2>9 DEF Accounts
<1> QED BY <1>1, <1>2

LEMMA PushMoves ==
  ASSUME Types, NEW m \in Managers, Queues(m), Accounts(m), repeated[m] \in [Messages -> Nat],
         Len(chan[m]) < Capacity, sent[m] \in Nat, sent[m] < Len(Topic),
         chan'[m] = Append(chan[m], sent[m] + 1), sent'[m] = sent[m] + 1,
         lists'[m] = lists[m], log'[m] = log[m], outbox'[m] = outbox[m], lost'[m] = lost[m],
         repeated'[m] = repeated[m]
  PROVE  Queues(m)' /\ Accounts(m)'
<1>1. PICK x : x = sent[m] + 1
  OBVIOUS
<1>2. x \in Messages /\ x \in Nat
  BY <1>1, BegunFacts DEF Messages
<1>3. chan[m] \in Seq(Messages) /\ Len(chan[m]) \in Nat /\ Capacity \in Nat
  BY ProducerAssumption DEF Queues
<1>4. /\ Append(chan[m], x) \in Seq(Messages) /\ Len(Append(chan[m], x)) = Len(chan[m]) + 1
  BY <1>2, <1>3
<1>5. chan'[m] \in Seq(Messages) /\ Len(chan'[m]) <= Capacity
  BY <1>1, <1>3, <1>4
<1>6. Queues(m)'
  BY <1>5 DEF Queues
<1>7. ASSUME NEW i \in Concerns(m)
      PROVE  Balanced(InChan(m, i)', InList(m, i)', InClient(m, i)', InLog(m, i)',
                      IsLost(m, i)', repeated'[m][i], i <= sent'[m])
  <2>1. /\ InClient(m, i)' = InClient(m, i) /\ InLog(m, i)' = InLog(m, i)
        /\ IsLost(m, i)' = IsLost(m, i) /\ repeated'[m][i] = repeated[m][i]
        /\ InList(m, i)' = InList(m, i)
    BY DEF InClient, InLog, IsLost, InList
  <2>2. InChan(m, i)' = InChan(m, i) + One(i, x)
    <3>1. Hits(Append(chan[m], x), {i}) = Hits(chan[m], {i}) + (IF x \in {i} THEN 1 ELSE 0)
      BY <1>2, <1>3, AppendHits
    <3> QED BY <1>1, <3>1 DEF InChan, One
  <2>3. /\ InChan(m, i) \in Nat /\ InList(m, i) \in Nat /\ InClient(m, i) \in Nat
        /\ InLog(m, i) \in Nat /\ IsLost(m, i) \in {0, 1} /\ repeated[m][i] \in Nat
        /\ i \in Nat
    BY PlaceTypes, ListNames
  <2>4. Balanced(InChan(m, i), InList(m, i), InClient(m, i), InLog(m, i), IsLost(m, i),
                 repeated[m][i], i <= sent[m])
    BY DEF Accounts
  <2>5. CASE i = x
    <3>1. ~(i <= sent[m]) /\ i <= sent'[m] /\ One(i, x) = 1
      BY <1>1, <2>3, <2>5 DEF One
    <3>2. /\ InChan(m, i) = 0 /\ InList(m, i) = 0 /\ InClient(m, i) = 0
          /\ InLog(m, i) = 0 /\ IsLost(m, i) = 0 /\ repeated[m][i] = 0
      <4>1. /\ InLog(m, i) >= repeated[m][i] /\ repeated[m][i] = 0
            /\ InChan(m, i) + InList(m, i) + InClient(m, i) + (InLog(m, i) - repeated[m][i])
                 + IsLost(m, i) = 0
        BY <2>4, <3>1 DEF Balanced
      <4> QED BY <2>3, <4>1
    <3>3. InChan(m, i)' = 1
      BY <2>2, <3>1, <3>2
    <3> QED BY <2>1, <3>1, <3>2, <3>3 DEF Balanced
  <2>6. CASE i # x
    <3>1. (i <= sent[m] <=> i <= sent'[m]) /\ One(i, x) = 0
      BY <1>1, <2>3, <2>6 DEF One
    <3>2. InChan(m, i)' = InChan(m, i)
      BY <2>2, <2>3, <3>1
    <3>3. CASE i <= sent[m]
      BY <2>1, <2>4, <3>1, <3>2, <3>3 DEF Balanced
    <3>4. CASE ~(i <= sent[m])
      BY <2>1, <2>4, <3>1, <3>2, <3>4 DEF Balanced
    <3> QED BY <3>3, <3>4
  <2> QED BY <2>5, <2>6
<1> QED BY <1>6, <1>7 DEF Accounts

LEMMA ClientHolds ==
  ASSUME NEW m, Queues(m), NEW k \in DOMAIN outbox[m]
  PROVE  /\ outbox[m][k].topic \in Names(m)
         /\ outbox[m][k].msg \in Carried(m, outbox[m][k].topic)
         /\ outbox[m][k].msg \in Concerns(m) /\ outbox[m][k].msg \in Messages
         /\ InClient(m, outbox[m][k].msg) >= 1
<1>1. outbox[m] \in Seq(Parcel(m)) /\ outbox[m][k] \in Parcel(m)
  <2>1. outbox[m] \in Seq(Parcel(m))
    BY DEF Queues
  <2> QED BY <2>1
<1>2. /\ outbox[m][k].topic \in Names(m)
      /\ outbox[m][k].msg \in Carried(m, outbox[m][k].topic)
  BY <1>1 DEF Parcel
<1>3. outbox[m][k].msg \in Concerns(m) /\ outbox[m][k].msg \in Messages
  BY <1>2, ListNames
<1>4. InClient(m, outbox[m][k].msg) >= 1
  <2> DEFINE T == {e \in Parcel(m) : e.msg = outbox[m][k].msg}
  <2>1. outbox[m][k] \in T
    BY <1>1
  <2> HIDE DEF T
  <2>2. Hits(outbox[m], T) \in Nat /\ Hits(outbox[m], T) # 0
    BY <1>1, <2>1, HitsType
  <2> QED BY <2>2 DEF InClient, T
<1> QED BY <1>2, <1>3, <1>4

LEMMA ClientLoses ==
  ASSUME NEW m, Queues(m), NEW k \in DOMAIN outbox[m], outbox'[m] = RemoveAt(outbox[m], k)
  PROVE  /\ outbox'[m] \in Seq(Parcel(m)) /\ Len(outbox'[m]) <= KafkaLimit
         /\ \A i \in Concerns(m) :
              InClient(m, i)' = InClient(m, i) - One(i, outbox[m][k].msg)
<1>1. /\ outbox[m] \in Seq(Parcel(m)) /\ outbox[m][k] \in Parcel(m)
      /\ Len(outbox[m]) <= KafkaLimit /\ Len(outbox[m]) \in Nat
      /\ KafkaLimit \in Nat
  <2>1. outbox[m] \in Seq(Parcel(m)) /\ Len(outbox[m]) <= KafkaLimit
    BY DEF Queues
  <2> QED BY <2>1, ProducerAssumption
<1>2. outbox'[m] \in Seq(Parcel(m)) /\ DOMAIN outbox'[m] = 1..Len(outbox[m]) - 1
  BY <1>1, RemovedIndexes
<1>3. Len(outbox'[m]) <= KafkaLimit
  <2>1. Len(outbox'[m]) \in Nat /\ DOMAIN outbox'[m] = 1..Len(outbox'[m])
    BY <1>2
  <2>2. Len(outbox[m]) \in 1..Len(outbox[m])
    BY <1>1
  <2> QED BY <1>1, <1>2, <2>1, <2>2
<1>4. ASSUME NEW i \in Concerns(m)
      PROVE  InClient(m, i)' = InClient(m, i) - One(i, outbox[m][k].msg)
  <2> DEFINE T == {e \in Parcel(m) : e.msg = i}
  <2>1. outbox[m][k] \in T <=> i = outbox[m][k].msg
    BY <1>1
  <2> HIDE DEF T
  <2>2. Hits(outbox'[m], T) = Hits(outbox[m], T) - (IF outbox[m][k] \in T THEN 1 ELSE 0)
    BY <1>1, RemoveHits
  <2>3. Hits(outbox'[m], T) = Hits(outbox[m], T) - One(i, outbox[m][k].msg)
    BY <2>1, <2>2 DEF One
  <2> QED BY <2>3 DEF InClient, T
<1> QED BY <1>2, <1>3, <1>4

LEMMA WrittenMoves ==
  ASSUME Types, NEW m \in Managers, Queues(m), NEW k \in DOMAIN outbox[m], Written(m, k)
  PROVE  /\ Sorted(m, log'[m])
         /\ \A i \in Concerns(m) : InLog(m, i)' = InLog(m, i) + One(i, outbox[m][k].msg)
<1>1. PICK x, t : x = outbox[m][k].msg /\ t = outbox[m][k].topic
  OBVIOUS
<1>2. t \in Names(m) /\ x \in Carried(m, t)
  BY <1>1, ClientHolds
<1>3. Sorted(m, log[m])
  BY DEF Queues
<1>4. log'[m] = [log[m] EXCEPT ![t] = Append(@, x)]
  BY <1>1 DEF Written, Types, Domains
<1>5. Becomes(m, log[m], log'[m], t, Append(log[m][t], x))
  BY <1>2, <1>3, <1>4 DEF Becomes, Sorted
<1>6. /\ Sorted(m, log'[m])
      /\ \A i \in Concerns(m) : At(m, log'[m], i) = At(m, log[m], i) + One(i, x)
  BY <1>2, <1>3, <1>5, SortedGains
<1> QED BY <1>1, <1>6 DEF InLog

LEMMA KafkaMoves ==
  ASSUME Types, NEW m \in Managers, Queues(m), Accounts(m), repeated[m] \in [Messages -> Nat],
         DOMAIN repeated = Managers, Kafka(m)
  PROVE  Queues(m)' /\ Accounts(m)'
<1>1. PICK k \in InFlight(m) : Deliver(m, k) \/ DeliverError(m, k) \/ DeliverTwice(m, k)
  BY DEF Kafka
<1>2. k \in DOMAIN outbox[m]
  BY <1>1 DEF InFlight
<1>3. PICK x : x = outbox[m][k].msg
  OBVIOUS
<1>4. x \in Concerns(m) /\ x \in Messages /\ InClient(m, x) >= 1
  BY <1>2, <1>3, ClientHolds
<1>5. UNCHANGED <<chan, lists, sent>>
  BY <1>1 DEF Deliver, DeliverError, DeliverTwice, engineVars, threadVars
<1>6. ASSUME NEW i \in Concerns(m)
      PROVE  /\ InChan(m, i) \in Nat /\ InList(m, i) \in Nat /\ InClient(m, i) \in Nat
             /\ InLog(m, i) \in Nat /\ IsLost(m, i) \in {0, 1} /\ repeated[m][i] \in Nat
             /\ InChan(m, i)' = InChan(m, i) /\ InList(m, i)' = InList(m, i)
             /\ Balanced(InChan(m, i), InList(m, i), InClient(m, i), InLog(m, i), IsLost(m, i),
                         repeated[m][i], i <= sent[m])
  <2>1. InChan(m, i)' = InChan(m, i) /\ InList(m, i)' = InList(m, i)
    BY <1>5 DEF InChan, InList
  <2> QED BY <2>1, PlaceTypes, ListNames DEF Accounts
<1>7. One(x, x) = 1 /\ \A i : i # x => One(i, x) = 0
  BY DEF One
<1>8. CASE Deliver(m, k)
  <2>1. outbox'[m] = RemoveAt(outbox[m], k) /\ Written(m, k) /\ UNCHANGED <<lost, repeated>>
    BY <1>8 DEF Deliver, Reported, Types, Domains
  <2>2. /\ outbox'[m] \in Seq(Parcel(m)) /\ Len(outbox'[m]) <= KafkaLimit
        /\ \A i \in Concerns(m) : InClient(m, i)' = InClient(m, i) - One(i, x)
    BY <1>2, <1>3, <2>1, ClientLoses
  <2>3. /\ Sorted(m, log'[m])
        /\ \A i \in Concerns(m) : InLog(m, i)' = InLog(m, i) + One(i, x)
    BY <1>2, <1>3, <2>1, WrittenMoves
  <2>4. Queues(m)'
    BY <1>5, <2>2, <2>3 DEF Queues
  <2>5. ASSUME NEW i \in Concerns(m)
        PROVE  Balanced(InChan(m, i)', InList(m, i)', InClient(m, i)', InLog(m, i)',
                        IsLost(m, i)', repeated'[m][i], i <= sent'[m])
    <3>1. One(i, x) \in {0, 1}
      BY DEF One
    <3>2. IsLost(m, i)' = IsLost(m, i) /\ repeated'[m][i] = repeated[m][i]
      BY <2>1 DEF IsLost
    <3>3. InClient(m, i)' = InClient(m, i) - One(i, x) /\ InLog(m, i)' = InLog(m, i) + One(i, x)
      BY <2>2, <2>3
    <3> QED BY <1>5, <1>6, <3>1, <3>2, <3>3 DEF Balanced
  <2> QED BY <2>4, <2>5 DEF Accounts
<1>9. CASE DeliverError(m, k)
  <2>1. /\ outbox'[m] = RemoveAt(outbox[m], k) /\ UNCHANGED <<log, repeated>>
        /\ lost'[m] = lost[m] \cup {x}
    BY <1>3, <1>9 DEF DeliverError, Reported, Types, Domains
  <2>2. /\ outbox'[m] \in Seq(Parcel(m)) /\ Len(outbox'[m]) <= KafkaLimit
        /\ \A i \in Concerns(m) : InClient(m, i)' = InClient(m, i) - One(i, x)
    BY <1>2, <1>3, <2>1, ClientLoses
  <2>3. Queues(m)'
    BY <1>5, <2>1, <2>2 DEF Queues
  <2>4. ASSUME NEW i \in Concerns(m)
        PROVE  Balanced(InChan(m, i)', InList(m, i)', InClient(m, i)', InLog(m, i)',
                        IsLost(m, i)', repeated'[m][i], i <= sent'[m])
    <3>1. InLog(m, i)' = InLog(m, i) /\ repeated'[m][i] = repeated[m][i]
      BY <2>1 DEF InLog
    <3>2. InClient(m, i)' = InClient(m, i) - One(i, x)
      BY <2>2
    <3>3. CASE i = x
      <4>1. IsLost(m, i)' = 1
        BY <2>1, <3>3 DEF IsLost
      <4>2. IsLost(m, i) = 0
        <5>1. InClient(m, i) >= 1
          BY <1>4, <3>3
        <5> QED BY <1>6, <5>1 DEF Balanced
      <4>3. InClient(m, i)' = InClient(m, i) - 1
        BY <1>7, <3>2, <3>3
      <4> QED BY <1>5, <1>6, <3>1, <4>1, <4>2, <4>3 DEF Balanced
    <3>4. CASE i # x
      <4>1. IsLost(m, i)' = IsLost(m, i)
        BY <2>1, <3>4 DEF IsLost
      <4>2. InClient(m, i)' = InClient(m, i)
        BY <1>6, <1>7, <3>2, <3>4
      <4> QED BY <1>5, <1>6, <3>1, <4>1, <4>2 DEF Balanced
    <3> QED BY <3>3, <3>4
  <2> QED BY <2>3, <2>4 DEF Accounts
<1>10. CASE DeliverTwice(m, k)
  <2>1. Written(m, k) /\ UNCHANGED <<lost, outbox>>
    BY <1>10 DEF DeliverTwice
  <2>2. /\ Sorted(m, log'[m])
        /\ \A i \in Concerns(m) : InLog(m, i)' = InLog(m, i) + One(i, x)
    BY <1>2, <1>3, <2>1, WrittenMoves
  <2>3. Queues(m)'
    BY <1>5, <2>1, <2>2 DEF Queues
  <2>4. repeated'[m] = [repeated[m] EXCEPT ![x] = @ + 1]
    BY <1>3, <1>10 DEF DeliverTwice
  <2>5. ASSUME NEW i \in Concerns(m)
        PROVE  Balanced(InChan(m, i)', InList(m, i)', InClient(m, i)', InLog(m, i)',
                        IsLost(m, i)', repeated'[m][i], i <= sent'[m])
    <3>1. IsLost(m, i)' = IsLost(m, i) /\ InClient(m, i)' = InClient(m, i)
      BY <2>1 DEF IsLost, InClient
    <3>2. InLog(m, i)' = InLog(m, i) + One(i, x)
      BY <2>2
    <3>3. CASE i = x
      <4>1. repeated'[m][i] = repeated[m][i] + 1
        BY <1>4, <2>4, <3>3
      <4>2. InLog(m, i)' = InLog(m, i) + 1
        BY <1>7, <3>2, <3>3
      <4>3. i <= sent[m]
        <5>1. InClient(m, i) >= 1
          BY <1>4, <3>3
        <5> QED BY <1>6, <5>1 DEF Balanced
      <4> QED BY <1>5, <1>6, <3>1, <4>1, <4>2, <4>3 DEF Balanced
    <3>4. CASE i # x
      <4>1. repeated'[m][i] = repeated[m][i]
        BY <2>4, <3>4, ListNames
      <4>2. InLog(m, i)' = InLog(m, i)
        BY <1>6, <1>7, <3>2, <3>4
      <4> QED BY <1>5, <1>6, <3>1, <4>1, <4>2 DEF Balanced
    <3> QED BY <3>3, <3>4
  <2> QED BY <2>3, <2>5 DEF Accounts
<1> QED BY <1>1, <1>8, <1>9, <1>10

(***************************************************************************)
(* Every step keeps the places.                                            *)
(***************************************************************************)
LEMMA NextBegin ==
  ASSUME Places, [Next]_vars
  PROVE  Begin' /\ errors' >= errors /\ target' >= target
<1>1. /\ DOMAIN repeated = Managers /\ DOMAIN queue_full = Managers
      /\ op \in 0..Len(Operations) /\ target = Begun[op]
      /\ errors \in 0..MaxErrors /\ MaxErrors \in Nat /\ Len(Operations) \in Nat
      /\ errors \in Int
  BY ProducerAssumption DEF Places, Begin
<1>2. target \in Nat /\ target >= target
  BY <1>1, BegunFacts DEF Begins
<1>3. CASE Operation
  <2>1. op + 1 \in 1..Len(Operations) /\ (op + 1) - 1 = op
    BY <1>1, <1>3 DEF Operation
  <2>2. /\ op' = op + 1 /\ target' = target + Len(Operations[op + 1])
        /\ UNCHANGED <<repeated, queue_full, errors>>
    BY <1>3 DEF Operation, threadVars, kafkaVars
  <2>3. Begun[op + 1] = Begun[op] + Len(Operations[op + 1])
    BY <2>1, BegunFacts DEF Begins
  <2>4. Len(Operations[op + 1]) \in Nat
    BY <2>1, ProducerAssumption
  <2>5. target' = Begun[op'] /\ target' >= target
    BY <1>1, <1>2, <2>2, <2>3, <2>4
  <2>6. op' \in 0..Len(Operations) /\ errors' >= errors
    BY <1>1, <2>1, <2>2
  <2> QED BY <1>1, <2>2, <2>5, <2>6 DEF Begin
<1>4. CASE ~Operation
  <2>1. UNCHANGED <<op, target>> /\ DOMAIN queue_full' = Managers
    <3> USE <1>1, <1>4 DEF engineVars, threadVars
    <3>1. CASE UNCHANGED vars
      BY <3>1 DEF vars
    <3>2. CASE Close \/ ProcessExit \/ \E m \in Managers : Push(m)
      BY <3>2 DEF Close, ProcessExit, Push
    <3>3. CASE \E m \in Managers : Absorb(m) \/ SendNothing(m) \/ SendOne(m) \/ SendError(m)
      BY <3>3 DEF Absorb, SendNothing, SendOne, SendError
    <3>4. CASE \E m \in Managers : Poll(m) \/ FlushOne(m) \/ FlushError(m) \/ FlushEnd(m)
      BY <3>4 DEF Poll, FlushOne, FlushError, FlushEnd
    <3>5. CASE \E m \in Managers : Kafka(m)
      BY <3>5 DEF Kafka, Deliver, DeliverError, DeliverTwice
    <3> QED BY <3>1, <3>2, <3>3, <3>4, <3>5 DEF Next, Kafka
  <2>2. /\ DOMAIN repeated' = Managers
        /\ errors' = errors \/ (errors < MaxErrors /\ errors' = errors + 1)
    <3> USE <1>1, <1>4 DEF kafkaVars
    <3>1. CASE UNCHANGED vars
      BY <3>1 DEF vars
    <3>2. CASE Close \/ ProcessExit \/ \E m \in Managers : Push(m)
      BY <3>2 DEF Close, ProcessExit, Push
    <3>3. CASE \E m \in Managers : Absorb(m) \/ SendNothing(m) \/ SendOne(m) \/ SendError(m)
      BY <3>3 DEF Absorb, SendNothing, SendOne, SendError
    <3>4. CASE \E m \in Managers : Poll(m) \/ FlushOne(m) \/ FlushError(m) \/ FlushEnd(m)
      BY <3>4 DEF Poll, FlushOne, FlushError, FlushEnd
    <3>5. CASE \E m \in Managers : Kafka(m)
      BY <3>5 DEF Kafka, Deliver, DeliverError, DeliverTwice
    <3> QED BY <3>1, <3>2, <3>3, <3>4, <3>5 DEF Next, Kafka
  <2>3. errors' \in 0..MaxErrors /\ errors' >= errors
    BY <1>1, <2>2
  <2> QED BY <1>1, <1>2, <2>1, <2>2, <2>3 DEF Begin
<1> QED BY <1>3, <1>4

LEMMA CountersKept ==
  ASSUME NEW n, Counters(n), errors \in Nat, errors' \in Nat, errors' >= errors,
         target \in Nat, target' \in Nat, target' >= target,
         deliver_cnt'[n] = deliver_cnt[n], commited_cnt'[n] = commited_cnt[n],
         reports'[n] = reports[n], queue_full'[n] = queue_full[n],
         lost'[n] = lost[n], repeated'[n] = repeated[n], sent'[n] = sent[n]
  PROVE  Counters(n)'
<1>1. 0..errors \subseteq 0..errors' /\ 0..target \subseteq 0..target'
  OBVIOUS
<1>2. repeated'[n] \in [Messages -> 0..errors']
  BY <1>1 DEF Counters
<1>3. sent'[n] \in 0..target'
  BY <1>1 DEF Counters
<1> QED BY <1>2, <1>3 DEF Counters

LEMMA ThreadCounters ==
  ASSUME Types, Begin, NEW m \in Managers, Queues(m), Counters(m), Thread(m),
         errors' \in Nat, errors' >= errors, UNCHANGED target, target \in Nat
  PROVE  Counters(m)'
<1>1. /\ deliver_cnt[m] \in Nat /\ commited_cnt[m] \in Nat /\ reports[m] \in Seq(Nat)
      /\ queue_full[m] \in BOOLEAN /\ Len(reports[m]) \in Nat
  BY DEF Counters
<1>2. DOMAIN queue_full = Managers /\ errors \in Nat /\ <<>> \in Seq(Nat)
  BY ProducerAssumption DEF Begin
<1>3. UNCHANGED <<lost, repeated, sent>>
  <2>1. UNCHANGED <<lost, sent>>
    BY ThreadFrame DEF engineVars
  <2>2. UNCHANGED repeated
    BY DEF Thread, Absorb, SendNothing, SendOne, SendError, Poll, FlushOne, FlushError, FlushEnd,
           kafkaVars
  <2> QED BY <2>1, <2>2
<1>4. /\ lost'[m] \subseteq Messages /\ sent'[m] \in 0..target'
      /\ repeated'[m] \in [Messages -> 0..errors']
  <2>1. 0..errors \subseteq 0..errors'
    BY <1>2
  <2> QED BY <1>3, <2>1 DEF Counters
<1>5. ASSUME NEW t, Sent(m, t) PROVE deliver_cnt'[m] \in Nat
  BY <1>1, <1>5 DEF Sent, Types, Domains
<1>6. CASE Absorb(m) \/ SendNothing(m) \/ SendError(m) \/ FlushError(m) \/ FlushEnd(m)
  <2>1. UNCHANGED <<deliver_cnt, commited_cnt, reports, queue_full>>
    BY <1>6 DEF Absorb, SendNothing, SendError, FlushError, FlushEnd, kafkaVars
  <2> QED BY <1>1, <1>4, <2>1 DEF Counters
<1>7. CASE SendOne(m)
  <2>1. UNCHANGED <<commited_cnt, reports>>
    BY <1>7 DEF SendOne
  <2>2. deliver_cnt'[m] \in Nat
    BY <1>1, <1>5, <1>7 DEF SendOne
  <2>3. queue_full'[m] \in BOOLEAN
    BY <1>1, <1>2, <1>7 DEF SendOne
  <2> QED BY <1>1, <1>4, <2>1, <2>2, <2>3 DEF Counters
<1>8. CASE Poll(m)
  <2>1. UNCHANGED deliver_cnt /\ reports'[m] = <<>>
    BY <1>8 DEF Poll, Types, Domains
  <2>2. commited_cnt'[m] \in Nat
    BY <1>1, <1>8 DEF Poll, Types, Domains
  <2>3. queue_full'[m] \in BOOLEAN
    <3>1. queue_full'[m] = (queue_full[m] /\ reports[m] = <<>>)
      BY <1>2, <1>8 DEF Poll
    <3> QED BY <3>1
  <2> QED BY <1>1, <1>2, <1>4, <2>1, <2>2, <2>3 DEF Counters
<1>9. CASE FlushOne(m)
  <2>1. UNCHANGED <<commited_cnt, queue_full>>
    BY <1>9 DEF FlushOne
  <2>2. deliver_cnt'[m] \in Nat
    BY <1>1, <1>5, <1>9 DEF FlushOne
  <2>3. reports'[m] \in Seq(Nat)
    BY <1>1, <1>2, <1>9 DEF FlushOne, Types, Domains
  <2> QED BY <1>1, <1>4, <2>1, <2>2, <2>3 DEF Counters
<1> QED BY <1>6, <1>7, <1>8, <1>9 DEF Thread

LEMMA KafkaCounters ==
  ASSUME Types, Begin, NEW m \in Managers, Queues(m), Counters(m), Kafka(m),
         errors' \in Nat, errors' >= errors, UNCHANGED target, target \in Nat
  PROVE  Counters(m)'
<1>1. PICK k \in InFlight(m) : Deliver(m, k) \/ DeliverError(m, k) \/ DeliverTwice(m, k)
  BY DEF Kafka
<1>2. k \in DOMAIN outbox[m]
  BY <1>1 DEF InFlight
<1>3. PICK x : x = outbox[m][k].msg
  OBVIOUS
<1>4. x \in Messages /\ outbox[m][k].opaque \in Nat
  <2>1. outbox[m] \in Seq(Parcel(m))
    BY DEF Queues
  <2>2. outbox[m][k] \in Parcel(m)
    BY <1>2, <2>1
  <2> QED BY <1>3, <2>2 DEF Parcel
<1>5. errors \in Nat /\ 0..errors \subseteq 0..errors' /\ DOMAIN repeated = Managers
  BY ProducerAssumption DEF Begin
<1>6. UNCHANGED <<deliver_cnt, commited_cnt, queue_full, sent>>
  BY <1>1 DEF Deliver, DeliverError, DeliverTwice, engineVars, threadVars
<1>7. reports'[m] \in Seq(Nat)
  <2>1. reports[m] \in Seq(Nat)
    BY DEF Counters
  <2>2. Append(reports[m], outbox[m][k].opaque) \in Seq(Nat)
    BY <1>4, <2>1
  <2>3. reports'[m] \in {reports[m], Append(reports[m], outbox[m][k].opaque)}
    BY <1>1 DEF Deliver, DeliverError, DeliverTwice, Reported, Types, Domains
  <2> QED BY <2>1, <2>2, <2>3
<1>8. lost'[m] \subseteq Messages
  <2>1. lost'[m] \in {lost[m], lost[m] \cup {x}}
    BY <1>1, <1>3 DEF Deliver, DeliverError, DeliverTwice, Types, Domains
  <2> QED BY <1>4, <2>1 DEF Counters
<1>9. repeated'[m] \in [Messages -> 0..errors']
  <2>1. repeated[m] \in [Messages -> 0..errors]
    BY DEF Counters
  <2>2. CASE UNCHANGED repeated
    BY <1>5, <2>1, <2>2
  <2>3. CASE DeliverTwice(m, k)
    <3>1. repeated'[m] = [repeated[m] EXCEPT ![x] = @ + 1] /\ errors' = errors + 1
      BY <1>3, <1>5, <2>3 DEF DeliverTwice
    <3>2. repeated[m][x] + 1 \in 0..errors'
      BY <1>4, <1>5, <2>1, <3>1
    <3> QED BY <1>5, <2>1, <3>1, <3>2
  <2> QED BY <1>1, <2>2, <2>3 DEF Deliver, DeliverError
<1> QED BY <1>6, <1>7, <1>8, <1>9 DEF Counters

LEMMA ThreadMoves ==
  ASSUME Types, NEW m \in Managers, Queues(m), Accounts(m), Counters(m), Thread(m)
  PROVE  Queues(m)' /\ Accounts(m)'
<1>1. UNCHANGED <<log, lost, sent>>
  BY ThreadFrame DEF engineVars
<1>2. UNCHANGED repeated
  BY DEF Thread, Absorb, SendNothing, SendOne, SendError, Poll, FlushOne, FlushError, FlushEnd,
         kafkaVars
<1>3. deliver_cnt[m] \in Nat
  BY DEF Counters
<1>4. PICK t : t = Longest(m)
  OBVIOUS
<1>5. t \in Names(m) /\ (~Empty(m) => lists[m][t] # <<>>)
  BY <1>4, LongestList
<1>6. CASE Absorb(m)
  <2>1. UNCHANGED outbox
    BY <1>6 DEF Absorb, kafkaVars
  <2> QED BY <1>1, <1>2, <1>6, <2>1, AbsorbMoves
<1>7. CASE SendNothing(m) \/ Poll(m) \/ FlushError(m) \/ FlushEnd(m)
  <2>1. UNCHANGED <<chan, lists, outbox>>
    BY <1>7 DEF SendNothing, Poll, FlushError, FlushEnd, kafkaVars
  <2>2. Still(m)
    BY <1>1, <1>2, <2>1 DEF Still
  <2> QED BY <2>2, StillPlaced
<1>8. ASSUME ~Empty(m), Failed(m, t), UNCHANGED <<chan, outbox>>
      PROVE  Queues(m)' /\ Accounts(m)'
  BY <1>1, <1>2, <1>5, <1>8, FailedMoves
<1>9. ASSUME ~Empty(m), Sent(m, t), ~ClientFull(m), UNCHANGED chan
      PROVE  Queues(m)' /\ Accounts(m)'
  BY <1>1, <1>2, <1>3, <1>5, <1>9, SentMoves
<1>10. CASE SendOne(m) \/ SendError(m) \/ FlushOne(m)
  <2>1. ~Empty(m) /\ UNCHANGED chan
    BY <1>10 DEF SendOne, SendError, FlushOne
  <2>2. (Failed(m, t) /\ UNCHANGED outbox) \/ (Sent(m, t) /\ ~ClientFull(m))
    BY <1>4, <1>10 DEF SendOne, SendError, FlushOne, kafkaVars
  <2> QED BY <1>8, <1>9, <2>1, <2>2
<1> QED BY <1>6, <1>7, <1>10 DEF Thread

LEMMA NextPlaces == Types /\ Places /\ [Next]_vars => Places'
<1> SUFFICES ASSUME Types, Places, [Next]_vars PROVE Places'
  OBVIOUS
<1>1. Begin /\ Begin' /\ errors' >= errors /\ target' >= target
  BY NextBegin DEF Places
<1>2. /\ errors \in Nat /\ errors' \in Nat /\ target \in Nat /\ target' \in Nat
      /\ target <= Len(Topic) /\ Len(Topic) \in Nat
  BY <1>1, BegunFacts, ProducerAssumption DEF Begin, Begins
<1>3. DOMAIN repeated = Managers /\ DOMAIN queue_full = Managers
  BY <1>1 DEF Begin
<1> SUFFICES ASSUME NEW n \in Managers PROVE Placed(n)'
  BY <1>1 DEF Places
<1>4. Queues(n) /\ Counters(n) /\ Accounts(n)
  BY DEF Places, Placed
<1>5. ASSUME Kept(n), repeated'[n] = repeated[n], queue_full'[n] = queue_full[n]
      PROVE  Placed(n)'
  <2>1. Still(n)
    BY <1>5 DEF Kept, Still
  <2>2. Counters(n)'
    BY <1>1, <1>2, <1>4, <1>5, CountersKept DEF Kept
  <2> QED BY <1>4, <2>1, <2>2, StillPlaced DEF Placed
<1>6. CASE Operation \/ Close \/ ProcessExit \/ UNCHANGED vars
  <2>1. Still(n)
    BY <1>6 DEF Operation, Close, ProcessExit, vars, engineVars, threadVars, kafkaVars, Still
  <2>2. UNCHANGED <<deliver_cnt, commited_cnt, reports, queue_full>>
    BY <1>6 DEF Operation, Close, ProcessExit, vars, threadVars, kafkaVars
  <2>3. Counters(n)'
    BY <1>1, <1>2, <1>4, <2>1, <2>2, CountersKept DEF Still
  <2> QED BY <1>4, <2>1, <2>3, StillPlaced DEF Placed
<1>7. CASE \E m \in Managers : Push(m)
  <2>1. PICK m \in Managers : Push(m)
    BY <1>7
  <2>2. /\ UNCHANGED <<target, errors, lists, log, outbox, lost, repeated>>
        /\ UNCHANGED <<deliver_cnt, commited_cnt, reports, queue_full>>
    BY <2>1 DEF Push, threadVars, kafkaVars
  <2>3. CASE sent'[n] = sent[n] /\ chan'[n] = chan[n]
    <3>1. Still(n)
      BY <2>2, <2>3 DEF Still
    <3>2. Counters(n)'
      BY <1>4, <2>2, <2>3 DEF Counters
    <3> QED BY <1>4, <3>1, <3>2, StillPlaced DEF Placed
  <2>4. CASE n = m /\ ~(sent'[n] = sent[n] /\ chan'[n] = chan[n])
    <3>1. sent[n] < target /\ Len(chan[n]) < Capacity
      BY <2>1, <2>4 DEF Push, Turn
    <3>2. sent'[n] = sent[n] + 1 /\ chan'[n] = Append(chan[n], sent[n] + 1)
      BY <2>1, <2>4, PushFacts
    <3>3. sent[n] \in Nat /\ sent[n] < Len(Topic)
      BY <1>2, <1>4, <3>1 DEF Counters
    <3>4. repeated[n] \in [Messages -> Nat]
      BY <1>2, <1>4 DEF Counters
    <3>5. Queues(n)' /\ Accounts(n)'
      BY <1>4, <2>2, <3>1, <3>2, <3>3, <3>4, PushMoves
    <3>6. sent'[n] \in 0..target'
      BY <1>2, <2>2, <3>1, <3>2, <3>3
    <3>7. Counters(n)'
      BY <1>4, <2>2, <3>6 DEF Counters
    <3> QED BY <3>5, <3>7 DEF Placed
  <2>5. n # m => sent'[n] = sent[n] /\ chan'[n] = chan[n]
    BY <2>1, PushFacts
  <2> QED BY <2>3, <2>4, <2>5
<1>8. CASE \E m \in Managers : Thread(m)
  <2>1. PICK m \in Managers : Thread(m)
    BY <1>8
  <2>2. CASE n = m
    <3>1. UNCHANGED target
      BY <2>1, ThreadFrame DEF engineVars
    <3>2. Counters(n)'
      BY <1>1, <1>2, <1>4, <2>1, <2>2, <3>1, ThreadCounters
    <3> QED BY <1>4, <2>1, <2>2, <3>2, ThreadMoves DEF Placed
  <2>3. CASE n # m
    <3>1. Kept(n)
      BY <2>1, <2>3, ThreadFrame
    <3>2. repeated'[n] = repeated[n]
      BY <2>1 DEF Thread, Absorb, SendNothing, SendOne, SendError, Poll, FlushOne, FlushError,
                  FlushEnd, kafkaVars
    <3>3. queue_full'[n] = queue_full[n]
      BY <1>3, <2>1, <2>3 DEF Thread, Absorb, SendNothing, SendOne, SendError, Poll, FlushOne,
                              FlushError, FlushEnd
    <3> QED BY <1>5, <3>1, <3>2, <3>3
  <2> QED BY <2>2, <2>3
<1>9. CASE \E m \in Managers : Kafka(m)
  <2>1. PICK m \in Managers : Kafka(m)
    BY <1>9
  <2>2. UNCHANGED <<target, queue_full>>
    BY <2>1, KafkaFrame DEF engineVars, threadVars
  <2>3. CASE n = m
    <3>1. repeated[n] \in [Messages -> Nat]
      BY <1>2, <1>4 DEF Counters
    <3>2. Counters(n)'
      BY <1>1, <1>2, <1>4, <2>1, <2>2, <2>3, KafkaCounters
    <3>3. Queues(n)' /\ Accounts(n)'
      BY <1>3, <1>4, <2>1, <2>3, <3>1, KafkaMoves
    <3> QED BY <3>2, <3>3 DEF Placed
  <2>4. CASE n # m
    <3>1. Kept(n)
      BY <2>1, <2>4, KafkaFrame
    <3>2. repeated'[n] = repeated[n]
      BY <1>3, <2>1, <2>4 DEF Kafka, Deliver, DeliverError, DeliverTwice
    <3> QED BY <1>5, <2>2, <3>1, <3>2
  <2> QED BY <2>3, <2>4
<1> QED BY <1>6, <1>7, <1>8, <1>9 DEF Next, Thread, Kafka

LEMMA InitPlaces == Init => Places
<1> SUFFICES ASSUME Init PROVE Places
  OBVIOUS
<1>1. Begun[0] = 0 /\ 0 \in 0..Len(Operations) /\ 0 \in 0..MaxErrors /\ Len(Topic) \in Nat
  <2>1. Len(Operations) \in Nat /\ MaxErrors \in Nat
    BY ProducerAssumption
  <2> QED BY <2>1, BegunFacts DEF Begins
<1>2. Begin
  BY <1>1 DEF Init, Begin
<1> SUFFICES ASSUME NEW m \in Managers PROVE Placed(m)
  BY <1>2 DEF Places
<1>3. /\ chan[m] = <<>> /\ outbox[m] = <<>> /\ reports[m] = <<>> /\ lost[m] = {} /\ sent[m] = 0
      /\ lists[m] = [t \in Names(m) |-> <<>>] /\ log[m] = [t \in Names(m) |-> <<>>]
      /\ deliver_cnt[m] = 0 /\ commited_cnt[m] = 0 /\ queue_full[m] = FALSE
      /\ repeated[m] = [i \in Messages |-> 0] /\ errors = 0 /\ target = 0
  BY DEF Init, Names
<1>4. \A S : <<>> \in Seq(S) /\ Len(<<>>) = 0
  OBVIOUS
<1>5. Queues(m)
  BY <1>3, <1>4, ProducerAssumption DEF Queues, Sorted
<1>6. Counters(m)
  <2>1. 0 \in 0..errors /\ 0 \in 0..target
    BY <1>3
  <2>2. repeated[m] \in [Messages -> 0..errors]
    BY <1>3, <2>1
  <2>3. queue_full[m] \in BOOLEAN /\ lost[m] \subseteq Messages
    BY <1>3
  <2> QED BY <1>3, <1>4, <2>1, <2>2, <2>3 DEF Counters
<1>7. \A T : Hits(<<>>, T) = 0
  <2>1. \A T : Hits(<<>>, T) = 0 <=> \A j \in DOMAIN <<>> : <<>>[j] \notin T
    BY <1>4, HitsType
  <2> QED BY <2>1
<1>8. ASSUME NEW i \in Concerns(m)
      PROVE  Balanced(InChan(m, i), InList(m, i), InClient(m, i), InLog(m, i), IsLost(m, i),
                      repeated[m][i], i <= sent[m])
  <2>1. i \in Messages /\ ListOf(m, Topic[i]) \in Names(m)
    BY ListNames
  <2>2. i \in 1..Len(Topic) /\ ~(i <= 0)
    BY <1>1, <2>1 DEF Messages
  <2>3. /\ InChan(m, i) = 0 /\ InList(m, i) = 0 /\ InClient(m, i) = 0 /\ InLog(m, i) = 0
        /\ IsLost(m, i) = 0 /\ repeated[m][i] = 0
    BY <1>3, <1>7, <2>1 DEF InChan, InList, InClient, InLog, IsLost, At
  <2> QED BY <1>3, <2>2, <2>3 DEF Balanced
<1> QED BY <1>5, <1>6, <1>8 DEF Placed, Accounts

LEMMA PlacesAreTyped == Types /\ Places => TypeOK
<1> SUFFICES ASSUME Types, Places PROVE TypeOK
  OBVIOUS
<1>1. /\ engine \in {"up", "panicked", "closed"} /\ op \in 0..Len(Operations)
      /\ errors \in 0..MaxErrors /\ target \in 0..Len(Topic)
  <2>1. target = Begun[op] /\ op \in 0..Len(Operations) /\ errors \in 0..MaxErrors
    BY DEF Places, Begin
  <2>2. Begun[op] \in 0..Len(Topic)
    BY <2>1, BegunFacts DEF Begins
  <2> QED BY <2>1, <2>2 DEF Types
<1>2. ASSUME NEW S, NEW T, NEW s \in Seq(S), S \subseteq T PROVE ToSet(s) \subseteq T
  BY <1>2 DEF ToSet
<1>3. ASSUME NEW m \in Managers
      PROVE  /\ sent[m] \in 0..target
             /\ Len(chan[m]) <= Capacity /\ ToSet(chan[m]) \subseteq Messages
             /\ pc[m] \in {"absorb", "send", "poll", "flush", "ended", "panicked"}
             /\ DOMAIN lists[m] = ToSet(Lists(m)) /\ DOMAIN log[m] = ToSet(Lists(m))
             /\ \A t \in DOMAIN lists[m] :
                  /\ Len(lists[m][t]) <= ListLimit
                  /\ ToSet(lists[m][t]) \cup ToSet(log[m][t])
                       \subseteq {i \in Concerns(m) : ListOf(m, Topic[i]) = t}
             /\ {deliver_cnt[m], commited_cnt[m]} \subseteq Nat
             /\ queue_full[m] \in BOOLEAN
             /\ Len(outbox[m]) <= KafkaLimit
             /\ lost[m] \subseteq Messages /\ repeated[m] \in [Messages -> 0..errors]
  <2>1. Queues(m) /\ Counters(m)
    BY DEF Places, Placed
  <2>2. chan[m] \in Seq(Messages) /\ ToSet(chan[m]) \subseteq Messages
    BY <1>2, <2>1 DEF Queues
  <2>3. DOMAIN lists[m] = ToSet(Lists(m)) /\ DOMAIN log[m] = ToSet(Lists(m))
    BY <2>1 DEF Queues, Sorted, Names
  <2>4. ASSUME NEW t \in DOMAIN lists[m]
        PROVE  /\ Len(lists[m][t]) <= ListLimit
               /\ ToSet(lists[m][t]) \cup ToSet(log[m][t])
                    \subseteq {i \in Concerns(m) : ListOf(m, Topic[i]) = t}
    <3>1. t \in Names(m)
      BY <2>3 DEF Names
    <3>2. /\ Len(lists[m][t]) <= ListLimit /\ lists[m][t] \in Seq(Carried(m, t))
          /\ log[m][t] \in Seq(Carried(m, t))
      BY <2>1, <3>1 DEF Queues, Sorted
    <3>3. ToSet(lists[m][t]) \subseteq Carried(m, t) /\ ToSet(log[m][t]) \subseteq Carried(m, t)
      BY <1>2, <3>2
    <3> QED BY <3>2, <3>3 DEF Carried
  <2>5. pc[m] \in {"absorb", "send", "poll", "flush", "ended", "panicked"}
    BY DEF Types, Phases
  <2> QED BY <2>1, <2>2, <2>3, <2>4, <2>5 DEF Queues, Counters
<1> QED BY <1>1, <1>3 DEF TypeOK

LEMMA PlacesAreOne == Types /\ Places => InOnePlace
<1> SUFFICES ASSUME Types, Places PROVE InOnePlace
  OBVIOUS
<1>1. ASSUME NEW m \in Managers, NEW i \in Concerns(m)
      PROVE  Copies(m, i) = IF i > sent[m] THEN 0 ELSE 1 + repeated[m][i]
  <2>1. Queues(m) /\ Counters(m) /\ Accounts(m)
    BY DEF Places, Placed
  <2>2. \A s : Count(s, i) = Hits(s, {i})
    <3> SUFFICES ASSUME NEW s PROVE Count(s, i) = Hits(s, {i})
      OBVIOUS
    <3>1. {j \in DOMAIN s : s[j] = i} = {j \in DOMAIN s : s[j] \in {i}}
      OBVIOUS
    <3> QED BY <3>1 DEF Count, Hits
  <2>3. Cardinality({j \in DOMAIN outbox[m] : outbox[m][j].msg = i}) = InClient(m, i)
    <3>1. outbox[m] \in Seq(Parcel(m))
      BY <2>1 DEF Queues
    <3>2. \A j \in DOMAIN outbox[m] : outbox[m][j] \in Parcel(m)
      BY <3>1
    <3>3. {j \in DOMAIN outbox[m] : outbox[m][j].msg = i}
            = {j \in DOMAIN outbox[m] : outbox[m][j] \in {e \in Parcel(m) : e.msg = i}}
      BY <3>2
    <3> QED BY <3>3 DEF InClient, Hits
  <2>4. Copies(m, i) = InChan(m, i) + InList(m, i) + InLog(m, i) + InClient(m, i) + IsLost(m, i)
    <3>1. /\ Count(chan[m], i) = InChan(m, i)
          /\ Count(lists[m][ListOf(m, Topic[i])], i) = InList(m, i)
          /\ Count(log[m][ListOf(m, Topic[i])], i) = InLog(m, i)
      BY <2>2 DEF InChan, InList, InLog, At
    <3>2. (IF i \in lost[m] THEN 1 ELSE 0) = IsLost(m, i)
      BY DEF IsLost
    <3> QED BY <2>3, <3>1, <3>2, Zenon DEF Copies
  <2>5. /\ InChan(m, i) \in Nat /\ InList(m, i) \in Nat /\ InClient(m, i) \in Nat
        /\ InLog(m, i) \in Nat /\ IsLost(m, i) \in {0, 1}
    BY <2>1, PlaceTypes
  <2>6. repeated[m][i] \in Nat /\ sent[m] \in Nat /\ i \in Nat
    <3>1. i \in Messages /\ i \in Nat
      BY ListNames
    <3>2. repeated[m] \in [Messages -> 0..errors] /\ sent[m] \in 0..target
      BY <2>1 DEF Counters
    <3>3. errors \in Nat /\ target \in Nat
      BY ProducerAssumption DEF Places, Begin, Types
    <3> QED BY <3>1, <3>2, <3>3
  <2>7. Balanced(InChan(m, i), InList(m, i), InClient(m, i), InLog(m, i), IsLost(m, i),
                 repeated[m][i], i <= sent[m])
    BY <2>1 DEF Accounts
  <2>8. CASE i <= sent[m]
    <3>1. InChan(m, i) + InList(m, i) + InClient(m, i) + (InLog(m, i) - repeated[m][i])
            + IsLost(m, i) = 1
      BY <2>7, <2>8 DEF Balanced
    <3> QED BY <2>4, <2>5, <2>6, <2>8, <3>1
  <2>9. CASE ~(i <= sent[m])
    <3>1. /\ InChan(m, i) + InList(m, i) + InClient(m, i) + (InLog(m, i) - repeated[m][i])
               + IsLost(m, i) = 0
          /\ repeated[m][i] = 0
      BY <2>7, <2>9 DEF Balanced
    <3> QED BY <2>4, <2>5, <2>6, <2>9, <3>1
  <2> QED BY <2>8, <2>9
<1> QED BY <1>1, PlacesAreTyped DEF InOnePlace

(***************************************************************************)
(* Every message the engine has pushed to a manager is in its channel, in  *)
(* a list of its scheme, in the Kafka client, in its topic or reported     *)
(* lost, and in one of them only; what a topic holds beyond that are the   *)
(* copies written by a retry.  No queue exceeds its limit.  This is for    *)
(* any number of failed sends (commit(Some) of both schemes), failed and   *)
(* repeated deliveries, and whatever order the threads take their steps.   *)
(***************************************************************************)
THEOREM EveryMessageInOnePlace == Spec => []InOnePlace
<1>1. Init => Types /\ Places
  BY InitTypes, InitPlaces
<1>2. Types /\ Places /\ [Next]_vars => (Types /\ Places)'
  BY NextTypes, NextPlaces
<1>3. Types /\ Places => InOnePlace
  BY PlacesAreOne
<1> QED BY <1>1, <1>2, <1>3, PTL DEF Spec

=============================================================================
