------------------------------ MODULE Progress ------------------------------
(***************************************************************************)
(* How a database writer knows how far it has come (storage/database.rs).  *)
(* Every row may carry a notification: a tag (the Kafka partition of the   *)
(* message it comes from) and a position in it (the offset).  A task keeps *)
(* the highest position of its rows for each tag, its flag.  Tasks finish  *)
(* in any order; a stack per tag holds the positions of the open tasks in  *)
(* ascending order, and a position is reported once no open task is below. *)
(***************************************************************************)
EXTENDS Integers, SequencesExt

CONSTANT Tags

NoMark == -1

(***************************************************************************)
(* TaskNotifyFlag: a partial function from tags to positions.              *)
(***************************************************************************)
NoFlag == [t \in {} |-> 0]

add_to(f, t, n) ==
  [u \in DOMAIN f \cup {t} |->
     IF u = t /\ (t \in DOMAIN f => f[t] <= n) THEN n ELSE f[u]]

(***************************************************************************)
(* ProgTracingStack.  An entry is the position of an open task and, as its *)
(* mark, the highest position of the finished tasks between it and the     *)
(* next entry.  push_top appends and sorts (stably) when that is needed.   *)
(***************************************************************************)
push_top(s, n) ==
  InsertAt(s, 1 + Cardinality({i \in DOMAIN s : s[i].n <= n}), [n |-> n, mark |-> NoMark])

\* Mutant: the mark of the entry that leaves is forgotten.
pop_top_ForgetsMark(s, n) ==
  LET j == Cardinality({i \in 1..Len(s) - 1 : s[i].n < n})
  IN  IF s = <<>> THEN [stack |-> s, out |-> NoMark]
      ELSE IF j = 0 THEN [stack |-> Tail(s), out |-> s[1].n]
      ELSE [stack |-> RemoveAt([s EXCEPT ![j].mark = n], j + 1), out |-> NoMark]

\* Mutant: what is reported is the position of the task that finishes.
pop_top_ReportsAtOnce(s, n) ==
  LET j == Cardinality({i \in 1..Len(s) - 1 : s[i].n < n})
  IN  IF s = <<>> THEN [stack |-> s, out |-> NoMark]
      ELSE [stack |-> RemoveAt(s, j + 1), out |-> n]

(***************************************************************************)
(* pop_top walks down from the top while the entries are not below n; the  *)
(* entry it stops above leaves the stack.  With an entry below, that one   *)
(* is marked and nothing is reported.                                      *)
(***************************************************************************)
pop_top(s, n) ==
  LET j == Cardinality({i \in 1..Len(s) - 1 : s[i].n < n})
      left == s[j + 1]
      Or(m) == IF left.mark # NoMark THEN left.mark ELSE m
  IN  IF s = <<>> THEN [stack |-> s, out |-> NoMark]
      ELSE IF j = 0 THEN [stack |-> Tail(s), out |-> Or(left.n)]
      ELSE [stack |-> RemoveAt([s EXCEPT ![j].mark = Or(n)], j + 1), out |-> NoMark]

(***************************************************************************)
(* ProgTracing: the stacks of all tags.  finish_from returns the flag of   *)
(* the tags that have something to report.                                 *)
(***************************************************************************)
update_from(tracing, f) ==
  [t \in Tags |-> IF t \in DOMAIN f THEN push_top(tracing[t], f[t]) ELSE tracing[t]]

finish_from(tracing, f) ==
  LET popped == [t \in DOMAIN f |-> pop_top(tracing[t], f[t])]
      told == {t \in DOMAIN f : popped[t].out # NoMark}
  IN  [tracing |-> [t \in Tags |-> IF t \in DOMAIN f THEN popped[t].stack ELSE tracing[t]],
       flag |-> [t \in told |-> popped[t].out]]

=============================================================================
