----------------------------- MODULE Collective -----------------------------
(***************************************************************************)
(* One collective operation on one communicator: every rank builds its     *)
(* task list (RootedTasks, ReductionTasks, ExchangeTasks), starts it when  *)
(* it calls the operation and advances it whenever its request is tested   *)
(* (mpid/tasks.cpp, NBC requests in mpid/request.cpp).  The sends and      *)
(* receives of a blocking call (BlockingTasks) are run as such a list.     *)
(*                                                                         *)
(* Messages of a pair of ranks match in order.  An eager message is read   *)
(* when it is sent and received in order; a longer one is read when it is  *)
(* transferred, in any order, and only then is its send complete.          *)
(***************************************************************************)
EXTENDS Builders

CONSTANT Calls         \* sequence of collective calls, each run by itself

Ranks(c) == 0 .. c.n - 1

-----------------------------------------------------------------------------
(***************************************************************************)
(* The data.  An element is the sequence of the contributions in it, each  *)
(* a rank and an index into the rank's input; an operation concatenates.   *)
(***************************************************************************)
Element(p, i) == <<<<p, i>>>>
Junk == <<<<None, None>>>>

Input(p, n) == [i \in 1 .. n |-> Element(p, i)]
Unset(n) == [i \in 1 .. n |-> Junk]
Total(c) == FoldLeft(+, 0, c.counts)

(* The size of the temporary buffer of an alltoallv, as its builders ask for it. *)
Scratch(c) == X!MaxCount(c) * (IF c.inPlace THEN 1 ELSE c.n + c.n \div 2)

(* What rank p's buffers hold when it calls. *)
Buffers(c, p) ==
  LET size == CASE c.kind \in {"bcast", "reduce", "allreduce", "scan"} -> c.count
                [] c.kind \in {"redscat", "gatherv", "scatterv", "allgatherv"} -> Total(c) + c.n
                [] c.kind = "alltoallv" -> X!Sdispl(c, p, c.n) + X!Rdispl(c, p, -1)
                [] OTHER -> c.n * c.count
      from == CASE c.kind = "allgatherv" -> c.displs[p + 1]
                [] c.kind = "gatherv" -> Disp(c, p)
                [] c.kind \in {"gather", "allgather"} -> p * c.count
                [] OTHER -> 0
      kept == (c.kind = "bcast" /\ p = c.root)
              \/ (c.inPlace /\ (p = c.root \/ c.kind \notin {"gather", "gatherv", "scatter", "scatterv", "reduce"}))
  IN [send |-> Input(p, size),
      recv |-> IF kept THEN [i \in 1 .. size |-> Element(p, i - from)] ELSE Unset(size),
      tmp |-> Unset(IF c.kind = "alltoallv" THEN Scratch(c) ELSE size),
      acc |-> Unset(size), node |-> Unset(size)]

-----------------------------------------------------------------------------
VARIABLES
  call,     \* which of the calls is made
  called,   \* the ranks that have called it
  tasks,    \* of each rank
  state,    \* of each rank's tasks, a started one is READY when its request is complete
  buf,      \* of each rank
  nCompletedTasks,
  sent,     \* sent[p][q]: the messages from p to q, in order
  posted    \* posted[p][q]: the receive tasks of p for messages from q, in order

vars == <<call, called, tasks, state, buf, nCompletedTasks, sent, posted>>

c == Calls[call]
Procs == Ranks(c)

Init ==
  /\ call \in DOMAIN Calls
  /\ called = {}
  /\ tasks = [p \in Procs |-> Build(c, p)]
  /\ state = [p \in Procs |-> [i \in DOMAIN tasks[p] |-> "NOTSTARTED"]]
  /\ buf = [p \in Procs |-> Buffers(c, p)]
  /\ nCompletedTasks = [p \in Procs |-> 0]
  /\ sent = [p \in Procs |-> [q \in Procs |-> <<>>]]
  /\ posted = [p \in Procs |-> [q \in Procs |-> <<>>]]

-----------------------------------------------------------------------------
(***************************************************************************)
(* Executing tasks.  s is a rank's state [state, buf, sent, posted] and t  *)
(* a task.                                                                 *)
(***************************************************************************)
Op(a, b) == [i \in DOMAIN a |-> a[i] \o b[i]]

(* Unless the order is right or does not matter, both buffers get the result. *)
ExecuteReduce(s, t) ==
  LET in == Read(s.buf, t.src)
      old == Read(s.buf, t.dst)
  IN IF t.right \/ c.commutes THEN [s EXCEPT !.buf = Write(@, t.dst, Op(in, old))]
     ELSE [s EXCEPT !.buf = Write(Write(@, t.src, Op(old, in)), t.dst, Op(old, in))]

(* A scan reduces to the result as well, if the data is of a lower rank. *)
ExecuteScan(s, t) ==
  LET in == Read(s.buf, t.src)
      result == IF t.copyOnly THEN in ELSE Op(in, Read(s.buf, t.out))
  IN IF t.right THEN [s EXCEPT !.buf = Write(Write(@, t.dst, Op(in, Read(@, t.dst))), t.out, result)]
     ELSE ExecuteReduce(s, t)

Eager(t) == Length(t.src) <= c.eager

ExecuteIsend(s, t, i) ==
  LET m == [task |-> i, eager |-> Eager(t), data |-> Read(s.buf, t.src), moved |-> FALSE]
  IN [s EXCEPT !.sent[t.peer] = Append(@, m),
               !.state[i] = IF Eager(t) THEN "READY" ELSE "STARTED"]

ExecuteIrecv(s, t, i) ==
  [s EXCEPT !.posted[t.peer] = Append(@, i), !.state[i] = "STARTED"]

Execute(s, t, i) ==
  CASE t.kind = "ISEND" -> ExecuteIsend(s, t, i)
    [] t.kind = "IRECV" -> ExecuteIrecv(s, t, i)
    [] t.kind = "NOOP" -> [s EXCEPT !.state[i] = "READY"]
    [] t.kind = "LOCAL_COPY" ->
         [s EXCEPT !.buf = Write(@, t.dst, Read(@, t.src)), !.state[i] = "COMPLETED"]
    [] t.kind = "REDUCE" -> [ExecuteReduce(s, t) EXCEPT !.state[i] = "COMPLETED"]
    [] t.kind = "SCAN" -> [ExecuteScan(s, t) EXCEPT !.state[i] = "COMPLETED"]

(* Runs the tasks from i on, as far as they are linked. *)
RECURSIVE ExecuteTasklist(_, _, _)
ExecuteTasklist(s, list, i) ==
  IF i = None THEN s
  ELSE LET done == Execute(s, list[i], i)
       IN ExecuteTasklist(done, list, IF done.state[i] = "COMPLETED" THEN list[i].onComplete
                                      ELSE list[i].onInit)

(* The first unfinished task is complete: it is counted and its successors are run. *)
Count(s, list, i) ==
  IF s.state[i] = "COMPLETED" THEN [s EXCEPT !.n = i]
  ELSE ExecuteTasklist([s EXCEPT !.n = i, !.state[i] = "COMPLETED"], list, list[i].onComplete)

(* Mutant: a test goes past a task that is not complete. *)
RECURSIVE TestPast(_, _)
TestPast(s, list) ==
  LET i == s.n + 1 IN
  IF i > Len(list) THEN s
  ELSE TestPast(IF s.state[i] = "READY" THEN Count(s, list, i) ELSE [s EXCEPT !.n = i], list)

(***************************************************************************)
(* A test goes through the tasks in order and stops at the first one that  *)
(* is not complete.  s also has the number n of tasks it got past.         *)
(***************************************************************************)
RECURSIVE TestFrom(_, _)
TestFrom(s, list) ==
  LET i == s.n + 1 IN
  IF i > Len(list) \/ s.state[i] \notin {"READY", "COMPLETED"} THEN s
  ELSE TestFrom(Count(s, list, i), list)

Local(p) ==
  [state |-> state[p], buf |-> buf[p], sent |-> sent[p], posted |-> posted[p], n |-> nCompletedTasks[p]]

Become(p, s) ==
  /\ state' = [state EXCEPT ![p] = s.state]
  /\ buf' = [buf EXCEPT ![p] = s.buf]
  /\ sent' = [sent EXCEPT ![p] = s.sent]
  /\ posted' = [posted EXCEPT ![p] = s.posted]
  /\ nCompletedTasks' = [nCompletedTasks EXCEPT ![p] = s.n]

-----------------------------------------------------------------------------
(* Rank p calls the operation; a rank without tasks has a no-op request. *)
Call(p) ==
  /\ p \notin called
  /\ called' = called \cup {p}
  /\ \E s \in {IF tasks[p] = <<>> THEN Local(p) ELSE ExecuteTasklist(Local(p), tasks[p], 1)} :
       Become(p, s)
  /\ UNCHANGED <<call, tasks>>

Finished(p) == p \in called /\ nCompletedTasks[p] = Len(tasks[p])

Testable(p) ==
  p \in called /\ ~Finished(p) /\ state[p][nCompletedTasks[p] + 1] \in {"READY", "COMPLETED"}

(* A test of rank p's request that finds its first unfinished task done. *)
Test(p) ==
  /\ Testable(p)
  /\ \E s \in {TestFrom(Local(p), tasks[p])} : Become(p, s)
  /\ UNCHANGED <<call, called, tasks>>

(* The k-th message from p to q is put into q's k-th receive for p. *)
Transfer(p, q, k) ==
  LET m == sent[p][q][k]
      i == posted[q][p][k]
      data == IF m.eager THEN m.data ELSE Read(buf[p], tasks[p][m.task].src)
  IN /\ ~m.moved
     /\ m.eager => \A j \in 1 .. k - 1 : sent[p][q][j].eager => sent[p][q][j].moved
     /\ buf' = [buf EXCEPT ![q] = Write(@, tasks[q][i].dst, data)]
     /\ state' = [r \in Procs |-> [t \in DOMAIN state[r] |->
          IF (r = q /\ t = i) \/ (r = p /\ t = m.task /\ ~m.eager) THEN "READY" ELSE state[r][t]]]
     /\ sent' = [sent EXCEPT ![p][q][k].moved = TRUE]
     /\ UNCHANGED <<call, called, tasks, nCompletedTasks, posted>>

Matched(p, q) == {k \in DOMAIN sent[p][q] : k <= Len(posted[q][p])}

AllFinished == \A p \in Procs : Finished(p)

Next ==
  \/ \E p \in Procs : Call(p) \/ Test(p)
  \/ \E p, q \in Procs : \E k \in Matched(p, q) : Transfer(p, q, k)

Spec == Init /\ [][Next]_vars

-----------------------------------------------------------------------------
TypeOK ==
  /\ call \in DOMAIN Calls
  /\ called \subseteq Procs
  /\ \A p \in Procs :
       /\ DOMAIN state[p] = DOMAIN tasks[p]
       /\ \A i \in DOMAIN tasks[p] : state[p][i] \in {"NOTSTARTED", "STARTED", "READY", "COMPLETED"}
       /\ nCompletedTasks[p] \in 0 .. Len(tasks[p])
       /\ \A i \in 1 .. nCompletedTasks[p] : state[p][i] = "COMPLETED"
       /\ \A q \in Procs : Len(sent[p][q]) + Len(posted[p][q]) <= Len(tasks[p])

Same(a, b) ==
  IF c.commutes THEN Len(a) = Len(b) /\ ToSet(a) = ToSet(b) ELSE a = b

AllOf(ranks, i) == FoldLeft(LAMBDA acc, k : acc \o Element(k, i), <<>>, ranks)
RanksTo(k) == [i \in 1 .. k |-> i - 1]

(* Between two groups, a reduction is over the other group. *)
Contributors(p) ==
  IF c.inter THEN CHOOSE g \in Range(c.groups) : p \notin Range(g) ELSE RanksTo(c.n)

(* What element i of rank p's result is to be; elements it has no say in are Junk. *)
Expected(p, i) ==
  LET OwnerOf(from) == CHOOSE k \in Procs : from[k + 1] < i /\ i <= from[k + 1] + c.counts[k + 1]
      disps == [k \in 1 .. c.n |-> Disp(c, k - 1)]
      block == (i - 1) \div c.count
      index == 1 + ((i - 1) % c.count)
  IN CASE c.kind = "bcast" -> Element(c.root, i)
       [] c.kind \in {"gather", "allgather"} -> Element(block, index)
       [] c.kind = "gatherv" -> Element(OwnerOf(disps), i - disps[OwnerOf(disps) + 1])
       [] c.kind = "allgatherv" -> Element(OwnerOf(c.displs), i - c.displs[OwnerOf(c.displs) + 1])
       [] c.kind = "scatter" -> Element(c.root, p * c.count + i)
       [] c.kind = "scatterv" -> Element(c.root, Disp(c, p) + i)
       [] c.kind = "alltoall" -> Element(block, p * c.count + index)
       [] c.kind = "alltoallv" ->
            LET q == CHOOSE q \in Procs : X!Rdispl(c, p, q) < i /\ i <= X!Rdispl(c, p, q) + X!Count(c, q, p)
                from == IF c.inPlace THEN X!Rdispl(c, q, p) ELSE X!Sdispl(c, q, p)
            IN Element(q, from + i - X!Rdispl(c, p, q))
       [] c.kind \in {"reduce", "allreduce"} -> AllOf(Contributors(p), i)
       [] c.kind = "scan" -> AllOf(RanksTo(IF c.alg = "exscan" THEN p ELSE p + 1), i)
       [] c.kind = "redscat" -> AllOf(RanksTo(c.n), Disp(c, p) + i)

(* The elements of the result of rank p. *)
Results(p) ==
  CASE c.kind = "barrier" -> {}
    [] c.kind = "bcast" ->
         IF c.inter /\ GroupOf(c, p) = GroupOf(c, c.root) THEN {} ELSE 1 .. c.count
    [] c.kind = "allreduce" -> 1 .. c.count
    [] c.kind = "alltoallv" -> 1 .. X!Rdispl(c, p, -1)
    [] c.kind = "reduce" -> IF p = c.root THEN 1 .. c.count ELSE {}
    [] c.kind = "scan" -> IF c.alg = "exscan" /\ p = 0 THEN {} ELSE 1 .. c.count
    [] c.kind = "gather" -> IF p = c.root THEN 1 .. c.n * c.count ELSE {}
    [] c.kind = "gatherv" -> IF p = c.root THEN 1 .. Total(c) ELSE {}
    [] c.kind \in {"allgather", "alltoall"} -> 1 .. c.n * c.count
    [] c.kind = "allgatherv" ->
         UNION {c.displs[k] + 1 .. c.displs[k] + c.counts[k] : k \in DOMAIN c.counts}
    [] c.kind = "scatter" -> IF c.inPlace /\ p = c.root THEN {} ELSE 1 .. c.count
    [] c.kind = "scatterv" -> IF c.inPlace /\ p = c.root THEN {} ELSE 1 .. c.counts[p + 1]
    [] c.kind = "redscat" -> 1 .. c.counts[p + 1]

(***************************************************************************)
(* When a rank's request is complete its receive buffer holds the result:  *)
(* the right elements of the right ranks, each contribution exactly once,  *)
(* and in the order of the ranks for an operation that does not commute.   *)
(* A barrier is complete only when every rank has called it.               *)
(***************************************************************************)
RightResult ==
  \A p \in Procs : Finished(p) =>
    /\ c.kind = "barrier" => called = Procs
    /\ \A i \in Results(p) : Same(buf[p].recv[i], Expected(p, i))

(***************************************************************************)
(* A message is still what it was when its send was started: no copy,      *)
(* reduction or receive of the list overwrites a buffer that a pending     *)
(* rendezvous send has yet to read.                                        *)
(***************************************************************************)
SendsIntact ==
  \A p, q \in Procs : \A k \in DOMAIN sent[p][q] :
    LET m == sent[p][q][k]
    IN ~m.moved /\ ~m.eager => Read(buf[p], tasks[p][m.task].src) = m.data

(***************************************************************************)
(* The ranks' lists fit each other: the receive that a message matches, by *)
(* its place in the order of the pair, has room for it, and when all are   *)
(* finished nothing is left over for a later collective to match.          *)
(***************************************************************************)
ListsFit ==
  \A p, q \in Procs :
    /\ \A k \in Matched(p, q) :
         Len(sent[p][q][k].data) <= Length(tasks[q][posted[q][p][k]].dst)
    /\ AllFinished => /\ Len(sent[p][q]) = Len(posted[q][p])
                      /\ \A k \in DOMAIN sent[p][q] : sent[p][q][k].moved

(***************************************************************************)
(* Every rank's request completes, whichever messages are rendezvous and   *)
(* whatever the order of calls, arrivals and tests: until all are finished *)
(* something can still happen, and every step is one closer to the end.    *)
(***************************************************************************)
NeverStuck ==
  \/ AllFinished
  \/ called # Procs
  \/ \E p \in Procs : Testable(p)
  \/ \E p, q \in Procs : \E k \in Matched(p, q) : ~sent[p][q][k].moved

==============================================================================
