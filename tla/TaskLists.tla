------------------------------ MODULE TaskLists ------------------------------
(***************************************************************************)
(* Task lists of nonblocking collectives (include/tasks.h, mpid/tasks.cpp) *)
(* and the binomial tree arithmetic (common/util.h) they are built with.   *)
(*                                                                         *)
(* A list is a sequence of tasks; its first task is the one the request    *)
(* starts with.  Positions count from 1, and None is NBC_TASK_NONE.        *)
(* Buffers hold elements; a region is a run of elements of one of the      *)
(* buffers "send", "recv", "tmp", and a derived datatype is a sequence of  *)
(* regions.                                                                *)
(***************************************************************************)
EXTENDS Integers, SequencesExt

None == 0

-----------------------------------------------------------------------------
(* Ranks and binomial trees. *)
RankAdd(n, a, b) == (a + b) % n
RankSub(n, a, b) == (a - b + n) % n
Smaller(a, b) == IF a < b THEN a ELSE b

(* The place of rank p in a group, and the group that it is in. *)
Place(g, p) == (CHOOSE i \in DOMAIN g : g[i] = p) - 1
GroupOf(c, p) == CHOOSE g \in Range(c.groups) : p \in Range(g)

(* Rank r with the bit of value d changed. *)
Flip(r, d) == IF (r \div d) % 2 = 1 THEN r - d ELSE r + d

Log2Floor(n) == CHOOSE k \in 0 .. n : 2 ^ k <= n /\ n < 2 ^ (k + 1)
IsPowerOf2(n) == n = 2 ^ Log2Floor(n)
PowerOf2Floor(n) == 2 ^ Log2Floor(n)
Log2Ceiling(n) == IF IsPowerOf2(n) THEN Log2Floor(n) ELSE Log2Floor(n) + 1

(* The least significant bit that is set, as a power of 2. *)
LowBit(r) ==
  CHOOSE b \in {2 ^ k : k \in 0 .. r} : r % (2 * b) = b

TreeSize(r, n) ==
  IF r = 0 THEN n ELSE LET b == LowBit(r) IN IF b < n - r THEN b ELSE n - r

ChildCount(r, n) == Log2Ceiling(TreeSize(r, n))

(* The distances of a node's children, in the two orders of the builders. *)
Ascending(k) == [i \in 1 .. k |-> 2 ^ (i - 1)]
Descending(k) == [i \in 1 .. k |-> 2 ^ (k - i)]

-----------------------------------------------------------------------------
(* Regions. *)
Region(b, o, n) == <<[b |-> b, o |-> o, n |-> n]>>

Cells(regions) ==
  FoldLeft(LAMBDA acc, r : acc \o [k \in 1 .. r.n |-> <<r.b, r.o + k>>],
           <<>>, regions)

Length(regions) == FoldLeft(LAMBDA acc, r : acc + r.n, 0, regions)

Read(buf, regions) ==
  LET cells == Cells(regions)
  IN [k \in 1 .. Len(cells) |-> buf[cells[k][1]][cells[k][2]]]

(* Writes the first Len(data) elements of the regions. *)
Put(buf, cells, data) ==
  FoldLeft(LAMBDA new, k : [new EXCEPT ![cells[k][1]][cells[k][2]] = data[k]],
           buf, [k \in 1 .. Smaller(Len(cells), Len(data)) |-> k])

Write(buf, regions, data) == Put(buf, Cells(regions), data)

-----------------------------------------------------------------------------
(***************************************************************************)
(* Tasks.  peer is the other rank of a send or receive; src is what a task *)
(* reads and dst what it writes.  A reduction also reads dst; a scan also  *)
(* writes out, and only copies to it if copyOnly.                          *)
(***************************************************************************)
Task(kind, peer, src, dst) ==
  [kind |-> kind, peer |-> peer, src |-> src, dst |-> dst, out |-> <<>>,
   right |-> TRUE, copyOnly |-> FALSE, onInit |-> None, onComplete |-> None]

Isend(regions, peer) == Task("ISEND", peer, regions, <<>>)
Irecv(regions, peer) == Task("IRECV", peer, <<>>, regions)
NoOp == Task("NOOP", None, <<>>, <<>>)

(* InitLocalCopy, InitPack and InitUnpack. *)
LocalCopy(src, dst) == Task("LOCAL_COPY", None, src, dst)

(* dst := src op dst if rightOrder, else dst op src. *)
Reduce(src, dst, rightOrder) ==
  [Task("REDUCE", None, src, dst) EXCEPT !.right = rightOrder]

Scan(src, partial, out, rightOrder, copyOnly) ==
  [Task("SCAN", None, src, partial) EXCEPT
     !.out = out, !.right = rightOrder, !.copyOnly = copyOnly]

-----------------------------------------------------------------------------
(***************************************************************************)
(* Chaining.  from names the link that the next task will fill in, as      *)
(* piNext does in the code: the task and whether that task's start or its  *)
(* completion starts the next.                                             *)
(***************************************************************************)
Empty == [tasks |-> <<>>, from |-> <<None, "onComplete">>]

Linked(b) ==
  IF b.from[1] = None THEN b.tasks
  ELSE [b.tasks EXCEPT ![b.from[1]][b.from[2]] = Len(b.tasks) + 1]

Then(b, task, link) ==
  [tasks |-> Append(Linked(b), task), from |-> <<Len(b.tasks) + 1, link>>]

(* The next task starts when this one is complete, or as soon as it is started. *)
ThenWait(b, task) == Then(b, task, "onComplete")
ThenGoOn(b, task) == Then(b, task, "onInit")

(* The next task is started by the given link instead. *)
From(b, i, link) == [b EXCEPT !.from = <<i, link>>]

(* A task of the list that a link set elsewhere starts. *)
Beside(b, task) ==
  [tasks |-> Append(b.tasks, task), from |-> <<Len(b.tasks) + 1, "onComplete">>]

(* Everything so far is complete before the next task starts. *)
WaitAll(b) == IF b.tasks = <<>> THEN b ELSE From(b, Len(b.tasks), "onComplete")

(* A send and a receive started together; the receive's end starts the next. *)
Exchange(b, send, recv) == ThenWait(ThenGoOn(b, send), recv)

(* A receive that starts a send and whose end starts the next task. *)
Trade(b, send, recv) ==
  LET k == Len(b.tasks) + 1
  IN From(Beside(ThenWait(b, [recv EXCEPT !.onInit = k + 1]), send), k, "onComplete")

(* MPIC_Sendrecv: both are started, and both are complete before the next. *)
Sendrecv(b, send, recv) == ThenWait(ThenGoOn(b, recv), send)

(* In a blocking call, what there is nothing of is left out. *)
Do(how, b, task) == IF how = "sendrecv" /\ task = NoOp THEN b ELSE ThenWait(b, task)

(* How the two messages of a step are chained. *)
Meet(how, b, send, recv) ==
  CASE how = "trade" -> Trade(b, send, recv)
    [] how = "exchange" -> Exchange(b, send, recv)
    [] how = "sendrecv" /\ NoOp \notin {send, recv} -> Sendrecv(b, send, recv)
    [] how = "sendrecv" /\ NoOp \in {send, recv} -> Do(how, Do(how, b, recv), send)

ThenIf(cond, b, task) == IF cond THEN ThenWait(b, task) ELSE b
==============================================================================
