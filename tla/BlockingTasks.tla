---------------------------- MODULE BlockingTasks ----------------------------
(***************************************************************************)
(* Blocking collectives (mpid/barrier.cpp, bcast.cpp, reduce.cpp,          *)
(* gather.cpp), flat, over the two levels of nodes and leaders, and over   *)
(* the two groups of an intercommunicator.  A blocking call is the list of *)
(* the sends and receives it makes; it returns when the last is complete.  *)
(*                                                                         *)
(* c.groups are the nodes, each a sequence of its ranks with the leader    *)
(* first and in the order of their leaders, or the two groups of an        *)
(* intercommunicator.  A collective on a group is built for the ranks of   *)
(* the group and then given the peers' ranks in the whole.                 *)
(***************************************************************************)
EXTENDS TaskLists

T == INSTANCE RootedTasks
R == INSTANCE ReductionTasks
X == INSTANCE ExchangeTasks

(* MPIC_Send and MPIC_Recv. *)
Send(b, regions, peer) == ThenWait(b, Isend(regions, peer))
Recv(b, regions, peer) == ThenWait(b, Irecv(regions, peer))

(* The tasks of a call that has returned before the next one is made. *)
Returned(tasks) == [tasks |-> tasks, from |-> <<Len(tasks), "onComplete">>]

-----------------------------------------------------------------------------
(* Groups. *)
Leaders(c) == [i \in DOMAIN c.groups |-> c.groups[i][1]]

(* The list d of a rank of group g, after everything of b. *)
After(b, g, d) ==
  LET Moved(l) == IF l = None THEN None ELSE l + Len(b.tasks)
      Peer(t) == IF t.kind \in {"ISEND", "IRECV"} THEN g[t.peer + 1] ELSE t.peer
  IN IF d.tasks = <<>> THEN b
     ELSE [tasks |-> Linked(b) \o [i \in DOMAIN d.tasks |->
             [d.tasks[i] EXCEPT !.peer = Peer(d.tasks[i]),
                                !.onInit = Moved(@), !.onComplete = Moved(@)]],
           from |-> <<Moved(d.from[1]), d.from[2]>>]

(* The call as rank g[i + 1] of group g makes it as rank i of the subcommunicator. *)
Within(c, g, root) == [c EXCEPT !.n = Len(g), !.root = root]

(***************************************************************************)
(* The list d of rank p of group g, after b.  There is nothing to do for   *)
(* other ranks, and no subcommunicator of one rank.                        *)
(***************************************************************************)
On(g, p, b, d) == IF p \notin Range(g) \/ Len(g) = 1 THEN b ELSE After(b, g, d)

-----------------------------------------------------------------------------
(* Barrier. *)
BarrierFlat(c, p) ==
  FoldLeft(LAMBDA b, d : Sendrecv(b, Isend(<<>>, RankAdd(c.n, p, d)), Irecv(<<>>, RankSub(c.n, p, d))),
           Empty, Ascending(Log2Ceiling(c.n)))

(***************************************************************************)
(* Everyone's entry is reported to rank 0: the ranks above the power of    *)
(* two tell the rank as much lower, then the upper half tells the lower.   *)
(***************************************************************************)
DeclareBarrierEntryToRank0(c, p) ==
  LET pof2 == PowerOf2Floor(c.n)
      above == IF p + pof2 < c.n THEN Recv(Empty, <<>>, p + pof2) ELSE Empty
      told == FoldLeft(LAMBDA b, d : Recv(b, <<>>, p + d), above,
                       SelectSeq(Descending(Log2Floor(c.n)), LAMBDA d : p < d))
  IN IF p >= pof2 THEN Send(Empty, <<>>, p - pof2)
     ELSE IF p = 0 THEN told
     ELSE Send(told, <<>>, p - PowerOf2Floor(p))

(* Those that are released release as many others, until there are none. *)
ReleaseAllFromBarrier(c, p) ==
  LET first == IF p = 0 THEN 1 ELSE 2 * PowerOf2Floor(p)
      told == IF p = 0 THEN Empty ELSE Recv(Empty, <<>>, p - PowerOf2Floor(p))
  IN FoldLeft(LAMBDA b, d : Send(b, <<>>, p + d), told,
              SelectSeq(Ascending(Log2Ceiling(c.n)), LAMBDA d : first <= d /\ p + d < c.n))

BarrierHA(c, p) ==
  LET node == GroupOf(c, p)
      entered == On(node, p, Empty, DeclareBarrierEntryToRank0(Within(c, node, 0), Place(node, p)))
      met == On(Leaders(c), p, entered, BarrierFlat(Within(c, Leaders(c), 0), Place(Leaders(c), p)))
  IN On(node, p, met, ReleaseAllFromBarrier(Within(c, node, 0), Place(node, p)))

-----------------------------------------------------------------------------
(* Broadcast of the buffer "recv". *)
BcastBinomial(c, p) == WaitAll(T!Binomial(c, p, Empty, "recv", 0, c.count))

(* Within a socket, one binomial broadcast after the other. *)
BcastChunked(c, p) ==
  LET chunks == (c.count + c.chunk - 1) \div c.chunk
      Chunk(b, k) ==
        LET off == (k - 1) * c.chunk
        IN WaitAll(T!Binomial(c, p, b, "recv", off, Smaller(c.chunk, c.count - off)))
  IN FoldLeft(Chunk, Empty, [k \in 1 .. chunks |-> k])

BcastImpl(c, p) ==
  CASE c.chunk < c.count -> BcastChunked(c, p)
    [] c.chunk >= c.count /\ ~c.long -> BcastBinomial(c, p)
    [] c.chunk >= c.count /\ c.long /\ IsPowerOf2(c.n) -> Returned(T!DoublingBcast(c, p))
    [] c.chunk >= c.count /\ c.long /\ ~IsPowerOf2(c.n) -> Returned(T!BlockingRingBcast(c, p))

BcastOn(c, p, b, g, root) == On(g, p, b, BcastImpl(Within(c, g, root), Place(g, p)))

(***************************************************************************)
(* A root that is no leader reaches its leader by a broadcast on its node, *)
(* before that leader takes part in the broadcast among the leaders; all   *)
(* other leaders pass the data on to their node after it.                  *)
(***************************************************************************)
BcastHA(c, p) ==
  LET node == GroupOf(c, p)
      near == c.root \in Range(node)
      leader == IF near THEN p ELSE GroupOf(c, c.root)[1]
      onNode == <<node, IF near THEN Place(node, c.root) ELSE 0>>
      among == <<Leaders(c), Place(Leaders(c), leader)>>
      steps == CASE p = node[1] /\ near /\ p # c.root -> <<onNode, among>>
                 [] p = node[1] /\ (p = c.root \/ ~near) -> <<among, onNode>>
                 [] p # node[1] -> <<onNode>>
  IN FoldLeft(LAMBDA b, s : BcastOn(c, p, b, s[1], s[2]), Empty, steps)

(* The root, of the group from, sends to the first of the group to. *)
BcastInter(c, p, b, root, to) ==
  LET told == IF p = root THEN Send(b, Region("recv", 0, c.count), to[1])
              ELSE IF p = to[1] THEN Recv(b, Region("recv", 0, c.count), root)
              ELSE b
  IN BcastOn(c, p, told, to, 0)

(* Each group tells the other when it has met. *)
BarrierInter(c, p) ==
  LET low == c.groups[1]
      high == c.groups[2]
      mine == GroupOf(c, p)
      met == On(mine, p, Empty, BarrierFlat(Within(c, mine, 0), Place(mine, p)))
  IN BcastInter(c, p, BcastInter(c, p, met, low[1], high), high[1], low)

-----------------------------------------------------------------------------
(***************************************************************************)
(* Reduce from buffer in to the root's buffer out; in place if they are    *)
(* the same.  Other ranks accumulate in a buffer of their own.             *)
(***************************************************************************)
Started(c, p, in, out) ==
  LET acc == IF p = c.root THEN out ELSE "acc"
  IN IF in = acc THEN Empty ELSE ThenWait(Empty, LocalCopy(R!Whole(c, in), R!Whole(c, acc)))

ReduceBinomial(c, p, in, out) ==
  LET lroot == IF c.commutes THEN c.root ELSE 0
      r == RankSub(c.n, p, lroot)
      acc == R!Whole(c, IF p = c.root THEN out ELSE "acc")
      Child(b, d) ==
        ThenWait(Recv(b, R!Whole(c, "tmp"), RankAdd(c.n, p, d)), Reduce(R!Whole(c, "tmp"), acc, FALSE))
      reduced == FoldLeft(Child, Started(c, p, in, out), Ascending(ChildCount(r, c.n)))
      sent == IF r = 0 THEN reduced ELSE Send(reduced, acc, RankSub(c.n, p, LowBit(r)))
  IN CASE lroot = c.root -> sent
       [] lroot # c.root /\ p = 0 -> Send(sent, acc, c.root)
       [] lroot # c.root /\ p = c.root -> Recv(sent, acc, 0)
       [] lroot # c.root /\ p \notin {0, c.root} -> sent

(* The shares of the rank that has them, from send to last, go towards newroot. *)
GatherToRoot(c, s, acc, new, newroot, dst) ==
  LET Step(t, d) ==
        LET peer == Flip(new, d)
            low == new < peer
            shift == R!Pof2(c) \div (2 * d)
            last == IF low /\ d # R!Pof2(c) \div 2 THEN t.last + shift ELSE t.last
            other == IF low THEN t.send + shift ELSE t.send - shift
            mine == IF low THEN R!Shares(c, acc, t.send, other) ELSE R!Shares(c, acc, t.send, last)
            its == IF low THEN R!Shares(c, acc, other, last) ELSE R!Shares(c, acc, other, t.send)
        IN IF t.done THEN t
           ELSE IF peer \div d = newroot \div d
           THEN [t EXCEPT !.b = Send(@, mine, dst[peer]), !.done = TRUE]
           ELSE [t EXCEPT !.b = Recv(@, its, dst[peer]), !.last = last,
                          !.send = IF low THEN @ ELSE other]
  IN FoldLeft(Step, [b |-> s.b, send |-> s.send, last |-> s.last, done |-> FALSE],
              Descending(Log2Floor(c.n))).b

(***************************************************************************)
(* The odd ones of the first 2 * rem ranks give their contribution to the  *)
(* rank before them.  If the root is one of them, rank 0 gives it its      *)
(* share, and the root takes rank 0's part in the gather.                  *)
(***************************************************************************)
ReduceLong(c, p, in, out) ==
  LET rem == R!Rem(c)
      excluded(k) == k < 2 * rem /\ k % 2 = 1
      New(k) == IF k < 2 * rem THEN k \div 2 ELSE k - rem
      acc == IF p = c.root THEN out ELSE "acc"
      whole == R!Whole(c, acc)
      original == [k \in 0 .. R!Pof2(c) - 1 |-> R!TrimmedToOriginalRankEven(rem, k)]
      gatherer == IF excluded(c.root) THEN [original EXCEPT ![0] = c.root] ELSE original
      newroot == IF excluded(c.root) THEN 0 ELSE New(c.root)
      start == Started(c, p, in, out)
      given == Send(start, whole, p - 1)
      taken == IF p >= 2 * rem THEN start
               ELSE ThenWait(Recv(start, R!Whole(c, "tmp"), p + 1), Reduce(R!Whole(c, "tmp"), whole, FALSE))
      halved == R!Halving(c, p, taken, acc, New(p), original, "sendrecv")
      share == R!Shares(c, acc, 0, 1)
  IN CASE excluded(p) /\ p # c.root -> given
       [] excluded(p) /\ p = c.root ->
            GatherToRoot(c, [b |-> Recv(given, share, 0), send |-> 0, last |-> 2], acc, 0, 0, gatherer)
       [] ~excluded(p) /\ excluded(c.root) /\ New(p) = 0 -> Send(halved.b, share, c.root)
       [] OTHER -> GatherToRoot(c, halved, acc, New(p), newroot, gatherer)

ReduceFlat(c, p, in, out) ==
  IF c.long THEN ReduceLong(c, p, in, out) ELSE ReduceBinomial(c, p, in, out)

ReduceOn(c, p, b, g, root, in, out) ==
  On(g, p, b, ReduceFlat(Within(c, g, root), Place(g, p), in, out))

OwnIn(c) == IF c.inPlace THEN "recv" ELSE "send"

(***************************************************************************)
(* A leader that is not on the root's node, or is the root, reduces its    *)
(* node first; the leader of the root's node reduces among the leaders     *)
(* first, and gives what it got into the reduction on its node.            *)
(***************************************************************************)
ReduceHA(c, p) ==
  LET node == GroupOf(c, p)
      leaders == Leaders(c)
      in == IF p = c.root THEN OwnIn(c) ELSE "send"
      near == c.root \in Range(node)
      Over(g, root, from, to) == [g |-> g, root |-> root, from |-> from, to |-> to]
      steps ==
        CASE p # node[1] -> <<Over(node, IF near THEN Place(node, c.root) ELSE 0, in, "recv")>>
          [] p = node[1] /\ (~near \/ p = c.root) ->
               <<Over(node, 0, in, "node"),
                 Over(leaders, Place(leaders, GroupOf(c, c.root)[1]),
                      IF Len(node) = 1 THEN in ELSE "node", "recv")>>
          [] p = node[1] /\ near /\ p # c.root ->
               <<Over(leaders, Place(leaders, p), in, "node"),
                 Over(node, Place(node, c.root), "node", "recv")>>
  IN FoldLeft(LAMBDA b, s : ReduceOn(c, p, b, s.g, s.root, s.from, s.to), Empty, steps)

(* The group from reduces to its first rank, which sends the result to root. *)
ReduceInter(c, p, b, from, root, out) ==
  LET node == R!Whole(c, "node")
      Sent(d) == IF p = from[1] THEN Send(d, node, root) ELSE d
  IN IF p = root THEN Recv(b, R!Whole(c, out), from[1])
     ELSE Sent(IF from = <<p>> THEN ThenWait(b, LocalCopy(R!Whole(c, "send"), node))
               ELSE ReduceOn(c, p, b, from, 0, "send", "node"))

-----------------------------------------------------------------------------
(* Allreduce. *)
AllreduceFlat(c, p) ==
  R!Allreduce([c EXCEPT !.alg = IF c.long THEN "allreduce_long" ELSE "allreduce_short"],
              p, "sendrecv", "sendrecv")

AllreduceHA(c, p) ==
  LET node == GroupOf(c, p)
      whole(b) == R!Whole(c, b)
      reduced ==
        IF Len(node) > 1
        THEN ReduceOn(c, p, Empty, node, 0, OwnIn(c), "recv")
        ELSE IF c.inPlace THEN Empty ELSE ThenWait(Empty, LocalCopy(whole("send"), whole("recv")))
      among == Within([c EXCEPT !.inPlace = TRUE], Leaders(c), 0)
      joined == On(Leaders(c), p, reduced, AllreduceFlat(among, Place(Leaders(c), p)))
  IN BcastOn(c, p, joined, node, 0)

(* Each group gets what the other one contributed. *)
AllreduceInter(c, p) ==
  LET low == c.groups[1]
      high == c.groups[2]
      reduced == FoldLeft(LAMBDA b, g : ReduceInter(c, p, b, g[1], g[2][1], "recv"),
                          Empty, <<<<high, low>>, <<low, high>>>>)
  IN BcastOn(c, p, reduced, GroupOf(c, p), 0)

-----------------------------------------------------------------------------
(* Reduce-scatter. *)
ReduceScatterShort(c, p) ==
  IF R!IsGuest(c, p)
  THEN Do("sendrecv", Send(R!CopyIn(c), R!Whole(c, "acc"), p + 1), R!OrNoOp(Irecv(R!Result(c, p), p + 1)))
  ELSE R!ReduceScatterHalving(c, p, "sendrecv")

(* In place, the result is moved only after all blocks were sent. *)
ReduceScatterLong(c, p) ==
  LET own == IF c.inPlace THEN R!Blocks(c, "recv", p, p + 1) ELSE R!Result(c, p)
      scratch == Region("tmp", 0, c.counts[p + 1])
      start == IF c.inPlace THEN Empty
               ELSE ThenWait(Empty, LocalCopy(R!Blocks(c, "send", p, p + 1), own))
      Step(b, i) ==
        LET dst == RankAdd(c.n, p, i)
        IN ThenWait(Sendrecv(b, Isend(R!Blocks(c, OwnIn(c), dst, dst + 1), dst),
                                Irecv(scratch, RankSub(c.n, p, i))),
                    Reduce(scratch, own, TRUE))
  IN ThenIf(c.inPlace /\ p # 0, FoldLeft(Step, start, [i \in 1 .. c.n - 1 |-> i]),
            LocalCopy(own, R!Result(c, p)))

-----------------------------------------------------------------------------
(* Allgather and allgatherv. *)
AllgatherFlat(c, p) ==
  CASE ~c.long /\ IsPowerOf2(c.n) -> X!AllgatherDoubling(c, p, "sendrecv", c.n * c.count)
    [] ~c.long /\ ~IsPowerOf2(c.n) -> X!AllgatherBruck(c, p, "sendrecv")
    [] c.long -> X!AllgatherRing(c, p, "sendrecv")

AllgathervFlat(c, p) ==
  CASE ~c.long /\ IsPowerOf2(c.n) -> X!AllgathervDoubling(c, p, "sendrecv", c.count)
    [] ~c.long /\ ~IsPowerOf2(c.n) -> X!AllgathervBruck(c, p, "sendrecv", c.count)
    [] c.long -> X!AllgathervRing(c, p, "sendrecv")
==============================================================================
