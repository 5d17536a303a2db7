----------------------------- MODULE RootedTasks -----------------------------
(***************************************************************************)
(* Broadcast, gather and scatter (mpid/bcast.cpp, gather.cpp, scatter.cpp) *)
(* over one communicator.  c describes the call: n ranks, the root, count  *)
(* elements (per rank for gather and scatter), the algorithm's switches;   *)
(* p is the rank whose list is built.  Broadcast uses "recv" as its buffer.*)
(***************************************************************************)
EXTENDS TaskLists

Relative(c, p) == RankSub(c.n, p, c.root)
Absolute(c, r) == RankAdd(c.n, r, c.root)
Parent(c, p) == RankSub(c.n, p, LowBit(Relative(c, p)))

(* Ceiling division: the share of each rank of a scattered broadcast. *)
Share(c) == (c.count + c.n - 1) \div c.n

-----------------------------------------------------------------------------
(* Mutant: a receive lets the sends to the children start with it. *)
BinomialEagerly(c, p, b, buffer, off, len) ==
  LET got == IF p = c.root THEN b
             ELSE ThenGoOn(b, Irecv(Region(buffer, off, len), Parent(c, p)))
  IN FoldLeft(LAMBDA acc, d : ThenGoOn(acc, Isend(Region(buffer, off, len), RankAdd(c.n, p, d))),
              got, Descending(ChildCount(Relative(c, p), c.n)))

(* Receive from the parent, then send to all children at once. *)
Binomial(c, p, b, buffer, off, len) ==
  LET got == IF p = c.root THEN b
             ELSE ThenWait(b, Irecv(Region(buffer, off, len), Parent(c, p)))
  IN FoldLeft(LAMBDA acc, d : ThenGoOn(acc, Isend(Region(buffer, off, len), RankAdd(c.n, p, d))),
              got, Descending(ChildCount(Relative(c, p), c.n)))

(* A binomial broadcast for each chunk; a receive also starts the next one. *)
Chunked(c, p, b, buffer) ==
  LET chunks == (c.count + c.chunk - 1) \div c.chunk
      Chunk(acc, k) ==
        LET off == (k - 1) * c.chunk
            next == Binomial(c, p, acc, buffer, off, Smaller(c.chunk, c.count - off))
        IN IF k = chunks \/ p = c.root THEN next
           ELSE From(next, Len(acc.tasks) + 1, "onInit")
  IN FoldLeft(Chunk, b, [k \in 1 .. chunks |-> k])

(* Mutant: a rank asks for its own share only, not for those of its subtree. *)
ScatteredAlone(c, r) ==
  IF r = 0 THEN c.count
  ELSE IF c.count < r * Share(c) THEN 0
  ELSE Smaller(c.count - r * Share(c), Share(c))

(* What rank r holds after the scatter, from its own share on. *)
Scattered(c, r) ==
  IF r = 0 THEN c.count
  ELSE IF c.count < r * Share(c) THEN 0
  ELSE Smaller(c.count - r * Share(c), TreeSize(r, c.n) * Share(c))

ScatterBcast(c, p, b, buffer) ==
  LET r == Relative(c, p)
      held == Scattered(c, r)
      Part(d) == IF held < Share(c) * d THEN 0
                 ELSE Smaller(held - Share(c) * d, TreeSize(r + d, c.n) * Share(c))
      got == IF r = 0 THEN b
             ELSE ThenWait(b, Irecv(Region(buffer, r * Share(c), held), Parent(c, p)))
  IN FoldLeft(LAMBDA acc, d :
                ThenGoOn(acc, Isend(Region(buffer, (r + d) * Share(c), Part(d)), RankAdd(c.n, p, d))),
              got, Descending(ChildCount(r, c.n)))

ShareRegion(c, buffer, k) ==
  LET off == Smaller(k * Share(c), c.count)
  IN Region(buffer, off, Smaller(Share(c), c.count - off))

InTree(k, r, n) == r <= k /\ k < r + TreeSize(r, n)

(***************************************************************************)
(* The ring: all receives start at once, each send when the share it       *)
(* passes on is there.  A share that the scatter left in the receiver's    *)
(* subtree is not sent again: both sides put a no-op in its place.         *)
(***************************************************************************)
RingBcast(c, p, b, buffer) ==
  LET r == Relative(c, p)
      rightR == RankAdd(c.n, r, 1)
      Step(acc, i) ==
        LET here == RankSub(c.n, r, i - 1)
            next == RankSub(c.n, r, i)
            k == Len(acc.tasks) + 1
            send == IF InTree(here, rightR, c.n) THEN NoOp
                    ELSE Isend(ShareRegion(c, buffer, here), RankAdd(c.n, p, 1))
            recv == IF InTree(next, r, c.n) THEN NoOp
                    ELSE Irecv(ShareRegion(c, buffer, next), RankSub(c.n, p, 1))
        IN Beside(ThenWait(acc, [send EXCEPT !.onInit = IF i = 1 THEN k + 1 ELSE None]),
                  [recv EXCEPT !.onInit = IF i < c.n - 1 THEN k + 3 ELSE None])
  IN FoldLeft(Step, b, [i \in 1 .. c.n - 1 |-> i])

(* Noncontiguous data is packed at the root and unpacked elsewhere. *)
Ibcast(c, p) ==
  LET buffer == IF c.contig THEN "recv" ELSE "tmp"
      whole(b) == Region(b, 0, c.count)
      start == ThenIf(~c.contig /\ p = c.root, Empty, LocalCopy(whole("recv"), whole("tmp")))
      body == CASE c.alg = "chunked" -> Chunked(c, p, start, buffer)
                [] c.alg = "binomial" -> Binomial(c, p, start, buffer, 0, c.count)
                [] c.alg = "ring" -> RingBcast(c, p, ScatterBcast(c, p, start, buffer), buffer)
  IN ThenIf(~c.contig /\ p # c.root, body, LocalCopy(whole("tmp"), whole("recv"))).tasks

-----------------------------------------------------------------------------
(***************************************************************************)
(* The blocking broadcast of long messages.  Ranks without data take no    *)
(* part in the scatter; receives may be posted for more than is sent.      *)
(***************************************************************************)
BlockingScatter(c, p) ==
  LET r == Relative(c, p)
      held == Scattered(c, r)
      rest == c.count - r * Share(c)
      Part(d) == Smaller(held, TreeSize(r, c.n) * Share(c)) - Share(c) * d
      Sent(d) == IF Part(d) <= 0 THEN 0 ELSE Smaller(Part(d), Share(c) * d)
      got == IF r = 0 \/ rest <= 0 THEN Empty
             ELSE ThenWait(Empty, Irecv(Region("recv", r * Share(c), rest), Parent(c, p)))
      children == SelectSeq(Descending(ChildCount(r, c.n)), LAMBDA d : Sent(d) > 0)
  IN WaitAll(FoldLeft(LAMBDA acc, d :
       ThenGoOn(acc, Isend(Region("recv", (r + d) * Share(c), Sent(d)), RankAdd(c.n, p, d))),
       got, children))

(* Recursive doubling, for a power of two of ranks: pairs swap what they have. *)
DoublingBcast(c, p) ==
  LET r == Relative(c, p)
      Tree(k, d) == k - (k % d)
      Held(k, d) == Smaller(c.count, (Tree(k, d) + d) * Share(c))
                      - Smaller(c.count, Tree(k, d) * Share(c))
      Offset(k, d) == Smaller(c.count, Tree(k, d) * Share(c))
      Step(acc, d) ==
        LET peer == Flip(r, d) IN
        Sendrecv(acc,
          Isend(Region("recv", Offset(r, d), Held(r, d)), Absolute(c, peer)),
          Irecv(Region("recv", Offset(peer, d), c.count - Offset(peer, d)), Absolute(c, peer)))
  IN FoldLeft(Step, BlockingScatter(c, p), Ascending(Log2Floor(c.n))).tasks

(* The ring of the blocking broadcast sends every share all the way round. *)
BlockingRingBcast(c, p) ==
  LET r == Relative(c, p)
      Step(acc, i) ==
        Sendrecv(acc,
          Isend(ShareRegion(c, "recv", RankSub(c.n, r, i - 1)), RankAdd(c.n, p, 1)),
          Irecv(ShareRegion(c, "recv", RankSub(c.n, r, i)), RankSub(c.n, p, 1)))
  IN FoldLeft(Step, BlockingScatter(c, p), [i \in 1 .. c.n - 1 |-> i]).tasks

-----------------------------------------------------------------------------
(***************************************************************************)
(* Gather and scatter over the binomial tree.  Small blocks are collected  *)
(* in the temporary buffer, the own one first; of large ones, the own      *)
(* block stays where it is and the others are in the temporary buffer.     *)
(***************************************************************************)
Blocks(c, b, i, k) == Region(b, i * c.count, k * c.count)

(* k blocks from rank i on, which may wrap round to rank 0. *)
Wrapped(c, b, i, k) ==
  IF i + k <= c.n THEN Blocks(c, b, i, k)
  ELSE Blocks(c, b, i, c.n - i) \o Blocks(c, b, 0, i + k - c.n)

Tree(c, r) == TreeSize(r, c.n)
Wraps(c, d) == Absolute(c, d) + Tree(c, d) > c.n

(* "oneByOne": a child's receive is complete before the next one is posted. *)
Gather(c, p, oneByOne) ==
  LET r == Relative(c, p)
      children == Ascending(ChildCount(r, c.n))
      ChildBlocks(d) ==
        CASE p # c.root -> Blocks(c, "tmp", IF c.small THEN d ELSE d - 1, Tree(c, r + d))
          [] p = c.root /\ Wraps(c, d) /\ c.small -> Blocks(c, "tmp", 0, Tree(c, d))
          [] OTHER -> Wrapped(c, "recv", Absolute(c, d), Tree(c, d))
      own == CASE p = c.root /\ ~c.inPlace ->
                    ThenWait(Empty, LocalCopy(Blocks(c, "send", 0, 1), Blocks(c, "recv", p, 1)))
               [] p # c.root /\ c.small /\ Tree(c, r) > 1 ->
                    ThenWait(Empty, LocalCopy(Blocks(c, "send", 0, 1), Blocks(c, "tmp", 0, 1)))
               [] OTHER -> Empty
      Collect(b, d) ==
        LET recv == Irecv(ChildBlocks(d), RankAdd(c.n, p, d))
        IN IF oneByOne THEN ThenWait(b, recv) ELSE ThenGoOn(b, recv)
      received == WaitAll(FoldLeft(Collect, own, children))
      all == CASE Tree(c, r) = 1 -> Blocks(c, "send", 0, 1)
               [] Tree(c, r) > 1 /\ c.small -> Blocks(c, "tmp", 0, Tree(c, r))
               [] OTHER -> Blocks(c, "send", 0, 1) \o Blocks(c, "tmp", 0, Tree(c, r) - 1)
      wrapping == {d \in ToSet(children) : Wraps(c, d)}
  IN IF p # c.root THEN ThenGoOn(received, Isend(all, Parent(c, p))).tasks
     ELSE IF ~c.small \/ wrapping = {} THEN received.tasks
     ELSE LET d == CHOOSE d \in wrapping : TRUE
              at == Absolute(c, d)
          IN ThenWait(ThenWait(received,
                LocalCopy(Blocks(c, "tmp", 0, c.n - at), Blocks(c, "recv", at, c.n - at))),
                LocalCopy(Blocks(c, "tmp", c.n - at, Tree(c, d) + at - c.n),
                          Blocks(c, "recv", 0, Tree(c, d) + at - c.n))).tasks

(* All receives are posted at once, or one after the other. *)
Igather(c, p) == Gather(c, p, FALSE)
BlockingGather(c, p) == Gather(c, p, TRUE)

(***************************************************************************)
(* The root of a small scatter whose blocks wrap rotates them first.       *)
(***************************************************************************)
Iscatter(c, p) ==
  LET r == Relative(c, p)
      children == Descending(ChildCount(r, c.n))
      rotates == c.small /\ \E d \in ToSet(children) : Wraps(c, d)
      rotated == ThenWait(ThenWait(Empty,
        LocalCopy(Blocks(c, "send", p + 1, c.n - p - 1), Blocks(c, "tmp", 0, c.n - p - 1))),
        LocalCopy(Blocks(c, "send", 0, p), Blocks(c, "tmp", c.n - p - 1, p)))
      all == CASE Tree(c, r) = 1 -> Blocks(c, "recv", 0, 1)
               [] Tree(c, r) > 1 /\ c.small -> Blocks(c, "tmp", 0, Tree(c, r))
               [] OTHER -> Blocks(c, "recv", 0, 1) \o Blocks(c, "tmp", 0, Tree(c, r) - 1)
      start == CASE p # c.root -> ThenWait(Empty, Irecv(all, Parent(c, p)))
                 [] p = c.root /\ rotates -> rotated
                 [] OTHER -> Empty
      ChildBlocks(d) ==
        CASE p # c.root -> Blocks(c, "tmp", IF c.small THEN d ELSE d - 1, Tree(c, r + d))
          [] p = c.root /\ rotates -> Blocks(c, "tmp", d - 1, Tree(c, d))
          [] OTHER -> Wrapped(c, "send", Absolute(c, d), Tree(c, d))
      sent == FoldLeft(LAMBDA b, d : ThenGoOn(b, Isend(ChildBlocks(d), RankAdd(c.n, p, d))), start, children)
  IN CASE p = c.root -> ThenIf(~c.inPlace, sent, LocalCopy(Blocks(c, "send", p, 1), Blocks(c, "recv", 0, 1))).tasks
       [] p # c.root -> ThenIf(c.small /\ children # <<>>, sent,
                               LocalCopy(Blocks(c, "tmp", 0, 1), Blocks(c, "recv", 0, 1))).tasks

-----------------------------------------------------------------------------
(* Gatherv and scatterv: the root exchanges with everyone who has elements. *)
Disp(c, k) == FoldLeft(+, 0, SubSeq(c.counts, 1, k))
Part(c, b, k) == Region(b, Disp(c, k), c.counts[k + 1])

(* Mutant: ranks without elements are not left out. *)
OthersAll(c) == SelectSeq([i \in 1 .. c.n |-> i - 1], LAMBDA k : k # c.root)

Others(c) == SelectSeq([i \in 1 .. c.n |-> i - 1], LAMBDA k : k # c.root /\ c.counts[k + 1] > 0)

Igatherv(c, p) ==
  LET mine == Region("send", 0, c.counts[p + 1])
      own == ThenIf(~c.inPlace /\ c.counts[p + 1] > 0, Empty, LocalCopy(mine, Part(c, "recv", p)))
  IN IF p = c.root
     THEN FoldLeft(LAMBDA b, k : ThenGoOn(b, Irecv(Part(c, "recv", k), k)), own, Others(c)).tasks
     ELSE ThenIf(c.counts[p + 1] > 0, Empty, Isend(mine, c.root)).tasks

Iscatterv(c, p) ==
  LET mine == Region("recv", 0, c.counts[p + 1])
      own == ThenIf(~c.inPlace /\ c.counts[p + 1] > 0, Empty, LocalCopy(Part(c, "send", p), mine))
  IN IF p = c.root
     THEN FoldLeft(LAMBDA b, k : ThenGoOn(b, Isend(Part(c, "send", k), k)), own, Others(c)).tasks
     ELSE ThenIf(c.counts[p + 1] > 0, Empty, Irecv(mine, c.root)).tasks
==============================================================================
