---------------------------- MODULE ExchangeTasks ----------------------------
(***************************************************************************)
(* Barrier, allgather, allgatherv and alltoall over one communicator       *)
(* (mpid/barrier.cpp, gather.cpp, alltoall.cpp).  A block is count         *)
(* elements; for allgatherv, rank k contributes counts[k + 1] elements and *)
(* they are placed from displs[k + 1] on.                                  *)
(***************************************************************************)
EXTENDS TaskLists

Block(c, b, i, k) == Region(b, i * c.count, k * c.count)

(* A chain of tasks, each starting when the one before is complete. *)
Chain(b, tasks) == FoldLeft(ThenWait, b, tasks)

-----------------------------------------------------------------------------
(* Dissemination: in each round, a message from p - d and one to p + d. *)
Ibarrier(c, p) ==
  LET Round(b, d) == Trade(b, Isend(<<>>, RankAdd(c.n, p, d)), Irecv(<<>>, RankSub(c.n, p, d)))
  IN FoldLeft(Round, Empty, Ascending(Log2Ceiling(c.n))).tasks

-----------------------------------------------------------------------------
OwnBlock(c, p) == Block(c, "recv", p, 1)
CopyOwn(c, p) ==
  IF c.inPlace THEN Empty ELSE ThenWait(Empty, LocalCopy(Block(c, "send", 0, 1), OwnBlock(c, p)))

(* A receive has room for what will come, or up to the end of the buffer. *)
Room(r, end) == IF end = None THEN r ELSE Region(r[1].b, r[1].o, end - r[1].o)

(***************************************************************************)
(* For a power of two of ranks.  Nonblocking and blocking calls differ in  *)
(* how the two messages of a step are chained, and in the room that the    *)
(* receives have.                                                          *)
(***************************************************************************)
AllgatherDoubling(c, p, how, end) ==
  LET Step(b, d) ==
        LET peer == Flip(p, d)
        IN Meet(how, b, Isend(Block(c, "recv", p - (p % d), d), peer),
                        Irecv(Room(Block(c, "recv", peer - (peer % d), d), end), peer))
  IN FoldLeft(Step, CopyOwn(c, p), Ascending(Log2Floor(c.n)))

(* Everything is gathered from the own block on, and rotated at the end. *)
AllgatherBruck(c, p, how) ==
  LET own == IF c.inPlace THEN OwnBlock(c, p) ELSE Block(c, "send", 0, 1)
      pof2 == PowerOf2Floor(c.n)
      Step(b, d, k) ==
        Meet(how, b, Isend(Block(c, "tmp", 0, k), RankSub(c.n, p, d)),
                     Irecv(Block(c, "tmp", d, k), RankAdd(c.n, p, d)))
      doubled == FoldLeft(LAMBDA b, d : Step(b, d, d),
                          ThenWait(Empty, LocalCopy(own, Block(c, "tmp", 0, 1))),
                          Ascending(Log2Floor(c.n)))
      gathered == IF c.n = pof2 THEN doubled ELSE Step(doubled, pof2, c.n - pof2)
  IN ThenIf(p > 0,
       ThenWait(gathered, LocalCopy(Block(c, "tmp", 0, c.n - p), Block(c, "recv", p, c.n - p))),
       LocalCopy(Block(c, "tmp", c.n - p, p), Block(c, "recv", 0, p)))

AllgatherRing(c, p, how) ==
  LET Step(b, i) ==
        Meet(how, b, Isend(Block(c, "recv", RankSub(c.n, p, i - 1), 1), RankAdd(c.n, p, 1)),
                     Irecv(Block(c, "recv", RankSub(c.n, p, i), 1), RankSub(c.n, p, 1)))
  IN FoldLeft(Step, CopyOwn(c, p), [i \in 1 .. c.n - 1 |-> i])

IallgatherDoubling(c, p) == AllgatherDoubling(c, p, "exchange", None).tasks
IallgatherBruck(c, p) == AllgatherBruck(c, p, "exchange").tasks
IallgatherRing(c, p) == AllgatherRing(c, p, "exchange").tasks

-----------------------------------------------------------------------------
Placed(c, k) == Region("recv", c.displs[k + 1], c.counts[k + 1])

(* The elements of ranks i to j - 1, counted round from rank from. *)
CountFrom(c, from, k) ==
  FoldLeft(LAMBDA acc, i : acc + c.counts[RankAdd(c.n, from, i - 1) + 1], 0, [i \in 1 .. k |-> i])

OwnInput(c, p) == IF c.inPlace THEN Placed(c, p) ELSE Region("send", 0, c.counts[p + 1])

(* The blocks, packed in the order of their ranks from rank from on. *)
Packed(c, from, i, k) == Region("tmp", CountFrom(c, from, i), CountFrom(c, RankAdd(c.n, from, i), k))
Unpack(c, from, ranks) ==
  [i \in DOMAIN ranks |-> LocalCopy(Packed(c, from, RankSub(c.n, ranks[i], from), 1), Placed(c, ranks[i]))]

AllgathervDoubling(c, p, how, end) ==
  LET Step(b, d) ==
        LET peer == Flip(p, d)
        IN Meet(how, b, Isend(Packed(c, 0, p - (p % d), d), peer),
                        Irecv(Room(Packed(c, 0, peer - (peer % d), d), end), peer))
      gathered == FoldLeft(Step, ThenWait(Empty, LocalCopy(OwnInput(c, p), Packed(c, 0, p, 1))),
                           Ascending(Log2Floor(c.n)))
      ranks == SelectSeq([i \in 1 .. c.n |-> i - 1], LAMBDA k : ~c.inPlace \/ k # p)
  IN Chain(gathered, Unpack(c, 0, ranks))

AllgathervBruck(c, p, how, end) ==
  LET pof2 == PowerOf2Floor(c.n)
      Step(b, d, k) ==
        Meet(how, b, Isend(Packed(c, p, 0, k), RankSub(c.n, p, d)),
                     Irecv(Room(Packed(c, p, d, k), end), RankAdd(c.n, p, d)))
      doubled == FoldLeft(LAMBDA b, d : Step(b, d, d),
                          ThenWait(Empty, LocalCopy(OwnInput(c, p), Packed(c, p, 0, 1))),
                          Ascending(Log2Floor(c.n)))
      gathered == IF c.n = pof2 THEN doubled ELSE Step(doubled, pof2, c.n - pof2)
  IN Chain(gathered, Unpack(c, p, [i \in 1 .. c.n |-> RankAdd(c.n, p, i - 1)]))

AllgathervRing(c, p, how) ==
  LET start == IF c.inPlace THEN Empty ELSE ThenWait(Empty, LocalCopy(OwnInput(c, p), Placed(c, p)))
      Step(b, i) ==
        Meet(how, b, Isend(Placed(c, RankSub(c.n, p, i - 1)), RankAdd(c.n, p, 1)),
                     Irecv(Placed(c, RankSub(c.n, p, i)), RankSub(c.n, p, 1)))
  IN FoldLeft(Step, start, [i \in 1 .. c.n - 1 |-> i])

IallgathervDoubling(c, p) == AllgathervDoubling(c, p, "exchange", None).tasks
IallgathervBruck(c, p) == AllgathervBruck(c, p, "exchange", None).tasks
IallgathervRing(c, p) == AllgathervRing(c, p, "exchange").tasks

-----------------------------------------------------------------------------
(***************************************************************************)
(* In place: one peer after the other, in the order of the ranks; what is   *)
(* swapped with rank k is at[k].                                           *)
(***************************************************************************)
SwapInPlace(c, p, at) ==
  LET Step(b, k) ==
        LET scratch == Region("tmp", 0, Length(at[k]))
        IN ThenWait(Sendrecv(b, Isend(at[k], k), Irecv(scratch, k)), LocalCopy(scratch, at[k]))
  IN FoldLeft(Step, Empty, SelectSeq([i \in 1 .. c.n |-> i - 1], LAMBDA k : k # p))

IalltoallInPlace(c, p) == SwapInPlace(c, p, [k \in 0 .. c.n - 1 |-> Block(c, "recv", k, 1)]).tasks

(***************************************************************************)
(* Short messages: the blocks are rotated so that block i is for rank      *)
(* p + i, then every block whose number has bit d moves d ranks on, and at *)
(* last they are put in order, as they are then in reverse.                *)
(***************************************************************************)
IalltoallBruck(c, p) ==
  LET rotated ==
        ThenIf(p # 0,
          ThenWait(Empty, LocalCopy(Block(c, "send", p, c.n - p), Block(c, "recv", 0, c.n - p))),
          LocalCopy(Block(c, "send", 0, p), Block(c, "recv", c.n - p, p)))
      Moving(d) == FlattenSeq([i \in 1 .. c.n - 1 |->
                                 IF (i \div d) % 2 = 1 THEN Block(c, "recv", i, 1) ELSE <<>>])
      Step(b, d) ==
        LET pack == Region("tmp", 0, Length(Moving(d)))
        IN Sendrecv(ThenWait(b, LocalCopy(Moving(d), pack)),
                    Isend(pack, RankAdd(c.n, p, d)), Irecv(Moving(d), RankSub(c.n, p, d)))
      moved == FoldLeft(Step, rotated, Ascending(Log2Ceiling(c.n)))
      rest == c.n - p - 1
  IN Chain(moved,
       <<LocalCopy(Block(c, "recv", p + 1, rest), Block(c, "tmp", 0, rest)),
         LocalCopy(Block(c, "recv", 0, p + 1), Block(c, "tmp", rest, p + 1))>>
       \o [i \in 1 .. c.n |-> LocalCopy(Block(c, "tmp", i - 1, 1), Block(c, "recv", c.n - i, 1))]).tasks

CopySelf(c, p) == ThenWait(Empty, LocalCopy(Block(c, "send", p, 1), OwnBlock(c, p)))

(* All receives, then all sends. *)
IalltoallMedium(c, p) ==
  LET peers == [i \in 1 .. c.n - 1 |-> RankAdd(c.n, p, i)]
  IN FoldLeft(ThenGoOn, CopySelf(c, p),
       [i \in DOMAIN peers |-> Irecv(Block(c, "recv", peers[i], 1), peers[i])]
       \o [i \in DOMAIN peers |-> Isend(Block(c, "send", peers[i], 1), peers[i])]).tasks

Xor(c, a, b) ==
  FoldLeft(LAMBDA acc, d : IF (b \div d) % 2 = 1 THEN Flip(acc, d) ELSE acc,
           a, Ascending(Log2Ceiling(c.n)))

(* A receive and a send at a time; after every chunk pairs the list waits. *)
Pairwise(c, p, start, out, in) ==
  LET Step(b, i) ==
        LET paired == IsPowerOf2(c.n) /\ ~c.simplePair
            src == IF paired THEN Xor(c, p, i) ELSE RankSub(c.n, p, i)
            dst == IF paired THEN Xor(c, p, i) ELSE RankAdd(c.n, p, i)
        IN Then(ThenGoOn(b, Irecv(in[src], src)), Isend(out[dst], dst),
                IF i % c.chunk = 0 THEN "onComplete" ELSE "onInit")
  IN FoldLeft(Step, start, [i \in 1 .. c.n - 1 |-> i])

IalltoallLong(c, p) ==
  Pairwise(c, p, CopySelf(c, p), [q \in 0 .. c.n - 1 |-> Block(c, "send", q, 1)],
           [q \in 0 .. c.n - 1 |-> Block(c, "recv", q, 1)]).tasks

-----------------------------------------------------------------------------
(***************************************************************************)
(* Alltoallv and alltoallw: rank p sends c.matrix[p + 1][q + 1] elements   *)
(* to rank q.  What is sent is laid out in the order of the ranks, what is *)
(* received in reverse; in place, both are the same and the matrix is      *)
(* symmetric.                                                              *)
(***************************************************************************)
Count(c, p, q) == c.matrix[p + 1][q + 1]
Sdispl(c, p, q) == FoldLeft(LAMBDA acc, k : acc + Count(c, p, k - 1), 0, [k \in 1 .. q |-> k])
Rdispl(c, p, q) ==
  FoldLeft(LAMBDA acc, k : acc + Count(c, q + k, p), 0, [k \in 1 .. c.n - 1 - q |-> k])

SendTo(c, p, q) == Region("send", Sdispl(c, p, q), Count(c, p, q))
RecvFrom(c, p, q) == Region("recv", Rdispl(c, p, q), Count(c, q, p))

IalltoallvInPlace(c, p) == SwapInPlace(c, p, [k \in 0 .. c.n - 1 |-> RecvFrom(c, p, k)]).tasks

IalltoallvPairwise(c, p) ==
  Pairwise(c, p, ThenWait(Empty, LocalCopy(SendTo(c, p, p), RecvFrom(c, p, p))),
           [q \in 0 .. c.n - 1 |-> SendTo(c, p, q)], [q \in 0 .. c.n - 1 |-> RecvFrom(c, p, q)]).tasks

(* The largest number of elements that any two ranks exchange. *)
MaxCount(c) ==
  CHOOSE m \in UNION {Range(row) : row \in Range(c.matrix)} :
    \A row \in Range(c.matrix) : \A k \in Range(row) : k <= m

(***************************************************************************)
(* Bruck's algorithm with every block padded to the size of the largest.   *)
(* The temporary buffer has a section for each of the n blocks, and then   *)
(* room for the blocks of one step.                                        *)
(***************************************************************************)
IalltoallvBruck(c, p) ==
  LET m == MaxCount(c)
      Section(i, k) == Region("tmp", i * m, k)
      rotated == Chain(Empty, [i \in 1 .. c.n |->
        LocalCopy(SendTo(c, p, i - 1), Section(RankSub(c.n, i - 1, p), Count(c, p, i - 1)))])
      Moving(d) == FlattenSeq([i \in 1 .. c.n - 1 |->
                                 IF (i \div d) % 2 = 1 THEN Section(i, m) ELSE <<>>])
      Step(b, d) ==
        LET pack == Region("tmp", c.n * m, Length(Moving(d)))
        IN Sendrecv(ThenWait(b, LocalCopy(Moving(d), pack)),
                    Isend(pack, RankAdd(c.n, p, d)), Irecv(Moving(d), RankSub(c.n, p, d)))
      Origin(i) == RankSub(c.n, p, i - 1)
  IN Chain(FoldLeft(Step, rotated, Ascending(Log2Ceiling(c.n))),
           [i \in 1 .. c.n |->
              LocalCopy(Section(i - 1, Count(c, Origin(i), p)), RecvFrom(c, p, Origin(i)))]).tasks

(***************************************************************************)
(* Between the two groups of an intercommunicator: as many steps as the    *)
(* larger one has ranks.                                                   *)
(***************************************************************************)
IalltoallInter(c, p) ==
  LET mine == GroupOf(c, p)
      theirs == CHOOSE g \in Range(c.groups) : g # mine
      steps == IF Len(mine) > Len(theirs) THEN Len(mine) ELSE Len(theirs)
      Step(b, i) ==
        LET src == RankSub(steps, Place(mine, p), i - 1)
            dst == RankAdd(steps, Place(mine, p), i - 1)
            from == IF src < Len(theirs) THEN theirs[src + 1] ELSE p
            to == IF dst < Len(theirs) THEN theirs[dst + 1] ELSE p
            recv == IF from = p \/ Count(c, from, p) = 0 THEN NoOp ELSE Irecv(RecvFrom(c, p, from), from)
            send == IF to = p \/ Count(c, p, to) = 0 THEN NoOp ELSE Isend(SendTo(c, p, to), to)
        IN Sendrecv(b, send, recv)
  IN FoldLeft(Step, Empty, [i \in 1 .. steps |-> i]).tasks
==============================================================================
