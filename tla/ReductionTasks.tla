--------------------------- MODULE ReductionTasks ---------------------------
(***************************************************************************)
(* Reduce, allreduce, reduce-scatter and scan (mpid/reduce.cpp).  "acc" is *)
(* the buffer a rank accumulates in and "tmp" the one it receives in; a    *)
(* copy that the code makes before it starts the list is the first task.   *)
(***************************************************************************)
EXTENDS TaskLists

Whole(c, b) == Region(b, 0, c.count)
Pof2(c) == PowerOf2Floor(c.n)
Rem(c) == c.n - Pof2(c)

TrimmedToOriginalRankEven(rem, r) == IF r < rem THEN 2 * r ELSE r + rem
TrimmedToOriginalRankOdd(rem, r) == IF r < rem THEN 2 * r + 1 ELSE r + rem

(* The bits of a rank below the power of two, in reverse order. *)
TranslateScatterGatherRank(n, r) ==
  FoldLeft(LAMBDA acc, k : 2 * acc + ((r \div 2 ^ (k - 1)) % 2), 0,
           [k \in 1 .. Log2Floor(n) |-> k])

(* Where rank p accumulates, after its own contribution is copied there. *)
Acc(c, p) == IF p = c.root THEN "recv" ELSE "acc"
Contribute(c, p, buffer) ==
  IF buffer = "recv" /\ c.inPlace THEN Empty
  ELSE ThenWait(Empty, LocalCopy(Whole(c, "send"), Whole(c, buffer)))

-----------------------------------------------------------------------------
(***************************************************************************)
(* The binomial reduce.  An operation that does not commute is reduced to  *)
(* rank 0, which then sends the result to the root.                        *)
(***************************************************************************)
IreduceBinomial(c, p) ==
  LET localRoot == IF c.commutes THEN c.root ELSE 0
      r == RankSub(c.n, p, localRoot)
      acc == Whole(c, Acc(c, p))
      Child(b, d) ==
        ThenWait(ThenWait(b, Irecv(Whole(c, "tmp"), RankAdd(c.n, p, d))),
                 Reduce(Whole(c, "tmp"), acc, FALSE))
      reduced == FoldLeft(Child, Contribute(c, p, Acc(c, p)), Ascending(ChildCount(r, c.n)))
      sent == IF r = 0 THEN reduced
              ELSE ThenGoOn(reduced, Isend(acc, RankSub(c.n, p, LowBit(r))))
  IN (CASE localRoot = c.root -> sent
        [] p = 0 /\ localRoot # c.root -> ThenGoOn(sent, Isend(acc, c.root))
        [] p = c.root /\ localRoot # c.root -> ThenWait(sent, Irecv(acc, 0))
        [] OTHER -> sent).tasks

(* Shares i to j - 1 of the pof2 equal ones; the last also has what remains. *)
Shares(c, buffer, i, j) ==
  LET q == c.count \div Pof2(c)
  IN Region(buffer, i * q, (j - i) * q + IF j = Pof2(c) THEN c.count % Pof2(c) ELSE 0)

(***************************************************************************)
(* Recursive halving: in each step a rank sends the half of its shares     *)
(* that the peer keeps and reduces the peer's contribution to its own.     *)
(* original[k] is the rank of the k-th that takes part, and how says how   *)
(* the two messages of a step are chained.                                 *)
(***************************************************************************)
Halving(c, p, b, acc, new, original, how) ==
  LET Step(s, d) ==
        LET peer == Flip(new, d)
            low == new < peer
            send == IF low THEN s.recv + s.shift ELSE s.send
            recv == IF low THEN s.recv ELSE s.send + s.shift
            kept == IF low THEN Shares(c, acc, recv, send) ELSE Shares(c, acc, recv, s.last)
            given == IF low THEN Shares(c, acc, send, s.last) ELSE Shares(c, acc, send, recv)
            scratch == Region("tmp", 0, Length(kept))
        IN [b |-> ThenWait(Meet(how, s.b, Isend(given, original[peer]),
                                          Irecv(scratch, original[peer])),
                           Reduce(scratch, kept, original[peer] < p)),
            send |-> recv, recv |-> recv,
            last |-> IF 2 * d < Pof2(c) THEN recv + s.shift ELSE s.last,
            shift |-> IF 2 * d < Pof2(c) THEN s.shift \div 2 ELSE s.shift]
  IN FoldLeft(Step, [b |-> b, send |-> 0, recv |-> 0, last |-> Pof2(c), shift |-> Pof2(c) \div 2],
              Ascending(Log2Floor(c.n)))

(***************************************************************************)
(* Reduce by reduce-scatter and gather.  The odd ones of the first 2 * rem *)
(* relative ranks give their contribution to the rank before them and are  *)
(* done; the gather runs over the scatter's ranks with their bits reversed.*)
(***************************************************************************)
IreduceScatterGather(c, p) ==
  LET r == RankSub(c.n, p, c.root)
      new == IF r < 2 * Rem(c) THEN r \div 2 ELSE r - Rem(c)
      g == TranslateScatterGatherRank(Pof2(c), new)
      acc == Acc(c, p)
      start == Contribute(c, p, acc)
      taken == IF r >= 2 * Rem(c) THEN start
               ELSE ThenWait(ThenWait(start, Irecv(Whole(c, "tmp"), RankAdd(c.n, p, 1))),
                             Reduce(Whole(c, "tmp"), Whole(c, acc), FALSE))
      Original(k) == RankAdd(c.n, TrimmedToOriginalRankEven(Rem(c), k), c.root)
      Gatherer(k) == Original(TranslateScatterGatherRank(Pof2(c), k))
      scattered == Halving(c, p, taken, acc, new, [k \in 0 .. Pof2(c) - 1 |-> Original(k)], "trade").b
      gathered ==
        WaitAll(FoldLeft(LAMBDA b, d :
                   ThenGoOn(b, Irecv(Shares(c, acc, g + d, g + 2 * d), Gatherer(g + d))),
                   scattered, Ascending(ChildCount(g, Pof2(c)))))
  IN (IF r < 2 * Rem(c) /\ r % 2 = 1
      THEN ThenWait(start, Isend(Whole(c, acc), RankSub(c.n, p, 1)))
      ELSE IF g = 0 THEN gathered
      ELSE ThenGoOn(gathered, Isend(Shares(c, acc, g, g + TreeSize(g, Pof2(c))),
                                    Gatherer(g - LowBit(g))))).tasks

-----------------------------------------------------------------------------
(* Recursive doubling: pairs swap all they have; the send's end reduces. *)
Doubling(c, p, b, new, original) ==
  LET Step(acc, d) ==
        LET peer == original[Flip(new, d)]
        IN ThenWait(Sendrecv(acc, Isend(Whole(c, "recv"), peer), Irecv(Whole(c, "tmp"), peer)),
                    Reduce(Whole(c, "tmp"), Whole(c, "recv"), peer < p))
  IN FoldLeft(Step, b, Ascending(Log2Floor(c.n)))

(* Recursive halving and its way back, with the shares instead of their sums. *)
HalvingAndBack(c, p, b, new, original, how, back) ==
  LET Back(s, d) ==
        LET low == new < Flip(new, d)
            last == IF low /\ d # Pof2(c) \div 2 THEN s.last + s.shift ELSE s.last
            other == IF low THEN s.send + s.shift ELSE s.send - s.shift
            given == IF low THEN Shares(c, "recv", s.send, other)
                     ELSE Shares(c, "recv", s.send, last)
            got == IF low THEN Shares(c, "recv", other, last)
                   ELSE Shares(c, "recv", other, s.send)
        IN [s EXCEPT !.b = Meet(back, @, Isend(given, original[Flip(new, d)]),
                                         Irecv(got, original[Flip(new, d)])),
                     !.last = last, !.shift = 2 * @,
                     !.send = IF low THEN @ ELSE other]
  IN FoldLeft(Back, Halving(c, p, b, "recv", new, original, how),
              Descending(Log2Floor(c.n))).b

(***************************************************************************)
(* Allreduce: the even ones of the first 2 * rem ranks give their          *)
(* contribution to the next rank and get the result from it.  The          *)
(* nonblocking and the blocking one differ in how messages are chained.    *)
(***************************************************************************)
Allreduce(c, p, how, back) ==
  LET paired == p < 2 * Rem(c)
      new == IF paired THEN p \div 2 ELSE p - Rem(c)
      original == [k \in 0 .. Pof2(c) - 1 |-> TrimmedToOriginalRankOdd(Rem(c), k)]
      all == Whole(c, "recv")
      start == Contribute(c, p, "recv")
      taken == IF ~paired THEN start
               ELSE ThenWait(ThenWait(start, Irecv(Whole(c, "tmp"), p - 1)),
                             Reduce(Whole(c, "tmp"), all, TRUE))
      done == IF c.alg = "allreduce_long" THEN HalvingAndBack(c, p, taken, new, original, how, back)
              ELSE Doubling(c, p, taken, new, original)
  IN (IF paired /\ p % 2 = 0
      THEN ThenWait(ThenWait(start, Isend(all, p + 1)), Irecv(all, p + 1))
      ELSE IF paired THEN ThenWait(done, Isend(all, p - 1))
      ELSE done)

Iallreduce(c, p) == Allreduce(c, p, "trade", "exchange").tasks

-----------------------------------------------------------------------------
(***************************************************************************)
(* Scan and exscan by recursive doubling; a rank's last step only sends to *)
(* a higher peer and only receives from a lower one.                       *)
(***************************************************************************)
Iscan(c, p) ==
  LET exclusive == c.alg = "exscan"
      own == IF c.inPlace THEN "recv" ELSE "send"
      start == ThenWait(IF exclusive \/ c.inPlace THEN Empty
                        ELSE ThenWait(Empty, LocalCopy(Whole(c, own), Whole(c, "recv"))),
                        LocalCopy(Whole(c, own), Whole(c, "acc")))
      Step(b, d) ==
        LET peer == Flip(p, d)
            last == 2 * d >= c.n
            recv == Irecv(Whole(c, "tmp"), peer)
            send == Isend(Whole(c, "acc"), peer)
            scan == Scan(Whole(c, "tmp"), Whole(c, "acc"), Whole(c, "recv"), p > peer,
                         exclusive /\ p > peer /\ d = LowBit(p))
        IN CASE peer >= c.n -> b
             [] peer < c.n /\ ~last -> ThenWait(ThenWait(ThenGoOn(b, recv), send), scan)
             [] peer < c.n /\ last /\ p < peer -> ThenWait(b, send)
             [] peer < c.n /\ last /\ p > peer -> ThenWait(ThenWait(b, recv), scan)
  IN FoldLeft(Step, start, Ascending(Log2Ceiling(c.n))).tasks

-----------------------------------------------------------------------------
(* Reduce-scatter: rank k gets counts[k + 1] elements of the result. *)
Disp(c, k) == FoldLeft(+, 0, SubSeq(c.counts, 1, k))
Blocks(c, buffer, i, j) == Region(buffer, Disp(c, i), Disp(c, j) - Disp(c, i))
OrNoOp(task) == IF Length(task.src) + Length(task.dst) = 0 THEN NoOp ELSE task

Result(c, p) == Region("recv", 0, c.counts[p + 1])
CopyIn(c) ==
  ThenWait(Empty, LocalCopy(Whole(c, IF c.inPlace THEN "recv" ELSE "send"), Whole(c, "acc")))

(***************************************************************************)
(* Recursive halving over whole blocks, for short messages: a pair of the  *)
(* first 2 * rem ranks acts as one, its odd rank for both.                 *)
(***************************************************************************)
ReduceScatterHalving(c, p, how) ==
  LET paired == p < 2 * Rem(c)
      new == IF paired THEN p \div 2 ELSE p - Rem(c)
      First(k) == IF k < Rem(c) THEN 2 * k ELSE k + Rem(c)
      New(buffer, i, j) == Blocks(c, buffer, First(i), First(j))
      taken == IF ~paired THEN CopyIn(c)
               ELSE ThenWait(ThenWait(CopyIn(c), Irecv(Whole(c, "tmp"), p - 1)),
                             Reduce(Whole(c, "tmp"), Whole(c, "acc"), TRUE))
      Step(s, d) ==
        LET peer == TrimmedToOriginalRankOdd(Rem(c), Flip(new, d))
            low == new < Flip(new, d)
            send == IF low THEN s.recv + d ELSE s.send
            recv == IF low THEN s.recv ELSE s.send + d
            Kept(buffer) == New(buffer, recv, IF low THEN send ELSE s.last)
            given == New("acc", send, IF low THEN s.last ELSE recv)
        IN [b |-> Do(how, Meet(how, s.b, OrNoOp(Isend(given, peer)),
                                       OrNoOp(Irecv(Kept("tmp"), peer))),
                          OrNoOp(Reduce(Kept("tmp"), Kept("acc"), peer < p))),
            send |-> recv, recv |-> recv, last |-> recv + d]
      halved == FoldLeft(Step, [b |-> taken, send |-> 0, recv |-> 0, last |-> Pof2(c)],
                         Descending(Log2Floor(c.n))).b
      done == Do(how, halved, OrNoOp(LocalCopy(Blocks(c, "acc", p, p + 1), Result(c, p))))
  IN IF paired THEN Do(how, done, OrNoOp(Isend(Blocks(c, "acc", p - 1, p), p - 1))) ELSE done

(* The even rank of a pair. *)
IsGuest(c, p) == p < 2 * Rem(c) /\ p % 2 = 0

(* What a rank has nothing of is replaced by a no-op. *)
IreduceScatterShort(c, p) ==
  (IF IsGuest(c, p)
   THEN ThenWait(ThenGoOn(CopyIn(c), Isend(Whole(c, "acc"), p + 1)), OrNoOp(Irecv(Result(c, p), p + 1)))
   ELSE ReduceScatterHalving(c, p, "trade")).tasks

(* Mutant: no send holds up the list. *)
HoldsNever(c, p, dst) == FALSE

(* In place, the send to rank 0 does: the result will be copied over its block. *)
Holds(c, p, dst) == c.inPlace /\ dst = 0 /\ c.counts[dst + 1] > 0 /\ c.counts[p + 1] > 0

(***************************************************************************)
(* Pairwise exchange, for long messages.                                   *)
(***************************************************************************)
IreduceScatterLong(c, p) ==
  LET input == IF c.inPlace THEN "recv" ELSE "send"
      own == IF c.inPlace THEN Blocks(c, "recv", p, p + 1) ELSE Result(c, p)
      scratch == Region("tmp", 0, c.counts[p + 1])
      start == IF c.inPlace \/ c.counts[p + 1] = 0 THEN Empty
               ELSE ThenWait(Empty, LocalCopy(Blocks(c, "send", p, p + 1), own))
      Step(b, i) ==
        LET src == RankSub(c.n, p, i)
            dst == RankAdd(c.n, p, i)
            recv == OrNoOp(Irecv(scratch, src))
            send == OrNoOp(Isend(Blocks(c, input, dst, dst + 1), dst))
        IN ThenWait(IF Holds(c, p, dst) THEN Sendrecv(b, send, recv) ELSE Trade(b, send, recv),
                    OrNoOp(Reduce(scratch, own, src < p)))
      exchanged == FoldLeft(Step, start, [i \in 1 .. c.n - 1 |-> i])
  IN ThenIf(c.inPlace /\ p # 0 /\ c.counts[p + 1] > 0, exchanged, LocalCopy(own, Result(c, p))).tasks

(***************************************************************************)
(* Recursive doubling, for an operation that does not commute: everything  *)
(* but the receiver's tree is sent.  Where the peer's tree is incomplete,  *)
(* the ranks that got its data pass it on within their own tree.           *)
(***************************************************************************)
IreduceScatterNonCommutative(c, p) ==
  LET Tree(k, d) == k - (k % d)
      Cap(k) == Smaller(k, c.n)
      AllBut(buffer, root, d) ==
        Blocks(c, buffer, 0, Cap(root)) \o Blocks(c, buffer, Cap(root + d), c.n)
      Step(b, d) ==
        LET peer == Flip(p, d)
            tree == Tree(peer, d)
            got == AllBut("tmp", tree, d)
            completed == c.n - Tree(p, d) - d
            met == IF peer >= c.n THEN b
                   ELSE ThenWait(ThenGoOn(b, Irecv(got, peer)), Isend(AllBut("acc", Tree(p, d), d), peer))
            Has(k, e) == k < Tree(p, 2 * e) + completed
            Pass(acc, e) ==
              LET other == Flip(p, e) IN
              IF other > p /\ Has(p, e) /\ ~Has(other, e) THEN ThenWait(acc, Isend(got, other))
              ELSE IF other < p /\ Has(other, e) /\ ~Has(p, e) THEN ThenWait(acc, Irecv(got, other))
              ELSE acc
            passed == IF tree + d <= c.n THEN met
                      ELSE FoldLeft(Pass, met, Descending(Log2Floor(d)))
            received == \E k \in Len(b.tasks) + 1 .. Len(passed.tasks) : passed.tasks[k].kind = "IRECV"
            mine == AllBut("acc", tree, d)
        IN IF ~received THEN passed
           ELSE ThenWait(ThenWait(passed, Reduce(<<got[1]>>, <<mine[1]>>, tree < Tree(p, d))),
                         Reduce(<<got[2]>>, <<mine[2]>>, tree < Tree(p, d)))
      done == FoldLeft(Step, CopyIn(c), Ascending(Log2Ceiling(c.n)))
  IN ThenIf(c.counts[p + 1] > 0, done, LocalCopy(Blocks(c, "acc", p, p + 1), Result(c, p))).tasks
==============================================================================
