------------------------------ MODULE Builders ------------------------------
(***************************************************************************)
(* Which builder makes the list of a rank for a call, by the algorithm     *)
(* that the size, the number of ranks, the operation and the switches of   *)
(* the environment select.                                                 *)
(***************************************************************************)
EXTENDS RootedTasks

R == INSTANCE ReductionTasks
X == INSTANCE ExchangeTasks
B == INSTANCE BlockingTasks

(* What rank p does in a blocking call. *)
BuildBlocking(c, p) ==
  LET other == CHOOSE g \in Range(c.groups) : c.root \notin Range(g)
      in == IF p = c.root /\ c.inPlace THEN "recv" ELSE "send"
  IN CASE c.alg = "blocking_barrier" -> B!BarrierFlat(c, p)
       [] c.alg = "ha_barrier" -> B!BarrierHA(c, p)
       [] c.alg = "inter_barrier" -> B!BarrierInter(c, p)
       [] c.alg = "blocking_bcast" -> B!BcastImpl(c, p)
       [] c.alg = "ha_bcast" -> B!BcastHA(c, p)
       [] c.alg = "inter_bcast" -> B!BcastInter(c, p, Empty, c.root, other)
       [] c.alg = "blocking_reduce" -> B!ReduceFlat(c, p, in, "recv")
       [] c.alg = "ha_reduce" -> B!ReduceHA(c, p)
       [] c.alg = "inter_reduce" -> B!ReduceInter(c, p, Empty, other, c.root, "recv")
       [] c.alg = "blocking_allreduce" -> B!AllreduceFlat(c, p)
       [] c.alg = "ha_allreduce" -> B!AllreduceHA(c, p)
       [] c.alg = "inter_allreduce" -> B!AllreduceInter(c, p)
       [] c.alg = "blocking_redscat_short" -> B!ReduceScatterShort(c, p)
       [] c.alg = "blocking_redscat_long" -> B!ReduceScatterLong(c, p)
       [] c.alg = "blocking_allgather" -> B!AllgatherFlat(c, p)
       [] c.alg = "blocking_allgatherv" -> B!AllgathervFlat(c, p)

(* The task list of rank p: which builder the switches of the call choose. *)
Build(c, p) ==
  CASE c.alg \in {"chunked", "binomial", "ring"} -> Ibcast(c, p)
    [] c.alg = "gather" -> Igather(c, p)
    [] c.alg = "gather_blocking" -> BlockingGather(c, p)
    [] c.alg = "scatter" -> Iscatter(c, p)
    [] c.alg = "gatherv" -> Igatherv(c, p)
    [] c.alg = "scatterv" -> Iscatterv(c, p)
    [] c.alg = "reduce_binomial" -> R!IreduceBinomial(c, p)
    [] c.alg = "reduce_long" -> R!IreduceScatterGather(c, p)
    [] c.alg \in {"allreduce_short", "allreduce_long"} -> R!Iallreduce(c, p)
    [] c.alg \in {"scan", "exscan"} -> R!Iscan(c, p)
    [] c.alg = "redscat_short" -> R!IreduceScatterShort(c, p)
    [] c.alg = "redscat_long" -> R!IreduceScatterLong(c, p)
    [] c.alg = "redscat_noncommutative" -> R!IreduceScatterNonCommutative(c, p)
    [] c.alg = "barrier" -> X!Ibarrier(c, p)
    [] c.alg = "allgather_doubling" -> X!IallgatherDoubling(c, p)
    [] c.alg = "allgather_bruck" -> X!IallgatherBruck(c, p)
    [] c.alg = "allgather_ring" -> X!IallgatherRing(c, p)
    [] c.alg = "allgatherv_doubling" -> X!IallgathervDoubling(c, p)
    [] c.alg = "allgatherv_bruck" -> X!IallgathervBruck(c, p)
    [] c.alg = "allgatherv_ring" -> X!IallgathervRing(c, p)
    [] c.alg = "alltoall_inplace" -> X!IalltoallInPlace(c, p)
    [] c.alg = "alltoall_bruck" -> X!IalltoallBruck(c, p)
    [] c.alg = "alltoall_medium" -> X!IalltoallMedium(c, p)
    [] c.alg = "alltoall_long" -> X!IalltoallLong(c, p)
    [] c.alg = "alltoallv_inplace" -> X!IalltoallvInPlace(c, p)
    [] c.alg = "alltoallv_pairwise" -> X!IalltoallvPairwise(c, p)
    [] c.alg = "alltoallv_bruck" -> X!IalltoallvBruck(c, p)
    [] c.alg = "alltoall_inter" -> X!IalltoallInter(c, p)
    [] OTHER -> BuildBlocking(c, p).tasks
==============================================================================
