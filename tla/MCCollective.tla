---------------------------- MODULE MCCollective ----------------------------
(***************************************************************************)
(* The calls the runs make: every modelled algorithm, for numbers of ranks that are *)
(* and are not powers of two, roots other than 0, and messages that are    *)
(* all rendezvous or eager up to a limit.                                  *)
(***************************************************************************)
EXTENDS Collective

Base(alg, kind, n, count) ==
  [alg |-> alg, kind |-> kind, n |-> n, root |-> 0, count |-> count,
   counts |-> [i \in 1 .. n |-> 0], displs |-> [i \in 1 .. n |-> 0],
   inPlace |-> FALSE, small |-> FALSE, commutes |-> TRUE, contig |-> TRUE,
   chunk |-> count + 1, simplePair |-> FALSE, eager |-> 0,
   long |-> FALSE, groups |-> <<>>, inter |-> FALSE, matrix |-> <<<<0>>>>]

Rooted(one, r) == [one EXCEPT !.root = r]
InPlace(one) == [one EXCEPT !.inPlace = TRUE]
Small(one) == [one EXCEPT !.small = TRUE]
EagerTo(one, k) == [one EXCEPT !.eager = k]
Ordered(one) == [one EXCEPT !.commutes = FALSE]
ChunkOf(one, k) == [one EXCEPT !.chunk = k]
Counts(one, counts) == [one EXCEPT !.counts = counts, !.count = FoldLeft(+, 0, counts)]

Long(one) == [one EXCEPT !.long = TRUE]
Nodes(one, groups) == [one EXCEPT !.groups = groups]
Between(one, groups) == [one EXCEPT !.groups = groups, !.inter = TRUE]
Matrix(one, matrix) == [one EXCEPT !.matrix = matrix]

Spread(one, counts, displs) == [Counts(one, counts) EXCEPT !.displs = displs]

Broadcasts ==
  <<Rooted(Base("binomial", "bcast", 6, 1), 2),
    Rooted(EagerTo(Base("binomial", "bcast", 5, 1), 1), 1),
    EagerTo(Rooted([Base("chunked", "bcast", 3, 3) EXCEPT !.contig = FALSE, !.chunk = 2], 1), 1),
    Rooted([Base("chunked", "bcast", 4, 3) EXCEPT !.chunk = 2], 3),
    Rooted([Base("ring", "bcast", 4, 4) EXCEPT !.contig = FALSE], 3),
    EagerTo(Rooted(Base("ring", "bcast", 4, 5), 2), 1),
    Rooted(Base("ring", "bcast", 4, 3), 1)>>

Gathers ==
  <<Rooted(Small(Base("gather", "gather", 5, 1)), 2),
    Rooted(Base("gather", "gather", 5, 1), 3),
    Rooted(InPlace(Base("gather", "gather", 4, 1)), 3),
    Rooted(EagerTo(Base("gather", "gather", 4, 2), 2), 1),
    Rooted(Base("gather_blocking", "gather", 4, 1), 1),
    Rooted(Small(Base("gather", "gather", 6, 1)), 5),
    Rooted(Small(Base("scatter", "scatter", 5, 1)), 3),
    Rooted(Base("scatter", "scatter", 5, 1), 2),
    Rooted(InPlace(Base("scatter", "scatter", 4, 2)), 1),
    Rooted(Counts(Base("gatherv", "gatherv", 3, 0), <<1, 0, 2>>), 2),
    Rooted(InPlace(Counts(Base("gatherv", "gatherv", 4, 0), <<1, 1, 0, 2>>)), 1),
    Rooted(Counts(Base("scatterv", "scatterv", 3, 0), <<1, 2, 0>>), 1),
    Rooted(InPlace(Counts(Base("scatterv", "scatterv", 4, 0), <<1, 2, 0, 1>>)), 3)>>

Reductions ==
  <<Rooted(Ordered(Base("reduce_binomial", "reduce", 4, 1)), 2),
    Rooted(InPlace(Base("reduce_binomial", "reduce", 5, 1)), 1),
    Rooted(Base("reduce_long", "reduce", 4, 5), 1),
    EagerTo(Rooted(Base("reduce_long", "reduce", 5, 4), 2), 2),
    Base("reduce_long", "reduce", 3, 2),
    Ordered(Base("allreduce_short", "allreduce", 3, 1)),
    Ordered(Base("allreduce_short", "allreduce", 5, 1)),
    EagerTo(InPlace(Ordered(Base("allreduce_short", "allreduce", 3, 1))), 1),
    Base("allreduce_long", "allreduce", 3, 3),
    Base("allreduce_long", "allreduce", 4, 4),
    Ordered(Base("scan", "scan", 4, 1)),
    EagerTo(InPlace(Ordered(Base("scan", "scan", 3, 1))), 1),
    Ordered(Base("exscan", "scan", 4, 1)),
    EagerTo(Ordered(Base("exscan", "scan", 3, 1)), 1),
    Counts(Base("redscat_short", "redscat", 3, 0), <<1, 0, 2>>),
    Counts(Base("redscat_short", "redscat", 4, 0), <<1, 1, 1, 1>>),
    Counts(Base("redscat_long", "redscat", 3, 0), <<2, 1, 1>>),
    Counts(Base("redscat_long", "redscat", 3, 0), <<0, 1, 2>>),
    Counts(InPlace(Base("redscat_long", "redscat", 3, 0)), <<1, 1, 1>>),
    Ordered(Counts(Base("redscat_noncommutative", "redscat", 3, 0), <<1, 1, 1>>)),
    Ordered(Counts(Base("redscat_noncommutative", "redscat", 4, 0), <<1, 1, 1, 1>>))>>

Exchanges ==
  <<Base("barrier", "barrier", 4, 0),
    Base("barrier", "barrier", 5, 0),
    Base("allgather_doubling", "allgather", 4, 1),
    Base("allgather_bruck", "allgather", 3, 1),
    EagerTo(InPlace(Base("allgather_bruck", "allgather", 5, 1)), 2),
    Base("allgather_ring", "allgather", 4, 1),
    Spread(Base("allgatherv_doubling", "allgatherv", 4, 0), <<1, 0, 2, 1>>, <<3, 0, 1, 0>>),
    Spread(Base("allgatherv_bruck", "allgatherv", 3, 0), <<1, 2, 0>>, <<2, 0, 3>>),
    Spread(InPlace(Base("allgatherv_ring", "allgatherv", 3, 0)), <<1, 2, 1>>, <<3, 0, 2>>),
    Base("alltoall_bruck", "alltoall", 3, 1),
    EagerTo(Base("alltoall_bruck", "alltoall", 4, 1), 2),
    Base("alltoall_medium", "alltoall", 3, 1),
    ChunkOf(Base("alltoall_long", "alltoall", 3, 1), 1),
    ChunkOf(EagerTo(Base("alltoall_long", "alltoall", 4, 1), 1), 1),
    InPlace(Base("alltoall_inplace", "alltoall", 3, 1)),
    InPlace(EagerTo(Base("alltoall_inplace", "alltoall", 4, 1), 1))>>

(* Two nodes whose ranks alternate, and two groups of different sizes. *)
TwoNodes == <<<<0, 2>>, <<1, 3, 4>>>>
ThreeNodes == <<<<0, 2>>, <<1>>, <<3, 4>>>>
TwoGroups == <<<<0, 3>>, <<1, 2, 4>>>>

Alltoallvs ==
  <<ChunkOf(Matrix(Base("alltoallv_pairwise", "alltoallv", 3, 0),
                   <<<<1, 0, 2>>, <<2, 1, 0>>, <<1, 1, 1>>>>), 2),
    ChunkOf(Matrix(EagerTo(Base("alltoallv_pairwise", "alltoallv", 4, 0), 2),
                   <<<<0, 1, 2, 0>>, <<1, 0, 1, 0>>, <<1, 1, 0, 1>>, <<2, 0, 1, 1>>>>), 1),
    Matrix(InPlace(Base("alltoallv_inplace", "alltoallv", 3, 0)),
           <<<<1, 2, 0>>, <<2, 0, 1>>, <<0, 1, 1>>>>),
    Matrix(Base("alltoallv_bruck", "alltoallv", 3, 0),
           <<<<1, 0, 2>>, <<2, 1, 0>>, <<1, 1, 1>>>>),
    Matrix(EagerTo(Base("alltoallv_bruck", "alltoallv", 4, 0), 4),
           <<<<0, 1, 2, 0>>, <<1, 0, 1, 0>>, <<1, 1, 0, 1>>, <<2, 0, 1, 1>>>>),
    Between(Matrix(Base("alltoall_inter", "alltoallv", 5, 0),
                   <<<<0, 1, 2, 0, 1>>, <<2, 0, 0, 1, 0>>, <<1, 0, 0, 1, 0>>,
                     <<0, 1, 1, 0, 1>>, <<0, 0, 0, 2, 0>>>>), TwoGroups)>>

BlockingBroadcasts ==
  <<Rooted(Long(Base("blocking_bcast", "bcast", 4, 5)), 1),
    Rooted(Long(Base("blocking_bcast", "bcast", 3, 2)), 2),
    EagerTo(Rooted(Long(Base("blocking_bcast", "bcast", 4, 7)), 1), 1),
    Rooted(ChunkOf(Base("blocking_bcast", "bcast", 4, 3), 2), 2),
    Rooted(Nodes(Base("ha_bcast", "bcast", 5, 1), TwoNodes), 4),
    Rooted(Nodes(Long(Base("ha_bcast", "bcast", 5, 3)), ThreeNodes), 1),
    Rooted(Between(Base("inter_bcast", "bcast", 5, 1), TwoGroups), 3),
    Base("blocking_barrier", "barrier", 3, 0),
    Nodes(Base("ha_barrier", "barrier", 5, 0), TwoNodes),
    Nodes(Base("ha_barrier", "barrier", 6, 0), <<<<0, 2, 3, 4>>, <<1, 5>>>>),
    Between(Base("inter_barrier", "barrier", 4, 0), <<<<0, 3>>, <<1, 2>>>>)>>

BlockingReductions ==
  <<Rooted(Ordered(Base("blocking_reduce", "reduce", 4, 1)), 2),
    Rooted(InPlace(Long(Base("blocking_reduce", "reduce", 3, 2))), 1),
    Rooted(Long(Base("blocking_reduce", "reduce", 5, 5)), 1),
    Rooted(Long(Base("blocking_reduce", "reduce", 4, 5)), 3),
    EagerTo(Rooted(Long(Base("blocking_reduce", "reduce", 6, 4)), 3), 4),
    Rooted(Nodes(Base("ha_reduce", "reduce", 5, 1), TwoNodes), 4),
    Rooted(InPlace(Nodes(Base("ha_reduce", "reduce", 5, 1), ThreeNodes)), 1),
    Rooted(InPlace(Nodes(Base("ha_reduce", "reduce", 5, 1), ThreeNodes)), 2),
    Rooted(Between(Base("inter_reduce", "reduce", 5, 1), TwoGroups), 3),
    Ordered(Base("blocking_allreduce", "allreduce", 3, 1)),
    Long(Base("blocking_allreduce", "allreduce", 3, 3)),
    Nodes(Base("ha_allreduce", "allreduce", 5, 1), TwoNodes),
    InPlace(Nodes(Long(Base("ha_allreduce", "allreduce", 5, 4)), ThreeNodes)),
    Between(Base("inter_allreduce", "allreduce", 4, 1), <<<<0, 3>>, <<1, 2>>>>),
    Counts(Base("blocking_redscat_short", "redscat", 3, 0), <<1, 0, 2>>),
    EagerTo(Counts(InPlace(Base("blocking_redscat_short", "redscat", 5, 0)), <<0, 1, 1, 0, 1>>), 1),
    Counts(InPlace(Base("blocking_redscat_long", "redscat", 3, 0)), <<1, 1, 2>>),
    Counts(Base("blocking_redscat_long", "redscat", 3, 0), <<0, 1, 2>>)>>

BlockingGathers ==
  <<Base("blocking_allgather", "allgather", 4, 1),
    InPlace(Base("blocking_allgather", "allgather", 3, 1)),
    Long(Base("blocking_allgather", "allgather", 3, 1)),
    Spread(Base("blocking_allgatherv", "allgatherv", 4, 0), <<1, 0, 2, 1>>, <<3, 0, 1, 0>>),
    Spread(InPlace(Base("blocking_allgatherv", "allgatherv", 3, 0)), <<1, 2, 0>>, <<2, 0, 3>>),
    Spread(Long(Base("blocking_allgatherv", "allgatherv", 3, 0)), <<1, 2, 1>>, <<3, 0, 2>>)>>

MCCalls ==
  Broadcasts \o Gathers \o Reductions \o Exchanges \o Alltoallvs
    \o BlockingBroadcasts \o BlockingReductions \o BlockingGathers
==============================================================================
