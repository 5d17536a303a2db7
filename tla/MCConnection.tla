---------------------------- MODULE MCConnection ----------------------------
(***************************************************************************)
(* Small instances of Connection for TLC: how many messages each sends.    *)
(***************************************************************************)
EXTENDS ConnectionInv

Single(n, m) == [messages |-> <<n, m>>, threads |-> FALSE]
Threads(n, m) == [messages |-> <<n, m>>, threads |-> TRUE]

(* With threads, only who connects sends. *)
SafePlans ==
  {Single(0, 0), Single(1, 0), Single(0, 2), Single(1, 1), Single(2, 1), Single(2, 2),
   Threads(2, 0), Threads(0, 3)}

(* With threads, both send. *)
ThreadedPlans == {Threads(1, 1)}
=============================================================================
