----------------------------- MODULE MCWinLock -----------------------------
(***************************************************************************)
(* Small instances of WinLock for TLC: plans say who locks whose window.   *)
(***************************************************************************)
EXTENDS WinLockInv

CONSTANTS p1, p2, p3

X == "EXCLUSIVE"
S == "SHARED"

Plan(locks, ops, kinds, n, flushes) ==
  [locks |-> locks, ops |-> ops, kinds |-> kinds, epochs |-> n, flushes |-> flushes]

(* No plan has a shared lock wait before an exclusive one, and only gets are *)
(* flushed locally.                                                          *)
SafePlans ==
  {Plan({<<p1, p1, X>>, <<p2, p1, X>>, <<p3, p1, X>>}, 2, {"put", "acc"}, 1, {}),
   Plan({<<p1, p1, X>>, <<p2, p1, S>>, <<p3, p1, S>>}, 2, {"put", "acc"}, 1, {}),
   Plan({<<p1, p1, S>>, <<p2, p1, X>>, <<p3, p1, S>>}, 2, {"get", "put"}, 1, {}),
   Plan({<<p2, p1, X>>, <<p3, p1, X>>}, 2, {"acc", "get"}, 2, {"flush"}),
   Plan({<<p2, p1, S>>, <<p3, p1, S>>}, 2, {"put", "get"}, 2, {}),
   Plan({<<p2, p1, X>>, <<p3, p1, X>>}, 2, {"get"}, 2, {"flush_local"}),
   Plan({<<p1, p2, X>>, <<p2, p1, S>>}, 2, {"long", "get"}, 1, {"flush"})}

(* Two exclusive locks and a shared one. *)
MixedPlans ==
  {Plan({<<p1, p1, X>>, <<p2, p1, S>>, <<p3, p1, X>>}, 1, {"long"}, 1, {})}

(* One origin that flushes locally and then completely. *)
LocalPlans ==
  {Plan({<<p2, p1, X>>}, 2, {"put", "long"}, 1, {"flush", "flush_local"})}
=============================================================================
