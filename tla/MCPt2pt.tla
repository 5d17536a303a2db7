------------------------------ MODULE MCPt2pt ------------------------------
(***************************************************************************)
(* Small instances of Pt2pt for TLC: p1 and p2, who sends to whom, and how *)
(* many sends and receives each may start.                                 *)
(***************************************************************************)
EXTENDS Pt2ptInv, TLC

CONSTANTS p1, p2

(* Who sends to whom. *)
OneWay == {<<p1, p2>>}
WithSelf == {<<p1, p2>>, <<p2, p2>>}
ToSelf == {<<p2, p2>>}

(* How often: sends and receives of p1 and of p2. *)
TwoByP1 == (p1 :> 2) @@ (p2 :> 0)
TwoByP2 == (p1 :> 0) @@ (p2 :> 2)
OneByP1 == (p1 :> 1) @@ (p2 :> 0)
OneByP2 == (p1 :> 0) @@ (p2 :> 1)
OneEach == (p1 :> 1) @@ (p2 :> 1)

(* What receives and probes name. *)
Named(src, t) == [rank |-> src, tag |-> t]
AnyFilter == {Named(Wildcard, Wildcard)}
MixedFilters == {Named(Wildcard, "a"), Named(p1, Wildcard), Named(p1, "b")}

HandlesAlike == Permutations(Handle)
=============================================================================
