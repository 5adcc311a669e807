--------------------------- MODULE MCControlStore ---------------------------
(***************************************************************************)
(* Two tenants with a workspace each; the first workspace has a GitHub     *)
(* repository binding, the second has none.                                *)
(***************************************************************************)
EXTENDS ControlStore, TLC

CONSTANTS u1, u2, w1, w2, d1, d2, t1, t2, a1, a2, r1, r2

MCOwner     == (w1 :> u1) @@ (w2 :> u2)
MCLinked    == {w1}
MCFirstName == (w1 :> r1)

Symmetry == Permutations(Device) \cup Permutations(Target) \cup Permutations(Alias)
=============================================================================
