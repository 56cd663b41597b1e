------------------------- MODULE MCDashboardSession -------------------------
(***************************************************************************)
(* Instances of DashboardSession for TLC.                                  *)
(***************************************************************************)
EXTENDS DashboardSession, TLC

CONSTANTS r1, r2, s1, s2

Symmetry == Permutations({r1, r2}) \cup Permutations({s1, s2})
=============================================================================
