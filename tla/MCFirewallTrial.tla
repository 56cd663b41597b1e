--------------------------- MODULE MCFirewallTrial ---------------------------
(***************************************************************************)
(* Instances of FirewallTrial for TLC.                                     *)
(***************************************************************************)
EXTENDS FirewallTrial

CONSTANTS a1, a2, p1, p2
=============================================================================
