---------------------------- MODULE MCBootstrap ----------------------------
(***************************************************************************)
(* An instance of Bootstrap for TLC.                                       *)
(***************************************************************************)
EXTENDS Bootstrap

CONSTANTS p1, p2, p3
=============================================================================
