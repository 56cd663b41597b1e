-------------------------- MODULE MCFixtureLoader --------------------------
(***************************************************************************)
(* An instance of FixtureLoader for TLC.                                   *)
(***************************************************************************)
EXTENDS FixtureLoader
=============================================================================
