------------------------ MODULE MCNotificationOutbox ------------------------
(***************************************************************************)
(* Instances of NotificationOutbox for TLC: the lease is longer than the   *)
(* first backoff, as in the code.                                          *)
(***************************************************************************)
EXTENDS NotificationOutbox, TLC

CONSTANTS s1, s2

Symmetry == Permutations({s1, s2})
=============================================================================
