-------------------------- MODULE MCAlertEvaluator --------------------------
(***************************************************************************)
(* Instances of AlertEvaluator for TLC: readings below every threshold, in *)
(* the band under the critical threshold, at it, and of another type.      *)
(***************************************************************************)
EXTENDS AlertEvaluator

Base0 == [enabled |-> TRUE, warning |-> 2, critical |-> 4, hysteresis |-> 1,
          riseWarning |-> 2, riseCritical |-> 4, riseHysteresis |-> 1, period |-> 1,
          window |-> 2, minimum |-> 1, hold |-> 0, stale |-> 2]

EditParams == {Base0, [Base0 EXCEPT !.enabled = FALSE]}
Late == {-1, 0}
Ahead == {0, 1}
HoldParams == {Base0, [Base0 EXCEPT !.hold = 1]}
=============================================================================
