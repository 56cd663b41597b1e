------------------------- MODULE MCObservationStore -------------------------
(***************************************************************************)
(* Instances of ObservationStore for TLC.  The submissions are chosen so   *)
(* that replays, conflicts inside and across documents, invalid items      *)
(* after valid ones, malformed documents, and a quarantined document       *)
(* before and after an accepted one in the same COPY all happen.           *)
(***************************************************************************)
EXTENDS ObservationStore

CONSTANTS a, b, x, y, s1, s2

I(id, body) == [id |-> id, body |-> body]

MCSubmissions ==
    { <<<<I(a, x)>>>>,
      <<<<I(a, y), I(b, x)>>>>,
      <<<<I(b, y), I(a, Bad)>>, <<I(a, y)>>>>,
      <<<<I(b, x)>>, <<I(a, x), I(b, y)>>>>,
      <<<<I(a, x), I(a, y)>>>> }
=============================================================================
