--------------------------- MODULE ObservationLog ---------------------------
(***************************************************************************)
(* What the observation store promises its readers: a log that only grows, *)
(* each time by a whole group of rows whose sequence numbers lie above      *)
(* every number already visible, and cursors that page through it without  *)
(* missing a row.  There are no transactions, locks or routes here;         *)
(* ObservationStore implements this module.                                 *)
(***************************************************************************)
EXTENDS Naturals, FiniteSets

CONSTANT Readers     \* API clients that page with a cursor

VARIABLES log,       \* the visible rows
          cursor,    \* per reader, the sequence number it passes as "after"
          seen       \* per reader, the rows it has been given

vars == <<log, cursor, seen>>

Init ==
    /\ log = {}
    /\ cursor = [r \in Readers |-> 0]
    /\ seen = [r \in Readers |-> {}]

(* One commit: rows with fresh identifiers, after everything visible.      *)
Append ==
    LET new == log' \ log
    IN  /\ log \subseteq log'
        /\ \A n \in new : \A e \in log : n.seq > e.seq /\ n.id # e.id
        /\ \A n, m \in new : n.id = m.id \/ n.seq = m.seq => n = m
        /\ UNCHANGED <<cursor, seen>>

(* One page: the rows between the old cursor and the new one, all of them. *)
Read(r, last) ==
    /\ last.seq > cursor[r]
    /\ cursor' = [cursor EXCEPT ![r] = last.seq]
    /\ seen' = [seen EXCEPT ![r] =
                  @ \cup {e \in log : e.seq > cursor[r] /\ e.seq <= last.seq}]
    /\ UNCHANGED log

Next ==
    \/ Append
    \/ \E r \in Readers, last \in log : Read(r, last)

Spec == Init /\ [][Next]_vars
=============================================================================
