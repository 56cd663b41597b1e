------------------------- MODULE NotificationOutbox -------------------------
(***************************************************************************)
(* Delivery of alert events to the webhook: alerting.notification_outbox   *)
(* and the senders that drain it (Store.SendNotifications, one per server  *)
(* process).                                                               *)
(*                                                                         *)
(* A sender wakes every second and claims up to Batch due rows, one after  *)
(* the other.  A claim counts the attempt and pushes the row's due time    *)
(* Lease seconds ahead; the outcome is recorded only if the row still has  *)
(* that attempt number and is not delivered.  Nothing else protects a row  *)
(* while the webhook is called.  Due times are kept as the seconds left.   *)
(***************************************************************************)
EXTENDS Integers, FiniteSets

CONSTANTS Notes,     \* outbox identifiers, in the order of claims
          Senders,   \* server processes that run SendNotifications
          Batch,     \* claims per wake-up (20 in the code)
          Lease,     \* seconds a claim holds a row (60 in the code)
          MaxShift,  \* cap of the backoff exponent (10 in the code)
          MaxFaults, \* bound: failures of any kind in one behaviour
          None       \* "no claim"

ASSUME OutboxAssumption ==
    /\ Notes \subseteq Nat
    /\ IsFiniteSet(Senders)
    /\ None \notin [note : Notes, attempt : Nat \ {0}]
    /\ Batch \in Nat \ {0}
    /\ Lease \in Nat \ {0}
    /\ MaxShift \in Nat \ {0}
    /\ MaxFaults \in Nat

VARIABLES
    recorded,  \* rows of the outbox
    attempts,  \* per row
    wait,      \* per row, seconds until next_attempt_at
    delivered, \* rows with delivered_at set
    quota,     \* per sender, claims left in this wake-up
    claim,     \* per sender, the row and attempt number it works on, or None
    answer,    \* per sender, what deliverNotification made of its claim
    held,      \* history: per sender, seconds left of its claim's lease
    received,  \* history: per row, how often the webhook took it
    spoiled,   \* history: per row, the deliveries that a failure kept from
               \* being its marked one
    faults     \* failures so far

table == <<recorded, attempts, wait, delivered>>
history == <<held, received, spoiled>>
vars == <<table, quota, claim, answer, history, faults>>

Init ==
    /\ recorded = {}
    /\ attempts = [n \in Notes |-> 0]
    /\ wait = [n \in Notes |-> 0]
    /\ delivered = {}
    /\ quota = [s \in Senders |-> 0]
    /\ claim = [s \in Senders |-> None]
    /\ answer = [s \in Senders |-> "none"]
    /\ held = [s \in Senders |-> 0]
    /\ received = [n \in Notes |-> 0]
    /\ spoiled = [n \in Notes |-> 0]
    /\ faults = 0
-----------------------------------------------------------------------------
Down(t) == IF t = 0 THEN 0 ELSE t - 1

(* A failure is counted.  It can cause a redelivery only if it spoils a    *)
(* delivery: one made but not recorded within its lease, or made too late. *)
Fault == faults < MaxFaults /\ faults' = faults + 1
Unmarked == {s \in Senders : claim[s] # None /\ answer[s] = "taken" /\ held[s] > 0}
Spoil(S) == spoiled' = [n \in Notes |->
                spoiled[n] + Cardinality({s \in S : claim[s].note = n})]

(* alerting.record_event, committed with the evaluation or the edit that   *)
(* caused it.                                                              *)
Record(n) ==
    /\ n \notin recorded
    /\ recorded' = recorded \cup {n}
    /\ UNCHANGED <<attempts, wait, delivered, quota, claim, answer, history, faults>>

(* One second.  Nothing bounds how long a sender takes (the webhook call   *)
(* ends after 10 s, the statements around it have no timeout): outliving   *)
(* the lease is a failure.                                                 *)
Overrun == {s \in Senders : claim[s] # None /\ held[s] = 1}
Tick ==
    /\ \/ \E n \in Notes : wait[n] > 0
       \/ \E s \in Senders : held[s] > 0
    /\ wait' = [n \in Notes |-> Down(wait[n])]
    /\ held' = [s \in Senders |-> Down(held[s])]
    /\ IF Overrun = {} THEN UNCHANGED <<spoiled, faults>> ELSE Fault /\ Spoil(Overrun \cap Unmarked)
    /\ UNCHANGED <<recorded, attempts, delivered, quota, claim, answer, received>>

(* The ticker of SendNotifications fires.                                  *)
Wake(s) ==
    /\ quota[s] = 0 /\ claim[s] = None
    /\ quota' = [quota EXCEPT ![s] = Batch]
    /\ UNCHANGED <<table, claim, answer, history, faults>>

(* Regression: only fresh rows are claimed.                                *)
DueOnce == {n \in recorded \ delivered : wait[n] = 0 /\ attempts[n] = 0}

(* delivered_at IS NULL AND next_attempt_at<=clock_timestamp().            *)
Due == {n \in recorded \ delivered : wait[n] = 0}

(* Regression: a claim does not move the due time.                         *)
Unleased(n) == [wait EXCEPT ![n] = 0]

(* next_attempt_at=clock_timestamp()+interval '60 seconds'.                *)
Leased(n) == [wait EXCEPT ![n] = Lease]

(* Senders whose statement (a claim or the record of an outcome) may be    *)
(* under way now and hold the lock of a row.                               *)
Others(s) == {t \in Senders \ {s} :
                 (claim[t] = None /\ quota[t] > 0) \/ answer[t] # "none"}

(* ClaimNotification: one statement, ORDER BY id FOR UPDATE SKIP LOCKED    *)
(* LIMIT 1: the first due row, but for those that others have locked.      *)
Claimed(s, n) ==
    /\ n \in Due
    /\ Cardinality({m \in Due : m < n}) <= Cardinality(Others(s))
    /\ attempts' = [attempts EXCEPT ![n] = @ + 1]
    /\ wait' = Leased(n)

Claim(s) ==
    /\ quota[s] > 0 /\ claim[s] = None
    /\ \E n \in Due :
         /\ Claimed(s, n)
         /\ claim' = [claim EXCEPT ![s] = [note |-> n, attempt |-> attempts[n] + 1]]
    /\ answer' = [answer EXCEPT ![s] = "none"]
    /\ quota' = [quota EXCEPT ![s] = @ - 1]
    /\ held' = [held EXCEPT ![s] = Lease]
    /\ UNCHANGED <<recorded, delivered, received, spoiled, faults>>

(* The claim is committed, but its answer does not reach the sender: the   *)
(* row waits for its lease to end.                                         *)
ClaimLost(s) ==
    /\ quota[s] > 0 /\ claim[s] = None
    /\ \E n \in Due : Claimed(s, n)
    /\ quota' = [quota EXCEPT ![s] = 0]
    /\ Fault
    /\ UNCHANGED <<recorded, delivered, claim, answer, history>>

(* ErrNotFound, or the statement fails: this wake-up is over.              *)
Rest(s) ==
    /\ quota[s] > 0 /\ claim[s] = None
    /\ \/ Due = {} /\ UNCHANGED faults
       \/ Fault
    /\ quota' = [quota EXCEPT ![s] = 0]
    /\ UNCHANGED <<table, claim, answer, history>>
-----------------------------------------------------------------------------
Working(s) == claim[s] # None /\ answer[s] = "none"

(* The webhook takes the event and its 2xx answer arrives, perhaps after   *)
(* the lease.                                                              *)
Deliver(s) ==
    /\ Working(s)
    /\ answer' = [answer EXCEPT ![s] = "taken"]
    /\ received' = [received EXCEPT ![claim[s].note] = @ + 1]
    /\ IF held[s] = 0 THEN Spoil({s}) ELSE UNCHANGED spoiled
    /\ UNCHANGED <<table, quota, claim, held, faults>>

(* Any other answer, a timeout, no connection; or the webhook took the     *)
(* event but its answer is lost.                                           *)
DeliverFails(s) ==
    /\ Working(s)
    /\ answer' = [answer EXCEPT ![s] = "failed"]
    /\ Fault
    /\ \/ UNCHANGED <<received, spoiled>>
       \/ received' = [received EXCEPT ![claim[s].note] = @ + 1] /\ Spoil({s})
    /\ UNCHANGED <<table, quota, claim, held>>

(* 1<<min(attempts,10) seconds.                                            *)
Backoff(attempt) == 2 ^ (IF attempt < MaxShift THEN attempt ELSE MaxShift)

(* The row is touched only by the sender whose attempt is the latest.      *)
Current(s) ==
    /\ attempts[claim[s].note] = claim[s].attempt
    /\ claim[s].note \notin delivered

(* Regressions: the attempt number is not compared; failures count as      *)
(* deliveries.                                                             *)
RecordUnfenced(s) ==
    LET n == claim[s].note
    IN  /\ delivered' = IF answer[s] = "taken" THEN delivered \cup {n} ELSE delivered \ {n}
        /\ wait' = [wait EXCEPT ![n] = Backoff(claim[s].attempt)]
RecordAnything(s) ==
    LET n == claim[s].note
    IN  IF Current(s)
        THEN /\ delivered' = delivered \cup {n}
             /\ wait' = [wait EXCEPT ![n] = Backoff(claim[s].attempt)]
        ELSE UNCHANGED <<delivered, wait>>

(* The UPDATE of FinishNotification.                                       *)
RecordOutcome(s) ==
    LET n == claim[s].note
    IN  IF Current(s)
        THEN /\ delivered' = IF answer[s] = "taken" THEN delivered \cup {n} ELSE delivered
             /\ wait' = [wait EXCEPT ![n] = Backoff(claim[s].attempt)]
        ELSE UNCHANGED <<delivered, wait>>

Forget(s) ==
    /\ claim' = [claim EXCEPT ![s] = None]
    /\ answer' = [answer EXCEPT ![s] = "none"]
    /\ held' = [held EXCEPT ![s] = 0]

(* FinishNotification; whether its answer arrives makes no difference, the *)
(* loop goes on.                                                           *)
Finish(s) ==
    /\ claim[s] # None /\ answer[s] # "none"
    /\ RecordOutcome(s)
    /\ Forget(s)
    /\ UNCHANGED <<recorded, attempts, quota, received, spoiled, faults>>

(* The UPDATE fails: only a log entry, and the row waits for its lease.    *)
FinishFails(s) ==
    /\ claim[s] # None /\ answer[s] # "none"
    /\ Fault
    /\ Spoil({s} \cap Unmarked)
    /\ Forget(s)
    /\ UNCHANGED <<table, quota, received>>

(* The process ends, by a crash or because its context is cancelled, and   *)
(* starts anew.                                                            *)
Crash(s) ==
    /\ Fault
    /\ Spoil({s} \cap Unmarked)
    /\ Forget(s)
    /\ quota' = [quota EXCEPT ![s] = 0]
    /\ UNCHANGED <<table, received>>

SenderStep(s) == Wake(s) \/ Claim(s) \/ Deliver(s) \/ Finish(s) \/ (Due = {} /\ Rest(s))

Next ==
    \/ \E n \in Notes : Record(n)
    \/ Tick
    \/ \E s \in Senders :
         \/ Wake(s) \/ Claim(s) \/ ClaimLost(s) \/ Rest(s)
         \/ Deliver(s) \/ DeliverFails(s)
         \/ Finish(s) \/ FinishFails(s) \/ Crash(s)

Spec == Init /\ [][Next]_vars

(* Time passes and senders go on; the webhook fails a bounded number of    *)
(* times (MaxFaults).                                                      *)
FairSpec == Spec /\ WF_vars(Tick) /\ \A s \in Senders : WF_vars(SenderStep(s))
-----------------------------------------------------------------------------
Claims == [note : Notes, attempt : Nat \ {0}]

(* Type correctness of the outbox and its senders; no row waits longer     *)
(* than a lease or the capped backoff.                                     *)
TypeOK ==
    /\ recorded \subseteq Notes
    /\ attempts \in [Notes -> Nat]
    /\ \A n \in Notes : wait[n] \in 0..Lease \/ wait[n] \in 0..2 ^ MaxShift
    /\ delivered \subseteq recorded
    /\ quota \in [Senders -> 0..Batch]
    /\ claim \in [Senders -> Claims \cup {None}]
    /\ answer \in [Senders -> {"none", "taken", "failed"}]
    /\ held \in [Senders -> 0..Lease]
    /\ received \in [Notes -> Nat]
    /\ spoiled \in [Notes -> Nat]
    /\ faults \in 0..MaxFaults

(* A row marked delivered was taken by the webhook, whichever of several   *)
(* senders wrote the mark.                                                 *)
DeliveredReceived == \A n \in delivered : received[n] > 0

(* The rows are well-typed, their waits bounded, their marks truthful.     *)
OutboxInv == TypeOK /\ DeliveredReceived

(* Two senders hold the same row only if one has outlived its lease: the   *)
(* late answer of an old attempt never makes a row due that a newer        *)
(* attempt is working on (attempts=$2 in FinishNotification).              *)
LeaseExclusive ==
    \A s, t \in Senders :
        s # t /\ claim[s] # None /\ claim[t] # None /\ claim[s].note = claim[t].note
            => held[s] = 0 \/ held[t] = 0

(* At-least-once, but no repetition without a cause: each delivery beyond  *)
(* the first goes back to a delivery of that very row whose answer was     *)
(* lost, whose record failed or was cut by a crash, or which was made or   *)
(* left unrecorded past its lease.                                         *)
RepeatsExplained == \A n \in Notes : received[n] <= 1 + spoiled[n]

(* Every recorded event is eventually marked delivered, across failures,   *)
(* lost claims, crashes and backoff.                                       *)
EventuallyDelivered == \A n \in Notes : n \in recorded ~> n \in delivered
=============================================================================
