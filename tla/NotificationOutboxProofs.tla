---------------------- MODULE NotificationOutboxProofs ----------------------
(***************************************************************************)
(* Proofs about NotificationOutbox for any number of rows, of senders and  *)
(* of failures, any batch, lease and cap of the backoff.                   *)
(***************************************************************************)
EXTENDS NotificationOutbox, FiniteSetTheorems, TLAPS

Answers == {"none", "taken", "failed"}

(* TypeOK with what it leaves open: the waits are a function, and a claim  *)
(* is on a row of the outbox.                                              *)
Typed ==
    /\ recorded \in SUBSET Notes
    /\ attempts \in [Notes -> Nat]
    /\ wait \in [Notes -> Nat]
    /\ delivered \in SUBSET recorded
    /\ quota \in [Senders -> 0..Batch]
    /\ claim \in [Senders -> Claims \cup {None}]
    /\ answer \in [Senders -> Answers]
    /\ held \in [Senders -> 0..Lease]
    /\ received \in [Notes -> Nat]
    /\ spoiled \in [Notes -> Nat]
    /\ faults \in 0..MaxFaults
    /\ \A s \in Senders : claim[s] # None => claim[s].note \in recorded

Bounded == \A n \in Notes : wait[n] <= Lease \/ wait[n] <= 2 ^ MaxShift

Holds(s, n) == claim[s] # None /\ claim[s].note = n

(* The attempt numbers of the claims on a row are distinct, and none is    *)
(* later than the row's; only the latest can still be within its lease,    *)
(* and until the row is delivered it is not due before that lease ends.    *)
FenceInv ==
    \A s \in Senders, n \in Notes : Holds(s, n) =>
        /\ claim[s].attempt <= attempts[n]
        /\ claim[s].attempt < attempts[n] => held[s] = 0
        /\ n \notin delivered => held[s] <= wait[n]
        /\ n \in delivered => held[s] = 0
        /\ \A t \in Senders : t # s /\ Holds(t, n) => claim[t].attempt # claim[s].attempt

(* What the webhook took of a sender's claim, and of a delivered row, it   *)
(* has received.                                                           *)
TakenInv ==
    /\ \A s \in Senders, n \in Notes :
           Holds(s, n) /\ answer[s] = "taken" => received[n] > 0
    /\ DeliveredReceived

(* The senders whose delivery of the row is not recorded yet and within    *)
(* its lease.                                                              *)
Fresh(n) == {s \in Unmarked : claim[s].note = n}
Mark(n) == IF n \in delivered THEN 1 ELSE 0

(* The account of a row's deliveries: those a failure has spoiled, the     *)
(* delivery in hand and the one that is marked.                            *)
AccountInv ==
    \A n \in Notes : received[n] <= spoiled[n] + Cardinality(Fresh(n)) + Mark(n)

IInv == Typed /\ Bounded /\ FenceInv /\ TakenInv /\ AccountInv
-----------------------------------------------------------------------------
(* Powers of two count the subsets of an interval, so they are numbers and *)
(* grow with the exponent.                                                 *)
LEMMA Powers ==
    ASSUME NEW k \in Nat, NEW m \in Nat, k <= m
    PROVE  2 ^ k \in Nat /\ 2 ^ k <= 2 ^ m
<1>1. /\ IsFiniteSet(1..k) /\ Cardinality(1..k) = k
      /\ IsFiniteSet(1..m) /\ Cardinality(1..m) = m
  BY FS_Interval
<1>2. /\ IsFiniteSet(SUBSET (1..k)) /\ Cardinality(SUBSET (1..k)) = 2 ^ k
      /\ IsFiniteSet(SUBSET (1..m)) /\ Cardinality(SUBSET (1..m)) = 2 ^ m
  BY <1>1, FS_SUBSET, Zenon
<1>3. SUBSET (1..k) \in SUBSET (SUBSET (1..m))
  OBVIOUS
<1>4. Cardinality(SUBSET (1..k)) <= Cardinality(SUBSET (1..m))
  BY <1>2, <1>3, FS_Subset, Zenon
<1>5. Cardinality(SUBSET (1..k)) \in Nat
  BY <1>2, FS_CardinalityType
<1> QED BY <1>2, <1>4, <1>5

(* The backoff is a number of seconds below the cap.                       *)
LEMMA BackoffBounded ==
    ASSUME NEW a \in Nat
    PROVE  Backoff(a) \in Nat /\ Backoff(a) <= 2 ^ MaxShift
<1> DEFINE e == IF a < MaxShift THEN a ELSE MaxShift
<1>1. e \in Nat /\ e <= MaxShift /\ MaxShift \in Nat
  BY OutboxAssumption
<1>2. 2 ^ e \in Nat /\ 2 ^ e <= 2 ^ MaxShift
  BY <1>1, Powers
<1> QED BY <1>2 DEF Backoff

(* Any set of senders is finite.                                           *)
LEMMA SendersFinite ==
    ASSUME NEW S, S \subseteq Senders
    PROVE  IsFiniteSet(S) /\ Cardinality(S) \in Nat
<1>1. IsFiniteSet(S)
  BY FS_Subset, OutboxAssumption
<1> QED BY <1>1, FS_CardinalityType

(* A failure is counted once for every sender in hand of the row.          *)
LEMMA SpoilEffect ==
    ASSUME Typed, NEW S, S \subseteq Senders, Spoil(S)
    PROVE  /\ spoiled' \in [Notes -> Nat]
           /\ \A n \in Notes :
                spoiled'[n] = spoiled[n] + Cardinality({s \in S : claim[s].note = n})
           /\ \A n \in Notes : spoiled'[n] >= spoiled[n]
           /\ \A n \in Notes, s \in S : claim[s].note = n => spoiled'[n] >= spoiled[n] + 1
<1> DEFINE hit(n) == {s \in S : claim[s].note = n}
<1>1. \A n \in Notes : Cardinality(hit(n)) \in Nat /\ IsFiniteSet(hit(n))
  BY SendersFinite
<1>2. spoiled \in [Notes -> Nat]
  BY DEF Typed
<1>3. spoiled' = [n \in Notes |-> spoiled[n] + Cardinality(hit(n))]
  BY DEF Spoil
<1>4. ASSUME NEW n \in Notes, NEW s \in S, claim[s].note = n
      PROVE  Cardinality(hit(n)) >= 1
  <2>1. {s} \in SUBSET hit(n)
    BY <1>4
  <2>2. Cardinality({s}) <= Cardinality(hit(n)) /\ Cardinality({s}) = 1
    BY <1>1, <2>1, FS_Subset, FS_Singleton
  <2> QED BY <1>1, <2>2
<1> HIDE DEF hit
<1>5. /\ spoiled' \in [Notes -> Nat]
      /\ \A n \in Notes : spoiled'[n] = spoiled[n] + Cardinality(hit(n))
      /\ \A n \in Notes : spoiled'[n] >= spoiled[n]
      /\ \A n \in Notes, s \in S : claim[s].note = n => spoiled'[n] >= spoiled[n] + 1
  BY <1>1, <1>2, <1>3, <1>4
<1> QED BY <1>5 DEF hit

(* What a claim in hand is.                                                *)
LEMMA ClaimFields ==
    ASSUME Typed, NEW s \in Senders, claim[s] # None
    PROVE  /\ claim[s].note \in Notes /\ claim[s].note \in recorded
           /\ claim[s].attempt \in Nat \ {0}
BY DEF Typed, Claims

(* A claim takes a due row: one that nobody delivered and whose wait is    *)
(* over.                                                                   *)
LEMMA DueRow ==
    ASSUME Typed, NEW n \in Due
    PROVE  n \in Notes /\ n \in recorded /\ n \notin delivered /\ wait[n] = 0
BY DEF Typed, Due
-----------------------------------------------------------------------------
(* The initial state is typed.                                             *)
LEMMA TypedInit == Init => Typed /\ Bounded
<1> SUFFICES ASSUME Init PROVE Typed /\ Bounded
  OBVIOUS
<1> USE OutboxAssumption
<1>1. \A n \in Notes : wait[n] <= Lease
  BY DEF Init
<1>2. Typed
  BY DEF Init, Typed, Answers
<1> QED BY <1>1, <1>2 DEF Bounded

(* What a claim does to the row and, when its answer arrives, the sender.  *)
LEMMA ClaimedEffect ==
    ASSUME Typed, Bounded, NEW n \in Due, NEW s, Claimed(s, n)
    PROVE  /\ attempts' \in [Notes -> Nat] /\ wait' \in [Notes -> Nat]
           /\ attempts'[n] = attempts[n] + 1 /\ wait'[n] = Lease
           /\ \A m \in Notes : m # n => attempts'[m] = attempts[m] /\ wait'[m] = wait[m]
           /\ \A m \in Notes : wait'[m] <= Lease \/ wait'[m] <= 2 ^ MaxShift
<1>1. n \in Notes /\ Lease \in Nat
  BY DueRow, OutboxAssumption
<1>2. /\ attempts' = [attempts EXCEPT ![n] = @ + 1]
      /\ wait' = [wait EXCEPT ![n] = Lease]
  BY DEF Claimed, Leased
<1> QED BY <1>1, <1>2 DEF Typed, Bounded

(* What recording an outcome does: nothing unless the claim is current.    *)
LEMMA OutcomeEffect ==
    ASSUME Typed, Bounded, NEW s \in Senders, claim[s] # None, RecordOutcome(s)
    PROVE  LET n == claim[s].note
           IN  /\ wait' \in [Notes -> Nat] /\ delivered' \in SUBSET (delivered \cup {n})
               /\ delivered \subseteq delivered'
               /\ delivered' # delivered => Current(s) /\ answer[s] = "taken"
               /\ Current(s) /\ answer[s] = "taken" => n \in delivered'
               /\ \A m \in Notes : m # n \/ ~Current(s) => wait'[m] = wait[m]
               /\ \A m \in Notes : wait'[m] <= Lease \/ wait'[m] <= 2 ^ MaxShift
<1> DEFINE n == claim[s].note
           b == Backoff(claim[s].attempt)
<1>1. n \in Notes /\ b \in Nat /\ b <= 2 ^ MaxShift
  BY ClaimFields, BackoffBounded
<1>2. CASE Current(s)
  <2>1. /\ delivered' = IF answer[s] = "taken" THEN delivered \cup {n} ELSE delivered
        /\ wait' = [wait EXCEPT ![n] = b]
    BY <1>2 DEF RecordOutcome
  <2> HIDE DEF n, b
  <2>2. /\ wait' \in [Notes -> Nat] /\ delivered' \in SUBSET (delivered \cup {n})
        /\ delivered \subseteq delivered'
        /\ delivered' # delivered => Current(s) /\ answer[s] = "taken"
        /\ Current(s) /\ answer[s] = "taken" => n \in delivered'
        /\ \A m \in Notes : m # n \/ ~Current(s) => wait'[m] = wait[m]
        /\ \A m \in Notes : wait'[m] <= Lease \/ wait'[m] <= 2 ^ MaxShift
    BY <1>1, <1>2, <2>1 DEF Typed, Bounded
  <2> QED BY <2>2 DEF n
<1>3. CASE ~Current(s)
  BY <1>3 DEF RecordOutcome, Typed, Bounded
<1> QED BY <1>2, <1>3

(* The webhook takes the row of a claim.                                   *)
LEMMA ReceiveEffect ==
    ASSUME Typed, NEW s \in Senders, claim[s] # None,
           received' = [received EXCEPT ![claim[s].note] = @ + 1]
    PROVE  /\ received' \in [Notes -> Nat]
           /\ received'[claim[s].note] = received[claim[s].note] + 1
           /\ \A m \in Notes : m # claim[s].note => received'[m] = received[m]
           /\ \A m \in Notes : received'[m] >= received[m]
<1> DEFINE n == claim[s].note
<1>1. n \in Notes /\ received' = [received EXCEPT ![n] = @ + 1]
  BY ClaimFields
<1>2. received \in [Notes -> Nat]
  BY DEF Typed
<1> HIDE DEF n
<1>3. /\ received' \in [Notes -> Nat] /\ received'[n] = received[n] + 1
      /\ \A m \in Notes : m # n => received'[m] = received[m]
      /\ \A m \in Notes : received'[m] >= received[m]
  BY <1>1, <1>2
<1> QED BY <1>3 DEF n

(* The claims, answers and leases of the other senders stay as they are.   *)
LEMMA ForgetEffect ==
    ASSUME Typed, NEW s \in Senders, Forget(s)
    PROVE  /\ claim' \in [Senders -> Claims \cup {None}]
           /\ answer' \in [Senders -> Answers] /\ held' \in [Senders -> 0..Lease]
           /\ claim'[s] = None /\ answer'[s] = "none"
           /\ \A t \in Senders : t # s =>
                claim'[t] = claim[t] /\ answer'[t] = answer[t] /\ held'[t] = held[t]
BY OutboxAssumption DEF Forget, Typed, Answers

(* The types are kept by every step.                                       *)
LEMMA TypedStep == Typed /\ Bounded /\ [Next]_vars => Typed' /\ Bounded'
<1> SUFFICES ASSUME Typed, Bounded, [Next]_vars PROVE Typed' /\ Bounded'
  OBVIOUS
<1> USE OutboxAssumption
<1>1. ASSUME NEW n \in Notes, Record(n) PROVE Typed' /\ Bounded'
  BY <1>1 DEF Record, Typed, Bounded, history
<1>2. ASSUME Tick PROVE Typed' /\ Bounded'
  <2>1. /\ wait' = [n \in Notes |-> Down(wait[n])]
        /\ held' = [s \in Senders |-> Down(held[s])]
        /\ UNCHANGED <<recorded, attempts, delivered, quota, claim, answer, received>>
    BY <1>2 DEF Tick
  <2>2. wait' \in [Notes -> Nat] /\ held' \in [Senders -> 0..Lease]
    BY <2>1 DEF Typed, Down
  <2>3. \A n \in Notes : wait'[n] = wait[n] \/ wait'[n] = wait[n] - 1
    BY <2>1 DEF Typed, Down
  <2>4. Bounded'
    <3> SUFFICES ASSUME NEW n \in Notes
                 PROVE  wait'[n] <= Lease \/ wait'[n] <= 2 ^ MaxShift
      BY DEF Bounded
    <3>1. 2 ^ MaxShift \in Nat
      BY Powers
    <3> QED BY <3>1, <2>3 DEF Bounded, Typed
  <2>5. spoiled' \in [Notes -> Nat] /\ faults' \in 0..MaxFaults
    <3>1. CASE Overrun = {}
      BY <1>2, <3>1 DEF Tick, Typed
    <3>2. CASE Overrun # {}
      <4>1. Fault /\ Spoil(Overrun \cap Unmarked)
        BY <1>2, <3>2 DEF Tick
      <4>2. spoiled' \in [Notes -> Nat]
        BY <4>1, SpoilEffect DEF Overrun
      <4> QED BY <4>1, <4>2 DEF Fault, Typed
    <3> QED BY <3>1, <3>2
  <2> QED BY <2>1, <2>2, <2>4, <2>5 DEF Typed
<1>3. ASSUME NEW s \in Senders, Wake(s) PROVE Typed' /\ Bounded'
  BY <1>3 DEF Wake, Typed, Bounded, table, history
<1>4. ASSUME NEW s \in Senders, Claim(s) PROVE Typed' /\ Bounded'
  <2>1. PICK n \in Due : /\ Claimed(s, n)
                         /\ claim' = [claim EXCEPT ![s] =
                                [note |-> n, attempt |-> attempts[n] + 1]]
    BY <1>4 DEF Claim
  <2>2. n \in Notes /\ n \in recorded
    BY DueRow
  <2>3. attempts' \in [Notes -> Nat] /\ wait' \in [Notes -> Nat] /\ Bounded'
    BY <2>1, ClaimedEffect DEF Bounded
  <2>4. [note |-> n, attempt |-> attempts[n] + 1] \in Claims
    BY <2>2 DEF Typed, Claims
  <2>5. /\ claim' \in [Senders -> Claims \cup {None}]
        /\ \A t \in Senders : claim'[t] # None => claim'[t].note \in recorded
    BY <2>1, <2>2, <2>4 DEF Typed
  <2> QED BY <1>4, <2>3, <2>5 DEF Claim, Typed, Answers
<1>5. ASSUME NEW s \in Senders, ClaimLost(s) PROVE Typed' /\ Bounded'
  <2>1. PICK n \in Due : Claimed(s, n)
    BY <1>5 DEF ClaimLost
  <2>2. attempts' \in [Notes -> Nat] /\ wait' \in [Notes -> Nat] /\ Bounded'
    BY <2>1, ClaimedEffect DEF Bounded
  <2> QED BY <1>5, <2>2 DEF ClaimLost, Typed, Fault, history
<1>6. ASSUME NEW s \in Senders, Rest(s) PROVE Typed' /\ Bounded'
  BY <1>6 DEF Rest, Typed, Bounded, Fault, table, history
<1>7. ASSUME NEW s \in Senders, Deliver(s) PROVE Typed' /\ Bounded'
  <2>1. received' \in [Notes -> Nat]
    BY <1>7, ReceiveEffect DEF Deliver, Working
  <2>2. spoiled' \in [Notes -> Nat]
    BY <1>7, SpoilEffect DEF Deliver, Typed
  <2> QED BY <1>7, <2>1, <2>2 DEF Deliver, Typed, Bounded, Answers, table
<1>8. ASSUME NEW s \in Senders, DeliverFails(s) PROVE Typed' /\ Bounded'
  <2>1. claim[s] # None
    BY <1>8 DEF DeliverFails, Working
  <2>2. received' \in [Notes -> Nat] /\ spoiled' \in [Notes -> Nat]
    <3>1. CASE UNCHANGED <<received, spoiled>>
      BY <3>1 DEF Typed
    <3>2. CASE received' = [received EXCEPT ![claim[s].note] = @ + 1] /\ Spoil({s})
      BY <3>2, <2>1, SpoilEffect, ReceiveEffect
    <3> QED BY <1>8, <3>1, <3>2 DEF DeliverFails
  <2> QED BY <1>8, <2>2 DEF DeliverFails, Typed, Bounded, Answers, Fault, table
<1>9. ASSUME NEW s \in Senders, Finish(s) PROVE Typed' /\ Bounded'
  <2>1. claim[s] # None /\ RecordOutcome(s) /\ Forget(s)
    BY <1>9 DEF Finish
  <2>2. wait' \in [Notes -> Nat] /\ delivered' \in SUBSET (delivered \cup {claim[s].note})
        /\ \A m \in Notes : wait'[m] <= Lease \/ wait'[m] <= 2 ^ MaxShift
    BY <2>1, OutcomeEffect
  <2>3. claim[s].note \in Notes /\ claim[s].note \in recorded
    BY <2>1, ClaimFields
  <2> QED BY <1>9, <2>1, <2>2, <2>3, ForgetEffect DEF Finish, Typed, Bounded
<1>10. ASSUME NEW s \in Senders, FinishFails(s) PROVE Typed' /\ Bounded'
  <2>1. Forget(s) /\ Spoil({s} \cap Unmarked)
    BY <1>10 DEF FinishFails
  <2> QED BY <1>10, <2>1, SpoilEffect, ForgetEffect
          DEF FinishFails, Typed, Bounded, Fault, table
<1>11. ASSUME NEW s \in Senders, Crash(s) PROVE Typed' /\ Bounded'
  <2>1. Forget(s) /\ spoiled' \in [Notes -> Nat]
    BY <1>11, SpoilEffect DEF Crash
  <2> QED BY <1>11, <2>1, ForgetEffect DEF Crash, Typed, Bounded, Fault, table
<1>12. ASSUME UNCHANGED vars PROVE Typed' /\ Bounded'
  BY <1>12 DEF vars, table, history, Typed, Bounded
<1> QED BY <1>1, <1>2, <1>3, <1>4, <1>5, <1>6, <1>7, <1>8, <1>9, <1>10, <1>11, <1>12
        DEF Next
-----------------------------------------------------------------------------
(* No sender holds a claim at first.                                       *)
LEMMA FenceInit == Init => FenceInv
BY DEF Init, FenceInv, Holds

(* Only the claims, their leases and the rows matter to the fence; a       *)
(* sender may let go of its claim.                                         *)
LEMMA FenceFrame ==
    ASSUME Typed, FenceInv, UNCHANGED <<attempts, wait, delivered>>,
           \A t \in Senders : \/ claim'[t] = None
                              \/ claim'[t] = claim[t] /\ held'[t] = held[t]
    PROVE  FenceInv'
BY DEF FenceInv, Holds

(* A claim outdates the others on the row, whose leases are over.          *)
LEMMA FenceOutdated ==
    ASSUME Typed, Bounded, FenceInv, NEW n \in Due, NEW u, Claimed(u, n),
           delivered' = delivered, NEW s \in Senders, NEW m \in Notes, Holds(s, m)
    PROVE  /\ claim[s].attempt <= attempts'[m]
           /\ m = n => claim[s].attempt < attempts'[m]
           /\ claim[s].attempt < attempts'[m] => held[s] = 0
           /\ m \notin delivered => held[s] <= wait'[m]
           /\ m \in delivered => held[s] = 0
<1>1. n \in Notes /\ n \notin delivered /\ wait[n] = 0
  BY DueRow
<1>2. /\ attempts'[n] = attempts[n] + 1 /\ wait'[n] = Lease
      /\ m # n => attempts'[m] = attempts[m] /\ wait'[m] = wait[m]
  BY ClaimedEffect
<1>3. /\ claim[s].attempt <= attempts[m]
      /\ claim[s].attempt < attempts[m] => held[s] = 0
      /\ m \notin delivered => held[s] <= wait[m]
      /\ m \in delivered => held[s] = 0
  BY DEF FenceInv
<1>4. /\ claim[s].attempt \in Nat /\ attempts[m] \in Nat /\ held[s] \in 0..Lease
      /\ attempts[n] \in Nat
  BY <1>1, ClaimFields DEF Holds, Typed
<1>5. CASE m = n
  BY <1>1, <1>2, <1>3, <1>4, <1>5, OutboxAssumption
<1>6. CASE m # n
  BY <1>2, <1>3, <1>4, <1>6
<1> QED BY <1>5, <1>6

(* The fence is kept by every step.                                        *)
LEMMA FenceStep == Typed /\ Bounded /\ FenceInv /\ [Next]_vars => FenceInv'
<1> SUFFICES ASSUME Typed, Bounded, FenceInv, [Next]_vars PROVE FenceInv'
  OBVIOUS
<1>1. ASSUME NEW n \in Notes, Record(n) PROVE FenceInv'
  BY <1>1, FenceFrame DEF Record, history
<1>2. ASSUME Tick PROVE FenceInv'
  <2>1. /\ wait' = [n \in Notes |-> Down(wait[n])]
        /\ held' = [s \in Senders |-> Down(held[s])]
        /\ UNCHANGED <<attempts, delivered, claim>>
    BY <1>2 DEF Tick
  <2>2. ASSUME NEW s \in Senders, NEW n \in Notes, held[s] <= wait[n]
        PROVE  held'[s] <= wait'[n]
    BY <2>1, <2>2, OutboxAssumption DEF Typed, Down
  <2>3. ASSUME NEW s \in Senders, held[s] = 0
        PROVE  held'[s] = 0
    BY <2>1, <2>3 DEF Down
  <2> QED BY <2>1, <2>2, <2>3 DEF FenceInv, Holds
<1>3. ASSUME NEW s \in Senders, Wake(s) PROVE FenceInv'
  BY <1>3, FenceFrame DEF Wake, table, history
<1>4. ASSUME NEW s \in Senders, Claim(s) PROVE FenceInv'
  <2> DEFINE new(n) == [note |-> n, attempt |-> attempts[n] + 1]
  <2>1. PICK n \in Due : Claimed(s, n) /\ claim' = [claim EXCEPT ![s] = new(n)]
    BY <1>4 DEF Claim
  <2>2. held' = [held EXCEPT ![s] = Lease] /\ delivered' = delivered /\ claim[s] = None
    BY <1>4 DEF Claim
  <2>3. n \in Notes /\ n \notin delivered /\ attempts[n] \in Nat /\ Lease \in Nat
    BY DueRow, OutboxAssumption DEF Typed
  <2>4. attempts'[n] = attempts[n] + 1 /\ wait'[n] = Lease
    BY <2>1, ClaimedEffect
  <2>5. claim'[s] = new(n) /\ new(n).note = n /\ new(n).attempt = attempts[n] + 1
    BY <2>1 DEF Typed
  <2>6. held'[s] = Lease
    BY <2>2 DEF Typed
  <2>7. \A t \in Senders : t # s => claim'[t] = claim[t] /\ held'[t] = held[t]
    BY <2>1, <2>2 DEF Typed
  <2> HIDE DEF new
  <2>8. \A t \in Senders, m \in Notes : t # s /\ Holds(t, m) =>
          /\ claim[t].attempt <= attempts'[m]
          /\ m = n => claim[t].attempt < attempts'[m]
          /\ claim[t].attempt < attempts'[m] => held[t] = 0
          /\ m \notin delivered => held[t] <= wait'[m]
          /\ m \in delivered => held[t] = 0
    BY <2>1, <2>2, FenceOutdated
  <2> SUFFICES ASSUME NEW t \in Senders, NEW m \in Notes, Holds(t, m)'
               PROVE  /\ claim'[t].attempt <= attempts'[m]
                      /\ claim'[t].attempt < attempts'[m] => held'[t] = 0
                      /\ m \notin delivered' => held'[t] <= wait'[m]
                      /\ m \in delivered' => held'[t] = 0
                      /\ \A u \in Senders : u # t /\ Holds(u, m)' =>
                           claim'[u].attempt # claim'[t].attempt
    BY DEF FenceInv
  <2>9. CASE t = s
    <3>1. m = n
      BY <2>5, <2>9 DEF Holds
    <3>2. ASSUME NEW u \in Senders, u # s, Holds(u, n)'
          PROVE  claim'[u].attempt # claim'[s].attempt
      <4>1. Holds(u, n)
        BY <2>7, <3>2 DEF Holds
      <4>2. claim[u].attempt < attempts'[n] /\ claim[u].attempt \in Nat
        BY <2>3, <2>8, <3>2, <4>1, ClaimFields DEF Holds
      <4> QED BY <2>3, <2>4, <2>5, <2>7, <3>2, <4>2
    <3> QED BY <2>2, <2>3, <2>4, <2>5, <2>6, <2>9, <3>1, <3>2
  <2>10. CASE t # s
    <3>1. Holds(t, m) /\ claim'[t] = claim[t] /\ held'[t] = held[t]
      BY <2>7, <2>10 DEF Holds
    <3>2. ASSUME NEW u \in Senders, u # t, Holds(u, m)'
          PROVE  claim'[u].attempt # claim'[t].attempt
      <4>1. CASE u = s
        <5>1. m = n
          BY <2>5, <3>2, <4>1 DEF Holds
        <5>2. claim[t].attempt < attempts'[n] /\ claim[t].attempt \in Nat
          BY <2>3, <2>8, <2>10, <3>1, <5>1, ClaimFields DEF Holds
        <5> QED BY <2>3, <2>4, <2>5, <3>1, <4>1, <5>2
      <4>2. CASE u # s
        BY <2>7, <3>1, <3>2, <4>2 DEF FenceInv, Holds
      <4> QED BY <4>1, <4>2
    <3> QED BY <2>2, <2>8, <2>10, <3>1, <3>2
  <2> QED BY <2>9, <2>10
<1>5. ASSUME NEW s \in Senders, ClaimLost(s) PROVE FenceInv'
  <2>1. PICK n \in Due : Claimed(s, n)
    BY <1>5 DEF ClaimLost
  <2>2. UNCHANGED <<delivered, claim, held>>
    BY <1>5 DEF ClaimLost, history
  <2>3. \A t \in Senders, m \in Notes : Holds(t, m) =>
          /\ claim[t].attempt <= attempts'[m]
          /\ claim[t].attempt < attempts'[m] => held[t] = 0
          /\ m \notin delivered => held[t] <= wait'[m]
          /\ m \in delivered => held[t] = 0
    BY <2>1, <2>2, FenceOutdated
  <2> QED BY <2>2, <2>3 DEF FenceInv, Holds
<1>6. ASSUME NEW s \in Senders, Rest(s) PROVE FenceInv'
  BY <1>6, FenceFrame DEF Rest, table, history
<1>7. ASSUME NEW s \in Senders, Deliver(s) PROVE FenceInv'
  BY <1>7, FenceFrame DEF Deliver, table
<1>8. ASSUME NEW s \in Senders, DeliverFails(s) PROVE FenceInv'
  BY <1>8, FenceFrame DEF DeliverFails, table
<1>9. ASSUME NEW s \in Senders, Finish(s) PROVE FenceInv'
  <2> DEFINE n == claim[s].note
  <2>1. claim[s] # None /\ RecordOutcome(s) /\ Forget(s) /\ attempts' = attempts
    BY <1>9 DEF Finish
  <2>2. n \in Notes /\ Holds(s, n) /\ claim[s].attempt \in Nat
    BY <2>1, ClaimFields DEF Holds
  <2>3. claim'[s] = None
    BY <2>1, ForgetEffect
  <2>4. \A t \in Senders : t # s => claim'[t] = claim[t] /\ held'[t] = held[t]
    BY <2>1, ForgetEffect
  <2>5. /\ delivered' \in SUBSET (delivered \cup {n}) /\ delivered \subseteq delivered'
        /\ delivered' # delivered => Current(s)
        /\ \A m \in Notes : m # n \/ ~Current(s) => wait'[m] = wait[m]
        /\ wait' \in [Notes -> Nat]
    BY <2>1, OutcomeEffect
  <2>6. ASSUME Current(s), NEW t \in Senders, t # s, Holds(t, n)
        PROVE  held[t] = 0
    <3>1. claim[s].attempt = attempts[n]
      BY <2>6 DEF Current
    <3>2. claim[t].attempt <= attempts[n] /\ claim[t].attempt # claim[s].attempt
      BY <2>2, <2>6 DEF FenceInv
    <3>3. claim[t].attempt \in Nat /\ attempts[n] \in Nat
      BY <2>2, <2>6, ClaimFields DEF Holds, Typed
    <3>4. claim[t].attempt < attempts[n]
      BY <3>1, <3>2, <3>3
    <3> QED BY <2>2, <2>6, <3>4 DEF FenceInv
  <2> HIDE DEF n
  <2> SUFFICES ASSUME NEW t \in Senders, NEW m \in Notes, Holds(t, m)'
               PROVE  /\ claim'[t].attempt <= attempts'[m]
                      /\ claim'[t].attempt < attempts'[m] => held'[t] = 0
                      /\ m \notin delivered' => held'[t] <= wait'[m]
                      /\ m \in delivered' => held'[t] = 0
                      /\ \A u \in Senders : u # t /\ Holds(u, m)' =>
                           claim'[u].attempt # claim'[t].attempt
    BY DEF FenceInv
  <2>7. t # s /\ Holds(t, m) /\ claim'[t] = claim[t] /\ held'[t] = held[t]
    BY <2>3, <2>4 DEF Holds
  <2>8. \A u \in Senders : u # t /\ Holds(u, m)' =>
          claim'[u].attempt # claim'[t].attempt
    BY <2>3, <2>4, <2>7 DEF FenceInv, Holds
  <2>9. /\ claim[t].attempt <= attempts[m]
        /\ claim[t].attempt < attempts[m] => held[t] = 0
        /\ m \notin delivered => held[t] <= wait[m]
        /\ m \in delivered => held[t] = 0
    BY <2>7 DEF FenceInv
  <2>10. CASE m = n /\ Current(s)
    <3>1. held[t] = 0 /\ wait'[m] \in Nat
      BY <2>5, <2>6, <2>7, <2>10
    <3> QED BY <2>1, <2>7, <2>8, <2>9, <3>1
  <2>11. CASE m # n \/ ~Current(s)
    <3>1. wait'[m] = wait[m] /\ (m \in delivered' <=> m \in delivered)
      BY <2>5, <2>11
    <3> QED BY <2>1, <2>7, <2>8, <2>9, <3>1
  <2> QED BY <2>10, <2>11
<1>10. ASSUME NEW s \in Senders, FinishFails(s) PROVE FenceInv'
  BY <1>10, ForgetEffect, FenceFrame DEF FinishFails, table
<1>11. ASSUME NEW s \in Senders, Crash(s) PROVE FenceInv'
  BY <1>11, ForgetEffect, FenceFrame DEF Crash, table
<1>12. ASSUME UNCHANGED vars PROVE FenceInv'
  BY <1>12, FenceFrame DEF vars, table, history
<1> QED BY <1>1, <1>2, <1>3, <1>4, <1>5, <1>6, <1>7, <1>8, <1>9, <1>10, <1>11, <1>12
        DEF Next

(* Of two claims on a row one is not the latest, so its lease is over.     *)
LEMMA FenceExcludes == Typed /\ FenceInv => LeaseExclusive
<1> SUFFICES ASSUME Typed, FenceInv, NEW s \in Senders, NEW t \in Senders,
                    s # t, claim[s] # None, claim[t] # None,
                    claim[s].note = claim[t].note
             PROVE  held[s] = 0 \/ held[t] = 0
  BY DEF LeaseExclusive
<1> DEFINE n == claim[s].note
<1>1. n \in Notes /\ Holds(s, n) /\ Holds(t, n)
  BY ClaimFields DEF Holds
<1>2. /\ claim[s].attempt <= attempts[n] /\ claim[t].attempt <= attempts[n]
      /\ claim[s].attempt # claim[t].attempt
      /\ claim[s].attempt < attempts[n] => held[s] = 0
      /\ claim[t].attempt < attempts[n] => held[t] = 0
  BY <1>1 DEF FenceInv
<1>3. claim[s].attempt \in Nat /\ claim[t].attempt \in Nat /\ attempts[n] \in Nat
  BY <1>1, ClaimFields DEF Typed
<1> QED BY <1>2, <1>3
-----------------------------------------------------------------------------
(* Nothing is taken or delivered at first.                                 *)
LEMMA TakenInit == Init => TakenInv
BY DEF Init, TakenInv, DeliveredReceived, Holds

(* Receipts are never forgotten; a sender may let go of its claim.         *)
LEMMA TakenFrame ==
    ASSUME Typed, TakenInv, delivered' = delivered, received' \in [Notes -> Nat],
           \A n \in Notes : received'[n] >= received[n],
           \A t \in Senders : \/ claim'[t] = None
                              \/ claim'[t] = claim[t] /\ answer'[t] = answer[t]
                              \/ answer'[t] # "taken"
    PROVE  TakenInv'
<1>1. \A n \in Notes : received[n] > 0 => received'[n] > 0
  BY DEF Typed
<1>2. delivered \subseteq Notes
  BY DEF Typed
<1> QED BY <1>1, <1>2 DEF TakenInv, DeliveredReceived, Holds

(* What is taken or delivered was received, after every step.              *)
LEMMA TakenStep == Typed /\ Bounded /\ TakenInv /\ [Next]_vars => TakenInv'
<1> SUFFICES ASSUME Typed, Bounded, TakenInv, [Next]_vars PROVE TakenInv'
  OBVIOUS
<1>0. received \in [Notes -> Nat] /\ delivered \subseteq Notes
  BY DEF Typed
<1>a. \A n \in Notes : received[n] >= received[n]
  BY <1>0
<1>1. ASSUME NEW n \in Notes, Record(n) PROVE TakenInv'
  BY <1>0, <1>a, <1>1, TakenFrame DEF Record, history
<1>2. ASSUME Tick PROVE TakenInv'
  BY <1>0, <1>a, <1>2, TakenFrame DEF Tick
<1>3. ASSUME NEW s \in Senders, Wake(s) PROVE TakenInv'
  BY <1>0, <1>a, <1>3, TakenFrame DEF Wake, table, history
<1>4. ASSUME NEW s \in Senders, Claim(s) PROVE TakenInv'
  <2>1. PICK n \in Due :
          claim' = [claim EXCEPT ![s] = [note |-> n, attempt |-> attempts[n] + 1]]
    BY <1>4 DEF Claim
  <2>2. /\ answer' = [answer EXCEPT ![s] = "none"]
        /\ UNCHANGED <<delivered, received>>
    BY <1>4 DEF Claim
  <2>3. \A t \in Senders : \/ answer'[t] # "taken"
                           \/ claim'[t] = claim[t] /\ answer'[t] = answer[t]
    BY <2>1, <2>2 DEF Typed
  <2> QED BY <1>0, <1>a, <2>2, <2>3, TakenFrame
<1>5. ASSUME NEW s \in Senders, ClaimLost(s) PROVE TakenInv'
  BY <1>0, <1>a, <1>5, TakenFrame DEF ClaimLost, history
<1>6. ASSUME NEW s \in Senders, Rest(s) PROVE TakenInv'
  BY <1>0, <1>a, <1>6, TakenFrame DEF Rest, table, history
<1>7. ASSUME NEW s \in Senders, Deliver(s) PROVE TakenInv'
  <2> DEFINE n == claim[s].note
  <2>1. /\ claim[s] # None /\ n \in Notes
        /\ answer' = [answer EXCEPT ![s] = "taken"]
        /\ received' = [received EXCEPT ![n] = @ + 1]
        /\ UNCHANGED <<delivered, claim>>
    BY <1>7, ClaimFields DEF Deliver, Working, table
  <2>2. received'[n] = received[n] + 1 /\ \A m \in Notes : m # n => received'[m] = received[m]
    BY <2>1, ReceiveEffect
  <2>3. \A m \in Notes : received[m] > 0 => received'[m] > 0
    BY <1>0, <2>2
  <2>4. received'[n] > 0
    BY <1>0, <2>1, <2>2
  <2>5. \A t \in Senders : t # s => answer'[t] = answer[t]
    BY <2>1 DEF Typed
  <2>6. \A m \in Notes : Holds(s, m)' => m = n
    BY <2>1 DEF Holds
  <2> HIDE DEF n
  <2>7. \A t \in Senders, m \in Notes :
          Holds(t, m)' /\ answer'[t] = "taken" => received'[m] > 0
    <3> SUFFICES ASSUME NEW t \in Senders, NEW m \in Notes,
                        Holds(t, m)', answer'[t] = "taken"
                 PROVE  received'[m] > 0
      OBVIOUS
    <3>1. CASE t = s
      BY <2>4, <2>6, <3>1
    <3>2. CASE t # s
      BY <2>1, <2>3, <2>5, <3>2 DEF TakenInv, Holds
    <3> QED BY <3>1, <3>2
  <2>8. \A m \in delivered' : received'[m] > 0
    BY <1>0, <2>1, <2>3 DEF TakenInv, DeliveredReceived
  <2> QED BY <2>7, <2>8 DEF TakenInv, DeliveredReceived
<1>8. ASSUME NEW s \in Senders, DeliverFails(s) PROVE TakenInv'
  <2>1. /\ claim[s] # None /\ answer' = [answer EXCEPT ![s] = "failed"]
        /\ UNCHANGED <<delivered, claim>>
    BY <1>8 DEF DeliverFails, Working, table
  <2>2. received' \in [Notes -> Nat] /\ \A n \in Notes : received'[n] >= received[n]
    <3>1. CASE received' = received
      BY <1>0, <3>1
    <3>2. CASE received' = [received EXCEPT ![claim[s].note] = @ + 1]
      BY <1>0, <2>1, <3>2, ReceiveEffect
    <3> QED BY <1>8, <3>1, <3>2 DEF DeliverFails
  <2>3. \A t \in Senders : answer'[t] # "taken" \/ answer'[t] = answer[t]
    BY <2>1 DEF Typed
  <2> QED BY <2>1, <2>2, <2>3, TakenFrame
<1>9. ASSUME NEW s \in Senders, Finish(s) PROVE TakenInv'
  <2> DEFINE n == claim[s].note
  <2>1. /\ claim[s] # None /\ n \in Notes /\ RecordOutcome(s) /\ Forget(s)
        /\ received' = received
    BY <1>9, ClaimFields DEF Finish
  <2>2. /\ delivered' \in SUBSET (delivered \cup {n})
        /\ delivered' # delivered => answer[s] = "taken"
    BY <2>1, OutcomeEffect
  <2>3. answer[s] = "taken" => received[n] > 0
    BY <2>1 DEF TakenInv, Holds
  <2>4. \A m \in delivered' : received[m] > 0
    BY <2>2, <2>3 DEF TakenInv, DeliveredReceived
  <2>5. \A t \in Senders : \/ claim'[t] = None
                           \/ claim'[t] = claim[t] /\ answer'[t] = answer[t]
    BY <2>1, ForgetEffect
  <2> QED BY <2>1, <2>4, <2>5 DEF TakenInv, DeliveredReceived, Holds
<1>10. ASSUME NEW s \in Senders, FinishFails(s) PROVE TakenInv'
  BY <1>0, <1>a, <1>10, ForgetEffect, TakenFrame DEF FinishFails, table
<1>11. ASSUME NEW s \in Senders, Crash(s) PROVE TakenInv'
  BY <1>0, <1>a, <1>11, ForgetEffect, TakenFrame DEF Crash, table
<1>12. ASSUME UNCHANGED vars PROVE TakenInv'
  BY <1>0, <1>a, <1>12, TakenFrame DEF vars, table, history
<1> QED BY <1>1, <1>2, <1>3, <1>4, <1>5, <1>6, <1>7, <1>8, <1>9, <1>10, <1>11, <1>12
        DEF Next
-----------------------------------------------------------------------------
(* Every term of a row's account is a number.                              *)
LEMMA AccountType ==
    ASSUME Typed, NEW n \in Notes
    PROVE  /\ IsFiniteSet(Fresh(n)) /\ Cardinality(Fresh(n)) \in Nat
           /\ received[n] \in Nat /\ spoiled[n] \in Nat /\ Mark(n) \in 0..1
<1>1. Fresh(n) \subseteq Senders
  BY DEF Fresh, Unmarked
<1>2. IsFiniteSet(Fresh(n)) /\ Cardinality(Fresh(n)) \in Nat
  BY <1>1, SendersFinite
<1> QED BY <1>2 DEF Typed, Mark

(* No row is in hand or delivered at first.                                *)
LEMMA AccountInit == Init => AccountInv
<1> SUFFICES ASSUME Init, NEW n \in Notes
             PROVE  received[n] <= spoiled[n] + Cardinality(Fresh(n)) + Mark(n)
  BY DEF AccountInv
<1>1. Fresh(n) = {}
  BY DEF Init, Fresh, Unmarked
<1>2. Cardinality({}) = 0
  BY FS_EmptySet
<1> QED BY <1>1, <1>2 DEF Init, Mark

(* Only claims, their leases and answers, marks and the two counts matter. *)
LEMMA AccountFrame ==
    ASSUME AccountInv, UNCHANGED <<delivered, received, spoiled, claim, answer, held>>
    PROVE  AccountInv'
BY DEF AccountInv, Fresh, Unmarked, Mark

(* A sender that lets go of its claim leaves the set of its row.           *)
LEMMA ForgetSets ==
    ASSUME Typed, NEW s \in Senders, Forget(s), NEW n \in Notes
    PROVE  /\ Cardinality(Fresh(n)') \in Nat
           /\ Cardinality(Fresh(n)') =
                IF s \in Fresh(n) THEN Cardinality(Fresh(n)) - 1 ELSE Cardinality(Fresh(n))
<1>1. Fresh(n)' = Fresh(n) \ {s}
  BY ForgetEffect DEF Fresh, Unmarked
<1>2. Cardinality(Fresh(n) \ {s}) =
        IF s \in Fresh(n) THEN Cardinality(Fresh(n)) - 1 ELSE Cardinality(Fresh(n))
  BY AccountType, FS_RemoveElement
<1>3. Fresh(n) \ {s} \subseteq Senders
  BY DEF Fresh, Unmarked
<1> QED BY <1>1, <1>2, <1>3, SendersFinite

(* A delivery given up at a failure is paid for by that failure.           *)
LEMMA AccountSpoiled ==
    ASSUME Typed, AccountInv, NEW s \in Senders, Forget(s), Spoil({s} \cap Unmarked),
           UNCHANGED <<delivered, received>>
    PROVE  AccountInv'
<1> SUFFICES ASSUME NEW n \in Notes
             PROVE  received'[n] <= spoiled'[n] + Cardinality(Fresh(n)') + Mark(n)'
  BY DEF AccountInv
<1>1. received[n] <= spoiled[n] + Cardinality(Fresh(n)) + Mark(n)
  BY DEF AccountInv
<1>2. /\ Cardinality(Fresh(n)') \in Nat
      /\ Cardinality(Fresh(n)') =
           IF s \in Fresh(n) THEN Cardinality(Fresh(n)) - 1 ELSE Cardinality(Fresh(n))
  BY ForgetSets
<1>3. spoiled'[n] >= spoiled[n] /\ spoiled'[n] \in Nat
  BY SpoilEffect
<1>4. s \in Fresh(n) => spoiled'[n] >= spoiled[n] + 1
  <2>1. {s} \cap Unmarked \subseteq Senders
    OBVIOUS
  <2> QED BY <2>1, SpoilEffect DEF Fresh
<1>5. Mark(n)' = Mark(n) /\ received'[n] = received[n]
  BY DEF Mark
<1> QED BY <1>1, <1>2, <1>3, <1>4, <1>5, AccountType

(* A second of the clock: each delivery whose lease runs out before it is  *)
(* recorded is counted.                                                    *)
LEMMA AccountTick ==
    ASSUME Typed, AccountInv, Tick
    PROVE  AccountInv'
<1> SUFFICES ASSUME NEW n \in Notes
             PROVE  received'[n] <= spoiled'[n] + Cardinality(Fresh(n)') + Mark(n)'
  BY DEF AccountInv
<1> DEFINE ended == {s \in Overrun \cap Unmarked : claim[s].note = n}
<1>1. /\ held' = [s \in Senders |-> Down(held[s])]
      /\ UNCHANGED <<delivered, claim, answer, received>>
  BY DEF Tick
<1>2. \A s \in Senders : /\ held[s] \in 0..Lease
                         /\ held'[s] > 0 <=> held[s] > 0 /\ held[s] # 1
  BY <1>1, OutboxAssumption DEF Typed, Down
<1>3. Fresh(n)' = Fresh(n) \ ended /\ Fresh(n) \cap ended = ended
  BY <1>1, <1>2 DEF Fresh, Unmarked, Overrun
<1>4. ended \subseteq Senders
  BY DEF Overrun
<1>5. spoiled'[n] = spoiled[n] + Cardinality(ended)
  <2>1. CASE Overrun = {}
    <3>1. ended = {} /\ spoiled' = spoiled
      BY <2>1 DEF Tick
    <3>2. Cardinality({}) = 0
      BY FS_EmptySet
    <3>3. Cardinality(ended) = 0
      BY <3>1, <3>2, Zenon
    <3> HIDE DEF ended
    <3> QED BY <3>1, <3>3, AccountType
  <2>2. CASE Overrun # {}
    <3>1. Spoil(Overrun \cap Unmarked) /\ Overrun \cap Unmarked \subseteq Senders
      BY <2>2 DEF Tick, Overrun
    <3> QED BY <3>1, SpoilEffect
  <2> QED BY <2>1, <2>2
<1> HIDE DEF ended
<1>6. Cardinality(ended) \in Nat
  BY <1>4, SendersFinite
<1>7. Cardinality(Fresh(n)') = Cardinality(Fresh(n)) - Cardinality(ended)
  <2>1. Cardinality(Fresh(n) \ ended)
          = Cardinality(Fresh(n)) - Cardinality(Fresh(n) \cap ended)
    BY AccountType, FS_Difference
  <2> QED BY <1>3, <2>1
<1>8. Mark(n)' = Mark(n) /\ received'[n] = received[n]
  BY <1>1 DEF Mark
<1>9. received[n] <= spoiled[n] + Cardinality(Fresh(n)) + Mark(n)
  BY DEF AccountInv
<1> QED BY <1>5, <1>6, <1>7, <1>8, <1>9, AccountType

(* A new claim has no answer: it is in no set.                             *)
LEMMA AccountClaim ==
    ASSUME Typed, AccountInv, NEW s \in Senders, Claim(s)
    PROVE  AccountInv'
<1>1. PICK n \in Due :
        claim' = [claim EXCEPT ![s] = [note |-> n, attempt |-> attempts[n] + 1]]
  BY DEF Claim
<1>2. /\ answer' = [answer EXCEPT ![s] = "none"] /\ held' = [held EXCEPT ![s] = Lease]
      /\ UNCHANGED <<delivered, received, spoiled>> /\ claim[s] = None
  BY DEF Claim
<1>3. /\ \A t \in Senders : t # s =>
           claim'[t] = claim[t] /\ answer'[t] = answer[t] /\ held'[t] = held[t]
      /\ answer'[s] = "none"
  BY <1>1, <1>2 DEF Typed
<1>4. \A m \in Notes : Fresh(m)' = Fresh(m) /\ Mark(m)' = Mark(m)
  BY <1>2, <1>3 DEF Fresh, Unmarked, Mark
<1> QED BY <1>2, <1>4 DEF AccountInv

(* A delivery: a late one is counted, and one within its lease joins those *)
(* whose record is due.                                                    *)
LEMMA AccountDeliver ==
    ASSUME Typed, AccountInv, NEW s \in Senders, Deliver(s)
    PROVE  AccountInv'
<1>0. claim[s] # None /\ claim[s].note \in Notes
  BY ClaimFields DEF Deliver, Working
<1> PICK n \in Notes : n = claim[s].note
  BY <1>0
<1>1. /\ claim[s] # None /\ answer[s] = "none" /\ n \in Notes
      /\ answer' = [answer EXCEPT ![s] = "taken"]
      /\ received' = [received EXCEPT ![n] = @ + 1]
      /\ IF held[s] = 0 THEN Spoil({s}) ELSE spoiled' = spoiled
      /\ UNCHANGED <<delivered, claim, held>>
  BY <1>0 DEF Deliver, Working, table
<1>2. received'[n] = received[n] + 1 /\ \A m \in Notes : m # n => received'[m] = received[m]
  BY <1>1, ReceiveEffect
<1>3. answer'[s] = "taken" /\ \A t \in Senders : t # s => answer'[t] = answer[t]
  BY <1>1 DEF Typed
<1>4. \A m \in Notes : Mark(m)' = Mark(m)
  BY <1>1 DEF Mark
<1>5. \A m \in Notes : m # n => Fresh(m)' = Fresh(m)
  BY <1>1, <1>3 DEF Fresh, Unmarked
<1>6. held[s] \in Nat
  BY OutboxAssumption DEF Typed
<1>7. ASSUME NEW m \in Notes
      PROVE  received'[m] <= spoiled'[m] + Cardinality(Fresh(m)') + Mark(m)'
  <2>1. received[m] <= spoiled[m] + Cardinality(Fresh(m)) + Mark(m)
    BY DEF AccountInv
  <2>2. CASE held[s] = 0
    <3>1. Fresh(n)' = Fresh(n)
      BY <1>1, <1>3, <2>2 DEF Fresh, Unmarked
    <3>2. /\ spoiled'[m] \in Nat /\ spoiled'[m] >= spoiled[m]
          /\ m = n => spoiled'[m] >= spoiled[m] + 1
      BY <1>1, <2>2, SpoilEffect
    <3>3. Fresh(m)' = Fresh(m)
      BY <1>5, <3>1
    <3> QED BY <1>2, <1>4, <2>1, <3>2, <3>3, AccountType
  <2>3. CASE held[s] > 0 /\ m # n
    BY <1>1, <1>2, <1>4, <1>5, <1>6, <2>1, <2>3
  <2>4. CASE held[s] > 0 /\ m = n
    <3>1. Fresh(n)' = Fresh(n) \cup {s} /\ s \notin Fresh(n)
      BY <1>1, <1>3, <2>4 DEF Fresh, Unmarked
    <3>2. Cardinality(Fresh(n)') = Cardinality(Fresh(n)) + 1
      BY <3>1, AccountType, FS_AddElement
    <3> QED BY <1>1, <1>2, <1>4, <1>6, <2>1, <2>4, <3>2, AccountType
  <2> QED BY <1>6, <2>2, <2>3, <2>4
<1> QED BY <1>7 DEF AccountInv

(* A failed call: if the webhook took the event, the lost answer counts.   *)
LEMMA AccountDeliverFails ==
    ASSUME Typed, AccountInv, NEW s \in Senders, DeliverFails(s)
    PROVE  AccountInv'
<1> DEFINE n == claim[s].note
<1>1. /\ claim[s] # None /\ answer[s] = "none" /\ n \in Notes
      /\ answer' = [answer EXCEPT ![s] = "failed"]
      /\ UNCHANGED <<delivered, claim, held>>
  BY ClaimFields DEF DeliverFails, Working, table
<1>2. answer'[s] = "failed" /\ \A t \in Senders : t # s => answer'[t] = answer[t]
  BY <1>1 DEF Typed
<1>3. ASSUME NEW m \in Notes
      PROVE  received'[m] <= spoiled'[m] + Cardinality(Fresh(m)') + Mark(m)'
  <2>1. received[m] <= spoiled[m] + Cardinality(Fresh(m)) + Mark(m)
    BY DEF AccountInv
  <2>2. Fresh(m)' = Fresh(m) /\ Mark(m)' = Mark(m)
    BY <1>1, <1>2 DEF Fresh, Unmarked, Mark
  <2>3. CASE UNCHANGED <<received, spoiled>>
    BY <2>1, <2>2, <2>3
  <2>4. CASE received' = [received EXCEPT ![n] = @ + 1] /\ Spoil({s})
    <3>1. /\ m = n => received'[m] = received[m] + 1
          /\ m # n => received'[m] = received[m]
      BY <1>1, <2>4, ReceiveEffect
    <3>2. /\ spoiled'[m] \in Nat /\ spoiled'[m] >= spoiled[m]
          /\ m = n => spoiled'[m] >= spoiled[m] + 1
      BY <2>4, SpoilEffect
    <3> HIDE DEF n
    <3> QED BY <2>1, <2>2, <3>1, <3>2, AccountType
  <2> QED BY <2>3, <2>4 DEF DeliverFails
<1> QED BY <1>3 DEF AccountInv

(* A delivery recorded within its lease is current, so the row is marked.  *)
LEMMA AccountFinish ==
    ASSUME Typed, Bounded, FenceInv, AccountInv, NEW s \in Senders, Finish(s)
    PROVE  AccountInv'
<1> DEFINE n == claim[s].note
<1>1. /\ claim[s] # None /\ answer[s] # "none" /\ n \in Notes /\ Holds(s, n)
      /\ RecordOutcome(s) /\ Forget(s) /\ UNCHANGED <<received, spoiled>>
  BY ClaimFields DEF Finish, Holds
<1>2. /\ delivered \subseteq delivered'
      /\ Current(s) /\ answer[s] = "taken" => n \in delivered'
  BY <1>1, OutcomeEffect
<1>3. ASSUME NEW m \in Notes, s \in Fresh(m)
      PROVE  m \in delivered' /\ m \notin delivered
  <2>1. m = n /\ held[s] > 0 /\ answer[s] = "taken"
    BY <1>3 DEF Fresh, Unmarked
  <2>2. /\ claim[s].attempt <= attempts[n]
        /\ claim[s].attempt < attempts[n] => held[s] = 0
        /\ n \in delivered => held[s] = 0
    BY <1>1 DEF FenceInv
  <2>3. claim[s].attempt \in Nat /\ attempts[n] \in Nat /\ held[s] \in Nat
    <3>1. claim[s].attempt \in Nat
      BY <1>1, ClaimFields
    <3> HIDE DEF n
    <3> QED BY <1>1, <3>1, OutboxAssumption DEF Typed
  <2>4. Current(s) /\ n \notin delivered
    BY <2>1, <2>2, <2>3 DEF Current
  <2> QED BY <1>2, <2>1, <2>4
<1>4. ASSUME NEW m \in Notes
      PROVE  received'[m] <= spoiled'[m] + Cardinality(Fresh(m)') + Mark(m)'
  <2>1. received[m] <= spoiled[m] + Cardinality(Fresh(m)) + Mark(m)
    BY DEF AccountInv
  <2>2. /\ Cardinality(Fresh(m)') \in Nat
        /\ Cardinality(Fresh(m)') =
             IF s \in Fresh(m) THEN Cardinality(Fresh(m)) - 1 ELSE Cardinality(Fresh(m))
    BY <1>1, ForgetSets
  <2>3. /\ Mark(m)' \in 0..1 /\ Mark(m)' >= Mark(m)
        /\ s \in Fresh(m) => Mark(m)' = Mark(m) + 1
    BY <1>2, <1>3 DEF Mark
  <2>4. received'[m] = received[m] /\ spoiled'[m] = spoiled[m]
    BY <1>1
  <2> HIDE DEF n
  <2> QED BY <2>1, <2>2, <2>3, <2>4, AccountType
<1> QED BY <1>4 DEF AccountInv

(* The account is kept by every step.                                      *)
LEMMA AccountStep ==
    Typed /\ Bounded /\ FenceInv /\ AccountInv /\ [Next]_vars => AccountInv'
<1> SUFFICES ASSUME Typed, Bounded, FenceInv, AccountInv, [Next]_vars
             PROVE  AccountInv'
  OBVIOUS
<1>1. ASSUME NEW n \in Notes, Record(n) PROVE AccountInv'
  BY <1>1, AccountFrame DEF Record, history
<1>2. ASSUME NEW s \in Senders, Wake(s) \/ ClaimLost(s) \/ Rest(s) PROVE AccountInv'
  BY <1>2, AccountFrame DEF Wake, ClaimLost, Rest, table, history
<1>3. ASSUME NEW s \in Senders, FinishFails(s) \/ Crash(s) PROVE AccountInv'
  BY <1>3, AccountSpoiled DEF FinishFails, Crash, table
<1>4. ASSUME UNCHANGED vars PROVE AccountInv'
  BY <1>4, AccountFrame DEF vars, table, history
<1> QED BY <1>1, <1>2, <1>3, <1>4, AccountTick, AccountClaim, AccountDeliver,
           AccountDeliverFails, AccountFinish DEF Next

(* Within a lease there is at most one sender on a row, and on a delivered *)
(* row there is none: one delivery at most is not yet accounted for.       *)
LEMMA AccountExplains == Typed /\ FenceInv /\ AccountInv => RepeatsExplained
<1> SUFFICES ASSUME Typed, FenceInv, AccountInv, NEW n \in Notes
             PROVE  received[n] <= 1 + spoiled[n]
  BY DEF RepeatsExplained
<1>1. received[n] <= spoiled[n] + Cardinality(Fresh(n)) + Mark(n)
  BY DEF AccountInv
<1>2. \A s, t \in Fresh(n) : s = t
  <2> SUFFICES ASSUME NEW s \in Fresh(n), NEW t \in Fresh(n), s # t PROVE FALSE
    OBVIOUS
  <2>1. s \in Senders /\ t \in Senders /\ claim[s] # None /\ claim[t] # None
        /\ claim[s].note = claim[t].note /\ held[s] > 0 /\ held[t] > 0
    BY DEF Fresh, Unmarked
  <2>2. held[s] = 0 \/ held[t] = 0
    BY <2>1, FenceExcludes DEF LeaseExclusive
  <2> QED BY <2>1, <2>2
<1>3. n \in delivered => Fresh(n) = {}
  BY DEF FenceInv, Fresh, Unmarked, Holds
<1>4. Cardinality({}) = 0
  BY FS_EmptySet
<1>5. CASE Fresh(n) = {}
  <2>1. Cardinality(Fresh(n)) = 0
    BY <1>4, <1>5, Zenon
  <2> QED BY <1>1, <2>1, AccountType
<1>6. CASE Fresh(n) # {}
  <2>1. PICK s : Fresh(n) = {s}
    BY <1>2, <1>6
  <2>2. Cardinality({s}) = 1
    BY FS_Singleton
  <2>3. Cardinality(Fresh(n)) = 1
    BY <2>1, <2>2, Zenon
  <2>4. Mark(n) = 0
    BY <1>3, <1>6 DEF Mark
  <2> QED BY <1>1, <2>3, <2>4, AccountType
<1> QED BY <1>5, <1>6
-----------------------------------------------------------------------------
(* The inductive invariant holds in every reachable state.                 *)
THEOREM Inductive == Spec => []IInv
<1>1. Init => IInv
  BY TypedInit, FenceInit, TakenInit, AccountInit DEF IInv
<1>2. IInv /\ [Next]_vars => IInv'
  BY TypedStep, FenceStep, TakenStep, AccountStep DEF IInv
<1> QED BY <1>1, <1>2, PTL DEF Spec

(* The outbox is well-typed: no row waits longer than a lease or the       *)
(* capped backoff, and a row marked delivered was taken by the webhook.    *)
THEOREM Outbox == Spec => []OutboxInv
<1>1. IInv => OutboxInv
  <2> SUFFICES ASSUME IInv PROVE OutboxInv
    OBVIOUS
  <2>1. 2 ^ MaxShift \in Nat /\ Lease \in Nat
    BY Powers, OutboxAssumption
  <2>2. \A n \in Notes : wait[n] \in 0..Lease \/ wait[n] \in 0..2 ^ MaxShift
    BY <2>1 DEF IInv, Typed, Bounded
  <2>3. TypeOK
    BY <2>2 DEF IInv, Typed, Answers, TypeOK
  <2> QED BY <2>3 DEF IInv, TakenInv, OutboxInv
<1> QED BY <1>1, Inductive, PTL

(* Two senders hold the same row only if one has outlived its lease.       *)
THEOREM Exclusion == Spec => []LeaseExclusive
<1>1. IInv => LeaseExclusive
  BY FenceExcludes DEF IInv
<1> QED BY <1>1, Inductive, PTL

(* Every delivery of a row beyond the first has a cause of its own: a      *)
(* delivery whose answer was lost, whose record failed or was cut, or that *)
(* was made or left unrecorded past its lease.                             *)
THEOREM Repeats == Spec => []RepeatsExplained
<1>1. IInv => RepeatsExplained
  BY AccountExplains DEF IInv
<1> QED BY <1>1, Inductive, PTL
=============================================================================
