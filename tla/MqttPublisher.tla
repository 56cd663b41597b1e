--------------------------- MODULE MqttPublisher ---------------------------
(***************************************************************************)
(* The asynchronous write route: publish in deploy/nodered/ingestion.js,   *)
(* the broker, Telegraf and the SQL adapter behind it.                     *)
(*                                                                         *)
(* A publish call counts itself in pending, hands its document to the MQTT *)
(* client and waits for the PUBACK or for 5 seconds, whichever comes       *)
(* first; the count goes down only with the PUBACK.  The client keeps an   *)
(* unacknowledged packet and sends it again after a reconnect.  The broker *)
(* saves its queue now and then, and loses what it must drop or has not    *)
(* saved.  Telegraf acknowledges a document once the adapter has stored or *)
(* quarantined it.  Client, broker and Telegraf are external programs; the *)
(* adapter is the one of ObservationStore, in a single step.               *)
(***************************************************************************)
EXTENDS Integers, FiniteSets

CONSTANTS Calls,      \* calls of publish
          Ids,        \* observation identifiers
          Bodies,     \* contents of observations
          Limit,      \* unacknowledged packets at most (64 in the code)
          QueueLimit, \* max_queued_messages of the broker
          MaxFaults,  \* bound: failures of any kind in one behaviour
          None        \* no document, nothing stored

Docs == [id : Ids, body : Bodies]

ASSUME PublisherAssumption ==
    /\ Limit \in Nat \ {0}
    /\ QueueLimit \in Nat \ {0}
    /\ MaxFaults \in Nat
    /\ None \notin Docs \cup Bodies

VARIABLES
    connected, \* client.connected
    pending,   \* the counter of createIngestion
    answer,    \* per call: "none", "waiting", or what the caller was told
    doc,       \* per call, its document
    open,      \* calls that are not completed: packets the client still has
    wire,      \* packets under way to the broker
    acks,      \* PUBACKs under way to the client
    queue,     \* per call, its copies in the broker's queue for Telegraf
    saved,     \* the queue as of the last autosave
    kept,      \* per identifier, the stored content
    rejected,  \* documents in sensor.rejected_messages
    lost,      \* history: calls whose packet the broker dropped or lost
    faults     \* failures so far

publisher == <<pending, answer, doc, open>>
network == <<connected, wire, acks>>
broker == <<queue, saved, lost>>
store == <<kept, rejected>>
vars == <<publisher, network, broker, store, faults>>

Init ==
    /\ connected = FALSE /\ pending = 0
    /\ answer = [c \in Calls |-> "none"]
    /\ doc = [c \in Calls |-> None]
    /\ open = {} /\ wire = {} /\ acks = {}
    /\ queue = [c \in Calls |-> 0]
    /\ saved = [c \in Calls |-> 0]
    /\ kept = [i \in Ids |-> None] /\ rejected = {}
    /\ lost = {} /\ faults = 0

Fault == faults < MaxFaults /\ faults' = faults + 1
-----------------------------------------------------------------------------
(* validate finds fault with the document: 422.                            *)
Invalid(c) == answer' = [answer EXCEPT ![c] = "invalid"]

(* There is no connection, or too much is unacknowledged: 503.             *)
Busy == pending >= Limit
Unavailable(c) == (~connected \/ Busy) /\ answer' = [answer EXCEPT ![c] = "refused"]

Refuse(c) ==
    /\ answer[c] = "none"
    /\ Invalid(c) \/ Unavailable(c)
    /\ UNCHANGED <<pending, doc, open, network, broker, store, faults>>

(* Regression: one call too many is admitted.                              *)
AdmittedLate == connected /\ pending <= Limit

Admitted == connected /\ ~Busy

(* client.publish with QoS 1.  A retry is a call with the document of an   *)
(* earlier one.                                                            *)
Publish(c) ==
    /\ answer[c] = "none"
    /\ Admitted
    /\ \E d \in Docs : doc' = [doc EXCEPT ![c] = d]
    /\ pending' = pending + 1
    /\ answer' = [answer EXCEPT ![c] = "waiting"]
    /\ open' = open \cup {c}
    /\ wire' = wire \cup {c}
    /\ UNCHANGED <<connected, acks, broker, store, faults>>

(* client.publish throws: done(err) counts down again at once.             *)
PublishThrows(c) ==
    /\ answer[c] = "none"
    /\ Admitted
    /\ Fault
    /\ answer' = [answer EXCEPT ![c] = "failed"]
    /\ UNCHANGED <<pending, doc, open, network, broker, store>>

(* Regression: the timer counts down, and done will again.                 *)
CountdownAtTimeout == pending' = pending - 1

KeepCount == UNCHANGED pending

(* The 5 s timer: 503, while the packet stays with the client.             *)
Timeout(c) ==
    /\ answer[c] = "waiting"
    /\ answer' = [answer EXCEPT ![c] = "timed out"]
    /\ KeepCount
    /\ UNCHANGED <<doc, open, network, broker, store, faults>>

(* Regression: a late PUBACK still answers.                                *)
SettleAgain(c, outcome) == answer' = [answer EXCEPT ![c] = outcome]

(* if (settled) return.                                                    *)
Settle(c, outcome) ==
    answer' = IF answer[c] = "waiting" THEN [answer EXCEPT ![c] = outcome] ELSE answer

(* Regression: the count stays.                                            *)
DoneUncounted(c, outcome) ==
    /\ open' = open \ {c}
    /\ UNCHANGED pending
    /\ Settle(c, outcome)

(* The callback done.                                                      *)
Done(c, outcome) ==
    IF c \in open
    THEN /\ open' = open \ {c}
         /\ pending' = pending - 1
         /\ Settle(c, outcome)
    ELSE UNCHANGED <<open, pending, answer>>

(* A PUBACK arrives; that of a packet sent twice may come twice.           *)
Acknowledge(c) ==
    /\ c \in acks
    /\ Done(c, "accepted")
    /\ \/ acks' = acks \ {c} /\ UNCHANGED faults
       \/ Fault /\ UNCHANGED acks
    /\ UNCHANGED <<doc, connected, wire, broker, store>>

(* The client gives a packet up and calls back with an error.              *)
GiveUp(c) ==
    /\ c \in open
    /\ Fault
    /\ Done(c, "failed")
    /\ UNCHANGED <<doc, network, broker, store>>

(* Node-RED ends and starts again: its packets are gone, its callers get   *)
(* no answer.                                                              *)
RestartNodeRed ==
    /\ Fault
    /\ answer' = [c \in Calls |-> IF answer[c] = "waiting" THEN "failed" ELSE answer[c]]
    /\ open' = {} /\ pending' = 0
    /\ connected' = FALSE /\ acks' = {}
    /\ UNCHANGED <<doc, wire, broker, store>>
-----------------------------------------------------------------------------
(* The client connects and sends again what was not acknowledged.          *)
Connect ==
    /\ ~connected
    /\ connected' = TRUE
    /\ wire' = open /\ acks' = {}
    /\ UNCHANGED <<publisher, broker, store, faults>>

Disconnect ==
    /\ connected
    /\ Fault
    /\ connected' = FALSE
    /\ acks' = {}
    /\ UNCHANGED <<publisher, wire, broker, store>>

(* The messages in the queue: a packet that came twice is there twice.     *)
Copies == UNION {{c} \X (1..queue[c]) : c \in Calls}

(* Regression: the PUBACK precedes the enqueueing.                         *)
EnqueueLater(c) == UNCHANGED queue

Enqueue(c) == queue' = [queue EXCEPT ![c] = @ + 1]

(* PUBLISH arrives; a full queue drops it.  What was under way when the    *)
(* connection broke may still arrive, or not.                              *)
Receive(c) ==
    /\ c \in wire
    /\ wire' = wire \ {c}
    /\ acks' = IF connected THEN acks \cup {c} ELSE acks
    /\ IF Cardinality(Copies) < QueueLimit
       THEN Enqueue(c) /\ UNCHANGED lost
       ELSE lost' = lost \cup {c} /\ UNCHANGED queue
    /\ UNCHANGED <<connected, publisher, saved, store, faults>>

Autosave ==
    /\ saved # queue
    /\ saved' = queue
    /\ UNCHANGED <<publisher, network, queue, lost, store, faults>>

(* The broker dies and comes back with the queue it has saved; what the    *)
(* client still has will come again.                                       *)
CrashBroker ==
    /\ Fault
    /\ queue' = saved
    /\ lost' = lost \cup {c \in Calls \ open : queue[c] > saved[c]}
    /\ connected' = FALSE /\ wire' = {} /\ acks' = {}
    /\ UNCHANGED <<publisher, saved, store>>

(* Regression: a conflicting document is forgotten.                        *)
IngestQuietly(d) ==
    /\ kept' = [kept EXCEPT ![d.id] = IF @ = None THEN d.body ELSE @]
    /\ UNCHANGED rejected

(* sensor.ingest_mqtt: a replay changes nothing, a conflict is quarantined.*)
Ingest(d) ==
    IF kept[d.id] \in {None, d.body}
    THEN kept' = [kept EXCEPT ![d.id] = d.body] /\ UNCHANGED rejected
    ELSE rejected' = rejected \cup {d} /\ UNCHANGED kept

(* The Go API stores an observation by the other route.                    *)
PutByApi(i) ==
    /\ kept[i] = None
    /\ Fault
    /\ \E b \in Bodies : kept' = [kept EXCEPT ![i] = b]
    /\ UNCHANGED <<publisher, network, broker, rejected>>

(* Telegraf's COPY commits; its acknowledgment reaches the broker or, with *)
(* a lost connection or a restart, does not, and the document comes again. *)
Write(c) ==
    /\ queue[c] > 0
    /\ Ingest(doc[c])
    /\ \/ queue' = [queue EXCEPT ![c] = @ - 1] /\ UNCHANGED faults
       \/ Fault /\ UNCHANGED queue
    /\ UNCHANGED <<publisher, network, saved, lost>>

CallStep(c) ==
    \/ Refuse(c) \/ Publish(c) \/ PublishThrows(c)
    \/ Timeout(c) \/ Acknowledge(c) \/ GiveUp(c)

Next ==
    \/ \E c \in Calls : CallStep(c) \/ Receive(c) \/ Write(c)
    \/ \E i \in Ids : PutByApi(i)
    \/ RestartNodeRed \/ Connect \/ Disconnect \/ Autosave \/ CrashBroker

Spec == Init /\ [][Next]_vars

(* The client reconnects (reconnectPeriod 1 s), broker, client and         *)
(* Telegraf go on; failures end (MaxFaults).                               *)
FairSpec ==
    /\ Spec
    /\ WF_vars(Connect)
    /\ \A c \in Calls : /\ WF_vars(Acknowledge(c))
                        /\ WF_vars(Receive(c))
                        /\ WF_vars(Write(c))
-----------------------------------------------------------------------------
Answers == {"none", "waiting", "accepted", "refused", "invalid", "timed out", "failed"}

(* Type correctness.                                                       *)
TypeOK ==
    /\ connected \in BOOLEAN
    /\ pending \in 0..Limit
    /\ answer \in [Calls -> Answers]
    /\ doc \in [Calls -> Docs \cup {None}]
    /\ open \subseteq Calls /\ wire \subseteq Calls /\ acks \subseteq Calls
    /\ queue \in [Calls -> Nat]
    /\ saved \in [Calls -> Nat]
    /\ kept \in [Ids -> Bodies \cup {None}]
    /\ rejected \subseteq Docs
    /\ lost \subseteq Calls
    /\ faults \in 0..MaxFaults

(* pending counts the packets the client still has, neither drifting down  *)
(* by a timeout and its late PUBACK nor up by a lost callback; whoever     *)
(* waits is among them.                                                    *)
PendingExact ==
    /\ pending = Cardinality(open)
    /\ \A c \in Calls : answer[c] = "waiting" => c \in open

(* ... and it is typed: never above its limit, never negative.             *)
CountInv == TypeOK /\ PendingExact

(* 202 only for what the broker has: an accepted document is queued,       *)
(* stored or quarantined, unless the broker itself lost it: a full queue,  *)
(* or a crash before the next autosave.                                    *)
Landed(c) ==
    doc[c] # None /\ (kept[doc[c].id] = doc[c].body \/ doc[c] \in rejected)
Reached(c) == queue[c] > 0 \/ Landed(c) \/ c \in lost
AcceptedReached == \A c \in Calls : answer[c] = "accepted" => Reached(c)

(* What makes these inductive: a call that still has its packet has not    *)
(* been answered by the callback; whatever is under way has a document;    *)
(* a PUBACK already means what 202 says.                                   *)
OpenInv ==
    /\ IsFiniteSet(open)
    /\ \A c \in open : answer[c] \in {"waiting", "timed out"}
DocInv ==
    \A c \in Calls :
        c \in open \cup wire \cup acks \/ queue[c] > 0 \/ saved[c] > 0 \/ answer[c] = "accepted"
            => doc[c] \in Docs /\ answer[c] # "none"
AckInv == \A c \in acks : Reached(c)
PublisherInv == PendingExact /\ OpenInv /\ DocInv /\ AckInv /\ AcceptedReached

Final == Answers \ {"none", "waiting"}

(* A call is answered once: a PUBACK after the timeout does not turn 503   *)
(* into 202.                                                               *)
AnsweredOnce == [][\A c \in Calls : answer[c] \in Final => answer'[c] = answer[c]]_vars

(* Stored contents stay, whatever arrives later on either route.           *)
FirstStays == [][\A i \in Ids : kept[i] # None => kept'[i] = kept[i]]_vars

(* A full publisher becomes free again: packets that timed out do not use  *)
(* up its capacity for ever.                                               *)
CapacityReturns == Busy ~> ~Busy

(* An accepted document ends in the store or in quarantine.                *)
AcceptedLands ==
    \A c \in Calls : answer[c] = "accepted" ~> (Landed(c) \/ c \in lost)
=============================================================================
