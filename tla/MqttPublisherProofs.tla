------------------------ MODULE MqttPublisherProofs ------------------------
(***************************************************************************)
(* Machine-checked theorems about MqttPublisher, for any number of calls,  *)
(* documents and failures.                                                 *)
(***************************************************************************)
EXTENDS MqttPublisher, FiniteSetTheorems, TLAPS

USE DEF publisher, network, broker, store

(* The bound on failures is kept.                                          *)
LEMMA FaultType ==
    ASSUME TypeOK, Fault
    PROVE  faults' \in 0..MaxFaults
  BY PublisherAssumption DEF TypeOK, Fault

(* Every step keeps the types.                                             *)
LEMMA TypeStep ==
    ASSUME TypeOK, PublisherInv, [Next]_vars
    PROVE  TypeOK'
<1> USE PublisherAssumption
<1>1. ASSUME NEW c \in Calls, Refuse(c)
      PROVE  TypeOK'
  BY <1>1 DEF Refuse, Invalid, Unavailable, TypeOK, Answers
<1>2. ASSUME NEW c \in Calls, Publish(c)
      PROVE  TypeOK'
  <2>1. pending' \in 0..Limit
    <3>1. pending \in 0..Limit /\ Limit \in Nat
      BY DEF TypeOK
    <3>2. pending' = pending + 1 /\ ~(pending >= Limit)
      BY <1>2 DEF Publish, Admitted, Busy
    <3> QED BY <3>1, <3>2
  <2>2. doc' \in [Calls -> Docs \cup {None}]
    BY <1>2 DEF Publish, TypeOK, Answers
  <2>3. answer' \in [Calls -> Answers]
    BY <1>2 DEF Publish, TypeOK, Answers
  <2>4. /\ open' \subseteq Calls /\ wire' \subseteq Calls
        /\ UNCHANGED <<connected, acks, queue, saved, lost, kept, rejected, faults>>
    BY <1>2 DEF Publish, TypeOK, Answers
  <2> QED BY <2>1, <2>2, <2>3, <2>4 DEF TypeOK
<1>3. ASSUME NEW c \in Calls, PublishThrows(c)
      PROVE  TypeOK'
  BY <1>3, FaultType DEF PublishThrows, TypeOK, Answers
<1>4. ASSUME NEW c \in Calls, Timeout(c)
      PROVE  TypeOK'
  BY <1>4 DEF Timeout, KeepCount, TypeOK, Answers
<1>5. ASSUME NEW c \in Calls, NEW outcome \in {"accepted", "failed"}, Done(c, outcome)
      PROVE  /\ pending' \in 0..Limit
             /\ answer' \in [Calls -> Answers]
             /\ open' \subseteq Calls
  <2>1. CASE c \in open
    <3>1. Cardinality(open) # 0 /\ pending = Cardinality(open)
      BY <2>1, FS_EmptySet DEF PublisherInv, PendingExact, OpenInv
    <3>2. pending \in 0..Limit /\ Limit \in Nat
      BY DEF TypeOK
    <3>3. pending' = pending - 1
      BY <1>5, <2>1 DEF Done
    <3>4. pending' \in 0..Limit
      BY <3>1, <3>2, <3>3
    <3>5. answer' \in [Calls -> Answers] /\ open' \subseteq Calls
      BY <1>5, <2>1 DEF Done, Settle, TypeOK, Answers
    <3> QED BY <3>4, <3>5
  <2> QED BY <1>5, <2>1 DEF Done, TypeOK
<1>6. ASSUME NEW c \in Calls, Acknowledge(c)
      PROVE  TypeOK'
  BY <1>5, <1>6, FaultType DEF Acknowledge, TypeOK, Answers
<1>7. ASSUME NEW c \in Calls, GiveUp(c)
      PROVE  TypeOK'
  BY <1>5, <1>7, FaultType DEF GiveUp, TypeOK, Answers
<1>8. ASSUME NEW c \in Calls, Receive(c)
      PROVE  TypeOK'
  <2>1. queue' \in [Calls -> Nat]
    <3>1. queue[c] + 1 \in Nat
      BY DEF TypeOK
    <3> QED BY <1>8, <3>1 DEF Receive, Enqueue, TypeOK
  <2> QED BY <1>8, <2>1 DEF Receive, TypeOK
<1>9. ASSUME NEW c \in Calls, Write(c)
      PROVE  TypeOK'
  <2>1. doc[c] \in Docs
    BY <1>9 DEF Write, PublisherInv, DocInv
  <2>2. kept' \in [Ids -> Bodies \cup {None}] /\ rejected' \subseteq Docs
    BY <1>9, <2>1 DEF Write, Ingest, Docs, TypeOK
  <2>3. queue' \in [Calls -> Nat]
    <3>1. queue[c] - 1 \in Nat
      BY <1>9 DEF TypeOK, Write
    <3> QED BY <1>9, <3>1 DEF Write, TypeOK
  <2> QED BY <1>9, <2>2, <2>3, FaultType DEF Write, TypeOK
<1>10. ASSUME NEW i \in Ids, PutByApi(i)
       PROVE  TypeOK'
  BY <1>10, FaultType DEF PutByApi, TypeOK, Answers
<1>11. CASE RestartNodeRed
  <2>1. pending' \in 0..Limit
    BY <1>11 DEF RestartNodeRed
  <2> QED BY <1>11, <2>1, FaultType DEF RestartNodeRed, TypeOK, Answers
<1>12. CASE Connect
  BY <1>12 DEF Connect, TypeOK, Answers
<1>13. CASE Disconnect
  BY <1>13, FaultType DEF Disconnect, TypeOK, Answers
<1>14. CASE Autosave
  BY <1>14 DEF Autosave, TypeOK, Answers
<1>15. CASE CrashBroker
  BY <1>15, FaultType DEF CrashBroker, TypeOK, Answers
<1>16. CASE UNCHANGED vars
  BY <1>16 DEF vars, TypeOK, Answers
<1> QED
  BY <1>1, <1>2, <1>3, <1>4, <1>6, <1>7, <1>8, <1>9, <1>10, <1>11, <1>12, <1>13,
     <1>14, <1>15, <1>16 DEF Next, CallStep

(* The counter and the packets of the client change together.              *)
LEMMA CountStep ==
    ASSUME TypeOK, PublisherInv, [Next]_vars
    PROVE  PendingExact' /\ OpenInv'
<1>1. /\ pending = Cardinality(open) /\ IsFiniteSet(open)
      /\ pending \in Nat
      /\ open \subseteq Calls /\ answer \in [Calls -> Answers]
      /\ \A c \in Calls : answer[c] = "waiting" => c \in open
      /\ \A c \in open : answer[c] \in {"waiting", "timed out"}
  <2>1. pending \in 0..Limit /\ Limit \in Nat
    BY PublisherAssumption DEF TypeOK
  <2>2. pending \in Nat
    BY <2>1
  <2>3. PendingExact /\ OpenInv /\ open \subseteq Calls /\ answer \in [Calls -> Answers]
    BY DEF TypeOK, PublisherInv
  <2> QED BY <2>2, <2>3 DEF PendingExact, OpenInv
<1>2. ASSUME NEW c \in Calls, Publish(c)
      PROVE  PendingExact' /\ OpenInv'
  <2>1. c \notin open
    BY <1>1, <1>2 DEF Publish
  <2>2. IsFiniteSet(open') /\ Cardinality(open') = Cardinality(open) + 1
    BY <1>1, <1>2, <2>1, FS_AddElement DEF Publish
  <2>3. pending' = Cardinality(open')
    BY <1>1, <1>2, <2>2 DEF Publish
  <2>4. open' = open \cup {c} /\ answer' = [answer EXCEPT ![c] = "waiting"]
    BY <1>2 DEF Publish
  <2>5. /\ \A d \in Calls : answer'[d] = "waiting" => d \in open'
        /\ \A d \in open' : answer'[d] \in {"waiting", "timed out"}
    BY <1>1, <2>4
  <2> QED BY <2>2, <2>3, <2>5 DEF PendingExact, OpenInv
<1>3. ASSUME NEW c \in Calls, NEW outcome \in {"accepted", "failed"}, Done(c, outcome)
      PROVE  PendingExact' /\ OpenInv'
  <2>1. CASE c \in open
    <3>1. open' = open \ {c} /\ pending' = pending - 1
      BY <1>3, <2>1 DEF Done
    <3>2. IsFiniteSet(open') /\ Cardinality(open') = Cardinality(open) - 1
      BY <1>1, <2>1, <3>1, FS_RemoveElement
    <3>3. pending' = Cardinality(open')
      BY <1>1, <3>1, <3>2
    <3>4. answer' = IF answer[c] = "waiting" THEN [answer EXCEPT ![c] = outcome] ELSE answer
      BY <1>3, <2>1 DEF Done, Settle
    <3>5. /\ \A d \in Calls : answer'[d] = "waiting" => d \in open'
          /\ \A d \in open' : answer'[d] \in {"waiting", "timed out"}
      BY <1>1, <3>1, <3>4
    <3> QED BY <3>2, <3>3, <3>5 DEF PendingExact, OpenInv
  <2>2. CASE c \notin open
    BY <1>1, <1>3, <2>2 DEF Done, PendingExact, OpenInv
  <2> QED BY <2>1, <2>2
<1>4. CASE RestartNodeRed
  <2>1. open' = {} /\ pending' = 0
    BY <1>4 DEF RestartNodeRed
  <2>2. \A c \in Calls : answer'[c] # "waiting"
    BY <1>4 DEF RestartNodeRed
  <2> QED BY <2>1, <2>2, FS_EmptySet DEF PendingExact, OpenInv
<1>5. ASSUME NEW c \in Calls, Refuse(c) \/ PublishThrows(c) \/ Timeout(c)
      PROVE  PendingExact' /\ OpenInv'
  <2>1. UNCHANGED <<open, pending>>
    BY <1>5 DEF Refuse, Invalid, Unavailable, PublishThrows, Timeout, KeepCount
  <2>2. \/ answer[c] = "none" /\ \E a \in {"invalid", "refused", "failed"} :
                                     answer' = [answer EXCEPT ![c] = a]
        \/ answer[c] = "waiting" /\ answer' = [answer EXCEPT ![c] = "timed out"]
    BY <1>5 DEF Refuse, Invalid, Unavailable, PublishThrows, Timeout
  <2>3. /\ \A d \in Calls : answer'[d] = "waiting" => d \in open
        /\ \A d \in open : answer'[d] \in {"waiting", "timed out"}
    BY <1>1, <2>2
  <2> QED BY <1>1, <2>1, <2>3 DEF PendingExact, OpenInv
<1>6. CASE UNCHANGED publisher
  BY <1>1, <1>6 DEF PendingExact, OpenInv
<1>7. CASE UNCHANGED vars
  BY <1>6, <1>7 DEF vars
<1>8. ASSUME NEW c \in Calls, Acknowledge(c) \/ GiveUp(c)
      PROVE  PendingExact' /\ OpenInv'
  BY <1>3, <1>8 DEF Acknowledge, GiveUp
<1>9. ASSUME \/ \E c \in Calls : Receive(c) \/ Write(c)
             \/ \E i \in Ids : PutByApi(i)
             \/ Connect \/ Disconnect \/ Autosave \/ CrashBroker
      PROVE  UNCHANGED publisher
  BY <1>9 DEF Receive, Write, PutByApi, Connect, Disconnect, Autosave, CrashBroker
<1> QED
  BY <1>2, <1>4, <1>5, <1>6, <1>7, <1>8, <1>9 DEF Next, CallStep

(* A call that was made keeps its document.                                *)
LEMMA DocStays ==
    ASSUME TypeOK, [Next]_vars, NEW c \in Calls, answer[c] # "none"
    PROVE  doc'[c] = doc[c] /\ answer'[c] # "none"
<1>1. /\ doc \in [Calls -> Docs \cup {None}]
      /\ answer \in [Calls -> Answers] /\ open \subseteq Calls
  BY DEF TypeOK
<1> QED
  BY <1>1 DEF Next, CallStep, Refuse, Invalid, Unavailable, Publish, PublishThrows, Timeout, KeepCount,
     Acknowledge, GiveUp, Done, Settle, RestartNodeRed, Connect, Disconnect, Receive,
     Autosave, CrashBroker, PutByApi, Write, vars

(* Whatever is under way, queued or saved has a document.                  *)
LEMMA DocStep ==
    ASSUME TypeOK, PublisherInv, [Next]_vars
    PROVE  DocInv'
<1> DEFINE Known(c) == doc[c] \in Docs /\ answer[c] # "none"
<1>1. /\ DocInv /\ doc \in [Calls -> Docs \cup {None}]
      /\ answer \in [Calls -> Answers] /\ open \subseteq Calls
      /\ queue \in [Calls -> Nat] /\ saved \in [Calls -> Nat]
  BY DEF TypeOK, PublisherInv
<1>2. ASSUME NEW c \in Calls, Known(c)
      PROVE  doc'[c] = doc[c] /\ answer'[c] # "none"
  BY <1>2, DocStays
<1> DEFINE Involved(c) ==
        c \in open \cup wire \cup acks \/ queue[c] > 0 \/ saved[c] > 0 \/ answer[c] = "accepted"
<1>3. ASSUME NEW b \in Calls, Publish(b), NEW c \in Calls, Involved(c)'
      PROVE  Known(c)'
  <2>1. CASE c = b
    <3>1. PICK d \in Docs : doc' = [doc EXCEPT ![b] = d]
      BY <1>3 DEF Publish
    <3>2. answer' = [answer EXCEPT ![b] = "waiting"]
      BY <1>3 DEF Publish
    <3> QED BY <1>1, <2>1, <3>1, <3>2
  <2>2. CASE c # b
    <3>1. Involved(c)
      BY <1>1, <1>3, <2>2 DEF Publish
    <3>2. Known(c)
      BY <1>1, <3>1 DEF DocInv
    <3> QED BY <1>2, <3>2
  <2> QED BY <2>1, <2>2
<1>4. ASSUME NEW b \in Calls,
             Refuse(b) \/ PublishThrows(b) \/ Timeout(b) \/ Acknowledge(b) \/ GiveUp(b),
             NEW c \in Calls, Involved(c)'
      PROVE  Involved(c)
  BY <1>1, <1>4 DEF Refuse, Invalid, Unavailable, PublishThrows, Timeout, Acknowledge, GiveUp, Done, Settle
<1>5. ASSUME NEW b \in Calls, Receive(b), NEW c \in Calls, Involved(c)'
      PROVE  Involved(c)
  BY <1>1, <1>5 DEF Receive, Enqueue
<1>6. ASSUME NEW b \in Calls, Write(b), NEW c \in Calls, Involved(c)'
      PROVE  Involved(c)
  <2>1. queue'[c] > 0 => queue[c] > 0
    BY <1>1, <1>6 DEF Write
  <2> QED BY <1>6, <2>1 DEF Write
<1>7. ASSUME \/ RestartNodeRed \/ Connect \/ Disconnect \/ Autosave \/ CrashBroker
             \/ \E i \in Ids : PutByApi(i)
             \/ UNCHANGED vars,
             NEW c \in Calls, Involved(c)'
      PROVE  Involved(c)
  BY <1>1, <1>7 DEF RestartNodeRed, Connect, Disconnect, Autosave, CrashBroker,
                    PutByApi, vars
<1>8. ASSUME NEW c \in Calls, Involved(c)
      PROVE  Known(c)'
  <2>1. Known(c)
    BY <1>1, <1>8 DEF DocInv
  <2> QED BY <1>2, <2>1
<1>9. \A c \in Calls : Involved(c)' => Known(c)'
  <2> HIDE DEF Involved, Known
  <2> QED BY <1>3, <1>4, <1>5, <1>6, <1>7, <1>8 DEF Next, CallStep
<1> QED
  BY <1>9 DEF DocInv

(* The store only grows: a content stays once it is there.                 *)
LEMMA StoreGrows ==
    ASSUME TypeOK, PublisherInv, [Next]_vars
    PROVE  /\ \A i \in Ids : kept[i] # None => kept'[i] = kept[i]
           /\ rejected \subseteq rejected'
<1>1. kept \in [Ids -> Bodies \cup {None}]
  BY DEF TypeOK
<1>2. ASSUME NEW c \in Calls, Write(c)
      PROVE  /\ \A i \in Ids : kept[i] # None => kept'[i] = kept[i]
             /\ rejected \subseteq rejected'
  <2>1. doc[c] \in Docs
    BY <1>2 DEF Write, PublisherInv, DocInv
  <2> QED BY <1>1, <1>2, <2>1 DEF Write, Ingest, Docs
<1>3. ASSUME NEW i \in Ids, PutByApi(i)
      PROVE  /\ \A j \in Ids : kept[j] # None => kept'[j] = kept[j]
             /\ rejected \subseteq rejected'
  BY <1>1, <1>3 DEF PutByApi
<1>4. ASSUME \/ \E c \in Calls : CallStep(c) \/ Receive(c)
             \/ RestartNodeRed \/ Connect \/ Disconnect \/ Autosave \/ CrashBroker
             \/ UNCHANGED vars
      PROVE  UNCHANGED store
  BY <1>4 DEF CallStep, Refuse, Invalid, Unavailable, Publish, PublishThrows, Timeout, Acknowledge, GiveUp,
     Receive, RestartNodeRed, Connect, Disconnect, Autosave, CrashBroker, vars
<1> QED
  BY <1>2, <1>3, <1>4 DEF Next

(* What was ingested is stored or quarantined.                             *)
LEMMA IngestLands ==
    ASSUME TypeOK, NEW d \in Docs, Ingest(d)
    PROVE  kept'[d.id] = d.body \/ d \in rejected'
  BY DEF TypeOK, Ingest, Docs

(* A document stays where it has landed.                                   *)
LEMMA LandedStays ==
    ASSUME TypeOK, PublisherInv, [Next]_vars,
           NEW c \in Calls, Landed(c), doc[c] \in Docs, doc'[c] = doc[c]
    PROVE  Landed(c)'
<1>1. doc[c].id \in Ids /\ doc[c].body \in Bodies /\ doc[c].body # None
  BY PublisherAssumption DEF Docs
<1> QED
  BY <1>1, StoreGrows DEF Landed

(* A PUBACK, and 202, mean that the broker has the document or has passed  *)
(* it on: only the broker's own losses are excepted.                       *)
LEMMA ReachStep ==
    ASSUME TypeOK, PublisherInv, [Next]_vars
    PROVE  AckInv' /\ AcceptedReached'
<1> DEFINE Sure(c) == c \in acks \/ answer[c] = "accepted"
<1>1. /\ queue \in [Calls -> Nat] /\ saved \in [Calls -> Nat]
      /\ answer \in [Calls -> Answers]
      /\ open \subseteq Calls /\ acks \subseteq Calls /\ wire \subseteq Calls
  BY DEF TypeOK
<1>2. ASSUME NEW c \in Calls, Sure(c)
      PROVE  /\ Reached(c)
             /\ doc[c] \in Docs /\ doc'[c] = doc[c]
             /\ Landed(c) => Landed(c)'
  <2>1. Reached(c) /\ doc[c] \in Docs /\ answer[c] # "none"
    BY <1>2 DEF PublisherInv, AckInv, AcceptedReached, DocInv
  <2>2. doc'[c] = doc[c]
    BY <2>1, DocStays
  <2> QED BY <2>1, <2>2, LandedStays
<1>3. lost \subseteq lost'
  BY DEF Next, CallStep, Refuse, Invalid, Unavailable, Publish, PublishThrows, Timeout, Acknowledge, GiveUp,
     RestartNodeRed, Connect, Disconnect, Receive, Autosave, CrashBroker, PutByApi,
     Write, vars
<1>4. ASSUME NEW c \in Calls, Sure(c), queue'[c] >= queue[c]
      PROVE  Reached(c)'
  <2>1. CASE queue[c] > 0
    <3>1. queue[c] \in Nat /\ queue'[c] \in Nat
      BY <1>1, TypeStep DEF TypeOK
    <3>2. queue'[c] > 0
      BY <1>4, <2>1, <3>1
    <3> QED BY <3>2 DEF Reached
  <2>2. CASE Landed(c) \/ c \in lost
    BY <1>2, <1>3, <1>4, <2>2 DEF Reached
  <2> QED BY <1>2, <1>4, <2>1, <2>2 DEF Reached
<1>5. ASSUME NEW b \in Calls, Write(b), NEW c \in Calls, Sure(c)
      PROVE  Reached(c)'
  <2>1. CASE c = b
    <3>1. doc[b] \in Docs /\ doc'[b] = doc[b]
      BY <1>2, <1>5, <2>1
    <3>2. kept'[doc[b].id] = doc[b].body \/ doc[b] \in rejected'
      BY <1>5, <3>1, IngestLands DEF Write
    <3>3. doc[b] # None
      BY <3>1, PublisherAssumption
    <3> QED BY <2>1, <3>1, <3>2, <3>3 DEF Reached, Landed
  <2>2. CASE c # b
    <3>1. queue'[c] = queue[c] /\ queue[c] \in Nat
      BY <1>1, <1>5, <2>2 DEF Write
    <3> QED BY <1>4, <1>5, <3>1
  <2> QED BY <2>1, <2>2
<1>6. ASSUME CrashBroker, NEW c \in Calls, Sure(c)'
      PROVE  Reached(c)'
  <2>1. acks' = {} /\ answer' = answer /\ queue' = saved
        /\ lost' = lost \cup {d \in Calls \ open : queue[d] > saved[d]}
    BY <1>6 DEF CrashBroker
  <2>2. answer[c] = "accepted"
    BY <1>6, <2>1
  <2>3. c \notin open
    BY <2>2 DEF PublisherInv, OpenInv
  <2>4. CASE queue[c] > saved[c]
    BY <2>1, <2>3, <2>4 DEF Reached
  <2>5. CASE ~(queue[c] > saved[c])
    <3>1. queue'[c] >= queue[c]
      BY <1>1, <2>1, <2>5
    <3> QED BY <1>4, <2>2, <3>1
  <2> QED BY <2>4, <2>5
<1>7. ASSUME NEW b \in Calls, Receive(b), NEW c \in Calls, Sure(c)'
      PROVE  Reached(c)'
  <2>1. /\ answer' = answer /\ acks' \subseteq acks \cup {b}
        /\ \/ queue' = [queue EXCEPT ![b] = @ + 1]
           \/ queue' = queue /\ b \in lost'
    BY <1>7 DEF Receive, Enqueue
  <2>2. CASE c = b
    <3>1. queue[b] \in Nat
      BY <1>1
    <3>2. queue' = [queue EXCEPT ![b] = @ + 1] => queue'[b] = queue[b] + 1
      BY <1>1
    <3>3. queue'[b] > 0 \/ b \in lost'
      BY <2>1, <3>1, <3>2
    <3> QED BY <2>2, <3>3 DEF Reached
  <2>3. CASE c # b
    <3>1. Sure(c)
      BY <1>7, <2>1, <2>3
    <3>2. queue'[c] = queue[c] /\ queue[c] \in Nat
      BY <1>1, <2>1, <2>3
    <3> QED BY <1>4, <3>1, <3>2
  <2> QED BY <2>2, <2>3
<1>8. ASSUME \/ \E b \in Calls : CallStep(b)
             \/ \E i \in Ids : PutByApi(i)
             \/ RestartNodeRed \/ Connect \/ Disconnect \/ Autosave
             \/ UNCHANGED vars,
             NEW c \in Calls, Sure(c)'
      PROVE  Reached(c)'
  <2>1. Sure(c)
    BY <1>1, <1>8 DEF CallStep, Refuse, Invalid, Unavailable, Publish, PublishThrows, Timeout, Acknowledge, GiveUp,
       Done, Settle, RestartNodeRed, Connect, Disconnect, Autosave, PutByApi, vars
  <2>2. queue' = queue
    BY <1>8 DEF CallStep, Refuse, Invalid, Unavailable, Publish, PublishThrows, Timeout, Acknowledge, GiveUp,
       RestartNodeRed, Connect, Disconnect, Autosave, PutByApi, vars
  <2>3. queue'[c] >= queue[c]
    <3>1. queue[c] \in Nat
      BY <1>1
    <3> QED BY <2>2, <3>1
  <2> QED BY <1>4, <2>1, <2>3
<1>9. ASSUME NEW b \in Calls, Write(b), NEW c \in Calls, Sure(c)'
      PROVE  Sure(c)
  BY <1>9 DEF Write
<1>10. \A c \in Calls : Sure(c)' => Reached(c)'
  <2> HIDE DEF Sure
  <2> QED BY <1>5, <1>6, <1>7, <1>8, <1>9 DEF Next
<1>11. acks' \subseteq Calls
  BY TypeStep DEF TypeOK
<1> QED
  BY <1>10, <1>11 DEF AckInv, AcceptedReached

(* The inductive invariant: the counter is exact, what is under way has a  *)
(* document, and every PUBACK is for a document the broker took.           *)
THEOREM PublisherInvariant == Spec => [](TypeOK /\ PublisherInv)
<1>1. Init => TypeOK /\ PublisherInv
  <2>1. ASSUME Init PROVE TypeOK
    <3>1. 0 \in 0..Limit /\ 0 \in 0..MaxFaults
      BY PublisherAssumption
    <3> QED BY <2>1, <3>1 DEF Init, TypeOK, Answers
  <2>2. ASSUME Init PROVE PublisherInv
    BY <2>2, FS_EmptySet DEF Init, PublisherInv, PendingExact, OpenInv, DocInv, AckInv,
       AcceptedReached
  <2> QED BY <2>1, <2>2
<1>2. TypeOK /\ PublisherInv /\ [Next]_vars => (TypeOK /\ PublisherInv)'
  BY TypeStep, CountStep, DocStep, ReachStep DEF PublisherInv
<1> QED
  BY <1>1, <1>2, PTL DEF Spec

(* The counter of createIngestion never drifts from the packets the client *)
(* still has, and never exceeds its limit.                                 *)
THEOREM CounterExact == Spec => []CountInv
<1>1. TypeOK /\ PublisherInv => CountInv
  BY DEF PublisherInv, CountInv
<1> QED
  BY <1>1, PublisherInvariant, PTL

(* 202 is only answered for a document that is queued, stored or           *)
(* quarantined, the broker's own losses excepted.                          *)
THEOREM AcceptedNeverLost == Spec => []AcceptedReached
<1>1. PublisherInv => AcceptedReached
  BY DEF PublisherInv
<1> QED
  BY <1>1, PublisherInvariant, PTL

(* Redelivery, retries and the other route never change a stored content.  *)
THEOREM StoredOnce == Spec => FirstStays
<1>1. TypeOK /\ PublisherInv /\ [Next]_vars
        => [\A i \in Ids : kept[i] # None => kept'[i] = kept[i]]_vars
  BY StoreGrows
<1> QED
  BY <1>1, PublisherInvariant, PTL DEF Spec, FirstStays

(* What a caller was told stays: a PUBACK after the timeout does not turn  *)
(* 503 into 202.                                                           *)
THEOREM OneAnswer == Spec => AnsweredOnce
<1>1. ASSUME TypeOK, [Next]_vars, NEW c \in Calls, answer[c] \in Final
      PROVE  answer'[c] = answer[c]
  <2>1. answer \in [Calls -> Answers] /\ answer[c] # "none" /\ answer[c] # "waiting"
    BY <1>1 DEF TypeOK, Final
  <2> QED BY <1>1, <2>1 DEF Next, CallStep, Refuse, Invalid, Unavailable, Publish, PublishThrows, Timeout,
     Acknowledge, GiveUp, Done, Settle, RestartNodeRed, Connect, Disconnect, Receive,
     Autosave, CrashBroker, PutByApi, Write, vars
<1>2. TypeOK /\ [Next]_vars
        => [\A c \in Calls : answer[c] \in Final => answer'[c] = answer[c]]_vars
  BY <1>1
<1> QED
  BY <1>2, PublisherInvariant, PTL DEF Spec, AnsweredOnce
=============================================================================
