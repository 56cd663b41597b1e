-------------------------- MODULE ObservationStore --------------------------
(***************************************************************************)
(* The observation registry of DanuBaaS and its two writers.               *)
(*                                                                         *)
(*   api   Store.Put (internal/postgres/store.go), one batch per           *)
(*         transaction, driven statement by statement by the HTTP handler; *)
(*   mqtt  sensor.ingest_mqtt() (migrations/003), a row trigger that runs  *)
(*         one subtransaction per MQTT document; one COPY of Telegraf may  *)
(*         carry several documents in one transaction.                     *)
(*                                                                         *)
(* Both allocate sequence numbers under advisory lock 7349202.  Readers    *)
(* page through GET /v1/values with Store.List.  A session is a pooled     *)
(* database connection: the client behind it may give up (10 s context,    *)
(* lost connection) while its transaction is still open in the server.     *)
(***************************************************************************)
EXTENDS Integers, Sequences, FiniteSets

CONSTANTS Sessions,    \* database connections of the API pool and Telegraf
          Readers,     \* clients of GET /v1/values
          Ids,         \* observation UUIDs
          Bodies,      \* normalised contents of an observation
          Bad,         \* a content that validation rejects
          Submissions, \* document sequences a writer may submit
          MaxBatch,    \* items per document (1000 in the code)
          MaxPage,     \* largest page (1000 in the code)
          MaxSeq,      \* bound: no transaction begins above this number
          None         \* "no session holds the lock"

Item == [id : Ids, body : Bodies \cup {Bad}]
Document == Seq(Item)
Row == [id : Ids, seq : Nat, body : Bodies]

ASSUME StoreAssumption ==
    /\ Bad \notin Bodies
    /\ None \notin Sessions
    /\ Submissions \subseteq Seq(Document)
    /\ MaxBatch \in Nat
    /\ MaxPage \in Nat
    /\ MaxSeq \in Nat

VARIABLES
    events,      \* committed rows of sensor.events (with their measurements)
    rejected,    \* committed documents of sensor.rejected_messages
    nextSeq,     \* next value of the identity column
    lock,        \* holder of advisory lock 7349202
    \* per session, its transaction:
    phase,       \* "idle", or what its next statement is about
    request,     \* route and submitted documents
    doc,         \* number of the current document
    item,        \* number of the current observation in it
    done,        \* uncommitted rows of the documents already accepted
    rows,        \* uncommitted rows of the current document
    quarantined, \* numbers of the documents written to quarantine
    client,      \* whether the client still waits for the answer
    \* what clients know:
    acked,       \* history: observations a client was told are stored
    refused,     \* history: observations answered 409
    cursor,      \* per reader, the "after" of its next request
    seen,        \* per reader, the rows it was given
    more         \* per reader, whether the last answer had X-Next-Cursor

tables == <<events, rejected>>
work == <<doc, item, done, rows, quarantined>>
told == <<acked, refused>>
readers == <<cursor, seen, more>>
writers == <<phase, request, client, work>>
vars == <<tables, nextSeq, lock, writers, told, readers>>

Idle == [route |-> "api", docs |-> <<>>]

Init ==
    /\ events = {}
    /\ rejected = {}
    /\ nextSeq = 1
    /\ lock = None
    /\ phase = [s \in Sessions |-> "idle"]
    /\ request = [s \in Sessions |-> Idle]
    /\ doc = [s \in Sessions |-> 1]
    /\ item = [s \in Sessions |-> 1]
    /\ done = [s \in Sessions |-> {}]
    /\ rows = [s \in Sessions |-> {}]
    /\ quarantined = [s \in Sessions |-> {}]
    /\ client = [s \in Sessions |-> FALSE]
    /\ acked = {}
    /\ refused = {}
    /\ cursor = [r \in Readers |-> 0]
    /\ seen = [r \in Readers |-> {}]
    /\ more = [r \in Readers |-> FALSE]
-----------------------------------------------------------------------------
(* The document checks both routes make before the writer lock: between 1  *)
(* and 1000 observations, no identifier twice.                             *)
WellFormed(d) ==
    /\ Len(d) \in 1..MaxBatch
    /\ \A i, j \in DOMAIN d : d[i].id = d[j].id => i = j

(* The API handler normalises every value before it calls Put (422).       *)
Normalized(d) == WellFormed(d) /\ \A i \in DOMAIN d : d[i].body # Bad

Docs(s) == request[s].docs
Doc(s) == Docs(s)[doc[s]]
Current(s) == Doc(s)[item[s]]

(* Rows a statement of session s sees: READ COMMITTED plus its own writes. *)
Visible(s) == events \cup done[s] \cup rows[s]

(* INSERT ... ON CONFLICT(id) DO NOTHING finds this row ...                *)
Existing(s) == {e \in Visible(s) : e.id = Current(s).id}

(* Regression: replays are refused.                                        *)
ReplayConflicting(s) == Existing(s) # {}

(* ... and its payload differs from the submitted one.                     *)
Conflicting(s) == \E e \in Existing(s) : e.body # Current(s).body

Writing(s) == phase[s] = "write" /\ item[s] <= Len(Doc(s))

(* Put sends one statement at a time; a COPY that is under way runs on in  *)
(* the server when its client has gone.                                    *)
Driven(s) == client[s] \/ request[s].route = "mqtt"

(* Regression: a session-level advisory lock survives its transaction.     *)
SessionLock(s) == lock' = lock

(* Transaction end: advisory xact locks go with the transaction.           *)
ReleaseLock(s) == lock' = IF lock = s THEN None ELSE lock

(* The transaction is over, its session goes back to the pool.             *)
Close(s) ==
    /\ ReleaseLock(s)
    /\ phase' = [phase EXCEPT ![s] = "idle"]
    /\ request' = [request EXCEPT ![s] = Idle]
    /\ doc' = [doc EXCEPT ![s] = 1]
    /\ item' = [item EXCEPT ![s] = 1]
    /\ done' = [done EXCEPT ![s] = {}]
    /\ rows' = [rows EXCEPT ![s] = {}]
    /\ quarantined' = [quarantined EXCEPT ![s] = {}]
    /\ client' = [client EXCEPT ![s] = FALSE]

(* The current document is finished: the next one, or COMMIT, follows.     *)
NextDocument(s) ==
    /\ doc' = [doc EXCEPT ![s] = @ + 1]
    /\ item' = [item EXCEPT ![s] = 1]
    /\ phase' = [phase EXCEPT ![s] =
                   IF doc[s] < Len(Docs(s)) THEN "doc" ELSE "commit"]
-----------------------------------------------------------------------------
(* POST /v1/values reaching Put, or Telegraf starting a COPY.              *)
Begin(s, route, docs) ==
    /\ phase[s] = "idle"
    /\ nextSeq <= MaxSeq
    /\ docs # <<>>
    /\ route = "api" => Len(docs) = 1 /\ Normalized(docs[1])
    /\ phase' = [phase EXCEPT ![s] = "doc"]
    /\ request' = [request EXCEPT ![s] = [route |-> route, docs |-> docs]]
    /\ client' = [client EXCEPT ![s] = TRUE]
    /\ UNCHANGED <<tables, nextSeq, lock, work, told, readers>>

(* Regression: sequence numbers are allocated without the writer lock.     *)
SkipLock(s) ==
    /\ phase[s] = "doc"
    /\ WellFormed(Doc(s))
    /\ phase' = [phase EXCEPT ![s] = "write"]
    /\ UNCHANGED <<tables, nextSeq, lock, request, client, work, told, readers>>

(* SELECT pg_advisory_xact_lock(7349202); re-entrant for its holder.  The  *)
(* server may still grant it to a session whose client has gone.           *)
TakeLock(s) ==
    /\ phase[s] = "doc"
    /\ WellFormed(Doc(s))
    /\ lock \in {None, s}
    /\ lock' = s
    /\ phase' = [phase EXCEPT ![s] = "write"]
    /\ UNCHANGED <<tables, nextSeq, request, client, work, told, readers>>

NewRow(s) == [id |-> Current(s).id, seq |-> nextSeq, body |-> Current(s).body]

(* One turn of the loop: a new row, or a replay of identical content.  The *)
(* identity value is consumed in both cases.                               *)
WriteItem(s) ==
    /\ Writing(s)
    /\ Driven(s)
    /\ Current(s).body # Bad
    /\ ~Conflicting(s)
    /\ nextSeq' = nextSeq + 1
    /\ item' = [item EXCEPT ![s] = @ + 1]
    /\ rows' = [rows EXCEPT ![s] = IF Existing(s) = {} THEN @ \cup {NewRow(s)} ELSE @]
    /\ UNCHANGED <<tables, lock, phase, request, client, doc, done, quarantined,
                   told, readers>>

(* The loop is over: the subtransaction's rows and its lock pass to the    *)
(* transaction.                                                            *)
EndDocument(s) ==
    /\ phase[s] = "write"
    /\ Driven(s)
    /\ item[s] > Len(Doc(s))
    /\ NextDocument(s)
    /\ done' = [done EXCEPT ![s] = @ \cup rows[s]]
    /\ rows' = [rows EXCEPT ![s] = {}]
    /\ UNCHANGED <<tables, nextSeq, lock, request, client, quarantined, told, readers>>

(* Put returns ErrConflict: rollback, then 409 to the client.              *)
Refuse(s) ==
    /\ Writing(s)
    /\ request[s].route = "api"
    /\ client[s]
    /\ Conflicting(s)
    /\ nextSeq' = nextSeq + 1
    /\ refused' = refused \cup {Current(s)}
    /\ Close(s)
    /\ UNCHANGED <<tables, acked, readers>>

(* A lock taken in a subtransaction is given back when that is rolled      *)
(* back; one an accepted document took belongs to the transaction.         *)
KeepsLock(s) == \E d \in 1..(doc[s] - 1) : d \notin quarantined[s]

(* Regression: the rows of the document survive its exception handler.     *)
QuarantineKeepingRows(s) ==
    /\ request[s].route = "mqtt"
    /\ Writing(s)
    /\ Current(s).body = Bad \/ Conflicting(s)
    /\ nextSeq' = nextSeq + 1
    /\ done' = [done EXCEPT ![s] = @ \cup rows[s]]
    /\ rows' = [rows EXCEPT ![s] = {}]
    /\ quarantined' = [quarantined EXCEPT ![s] = @ \cup {doc[s]}]
    /\ NextDocument(s)
    /\ UNCHANGED <<tables, lock, request, client, told, readers>>

(* The exception handler of ingest_mqtt: the document's subtransaction is  *)
(* rolled back, with the lock if it took it, and the document quarantined. *)
(* A rejected measurement may or may not have consumed an identity value.  *)
Quarantine(s) ==
    /\ request[s].route = "mqtt"
    /\ \/ /\ phase[s] = "doc"
          /\ ~WellFormed(Doc(s))
          /\ UNCHANGED nextSeq
       \/ /\ Writing(s)
          /\ Current(s).body = Bad
          /\ nextSeq' \in {nextSeq, nextSeq + 1}
       \/ /\ Writing(s)
          /\ Current(s).body # Bad
          /\ Conflicting(s)
          /\ nextSeq' = nextSeq + 1
    /\ lock' = IF lock = s /\ ~KeepsLock(s) THEN None ELSE lock
    /\ rows' = [rows EXCEPT ![s] = {}]
    /\ quarantined' = [quarantined EXCEPT ![s] = @ \cup {doc[s]}]
    /\ NextDocument(s)
    /\ UNCHANGED <<tables, request, client, done, told, readers>>

(* The observations of the documents a transaction did not quarantine.     *)
Accepted(s) == (DOMAIN Docs(s)) \ quarantined[s]
AcceptedItems(s) ==
    UNION {{Docs(s)[d][i] : i \in DOMAIN Docs(s)[d]} : d \in Accepted(s)}

(* COMMIT.  It may take effect after the client has given up; only a       *)
(* client that is still there learns of it (201/200, or COPY success).     *)
Commit(s) ==
    /\ phase[s] = "commit"
    /\ events' = events \cup done[s]
    /\ rejected' = rejected \cup {Docs(s)[d] : d \in quarantined[s]}
    /\ acked' = IF client[s] THEN acked \cup AcceptedItems(s) ELSE acked
    /\ Close(s)
    /\ UNCHANGED <<nextSeq, refused, readers>>

(* The 10 s request context ends, or the connection is lost: the client is *)
(* told 503 (or nothing), the server has not noticed yet.                  *)
LoseClient(s) ==
    /\ phase[s] # "idle"
    /\ client[s]
    /\ client' = [client EXCEPT ![s] = FALSE]
    /\ UNCHANGED <<tables, nextSeq, lock, phase, request, work, told, readers>>

(* Any storage error, a failed COMMIT, a restart of the database, or the   *)
(* server noticing that the client is gone: everything is rolled back.     *)
Abort(s) ==
    /\ phase[s] # "idle"
    /\ Close(s)
    /\ UNCHANGED <<tables, nextSeq, told, readers>>
-----------------------------------------------------------------------------
(* SELECT ... WHERE sequence>after ORDER BY sequence LIMIT limit.          *)
List(after, limit) ==
    {e \in events : /\ e.seq > after
                    /\ Cardinality({f \in events : f.seq > after /\ f.seq < e.seq}) < limit}

(* records[:limit] of an answer sorted by sequence.                        *)
Truncate(page, limit) ==
    {e \in page : Cardinality({f \in page : f.seq < e.seq}) < limit}

(* SELECT ... WHERE id=$1; the empty set is 404.                           *)
Get(id) == {e \in events : e.id = id}

(* Regression: the cursor is the probe row's.                              *)
ReadCursorOfProbe(r, limit) ==
    LET fetched == List(cursor[r], limit + 1)
    IN  /\ \/ fetched = {} /\ UNCHANGED cursor
           \/ \E last \in fetched :
                 /\ \A e \in fetched : e.seq <= last.seq
                 /\ cursor' = [cursor EXCEPT ![r] = last.seq]
        /\ seen' = [seen EXCEPT ![r] = @ \cup List(cursor[r], limit)]
        /\ more' = [more EXCEPT ![r] = (Cardinality(fetched) > limit)]
        /\ UNCHANGED <<tables, nextSeq, lock, writers, told>>

(* GET /v1/values?after=cursor&limit=limit: one row more than the limit is *)
(* fetched to learn whether X-Next-Cursor is due, and cut off again.  The  *)
(* reader goes on from the last row it was given.                          *)
ReadPage(r, limit) ==
    LET fetched == List(cursor[r], limit + 1)
        records == Truncate(fetched, limit)
    IN  /\ \/ records = {} /\ UNCHANGED cursor
           \/ \E last \in records :
                 /\ \A e \in records : e.seq <= last.seq
                 /\ cursor' = [cursor EXCEPT ![r] = last.seq]
        /\ seen' = [seen EXCEPT ![r] = @ \cup records]
        /\ more' = [more EXCEPT ![r] = (Cardinality(fetched) > limit)]
        /\ UNCHANGED <<tables, nextSeq, lock, writers, told>>

Next ==
    \/ \E s \in Sessions :
         \/ \E route \in {"api", "mqtt"}, docs \in Submissions : Begin(s, route, docs)
         \/ TakeLock(s)
         \/ WriteItem(s)
         \/ EndDocument(s)
         \/ Refuse(s)
         \/ Quarantine(s)
         \/ Commit(s)
         \/ LoseClient(s)
         \/ Abort(s)
    \/ \E r \in Readers, limit \in 1..MaxPage : ReadPage(r, limit)

Spec == Init /\ [][Next]_vars

(* What the server does on its own: run the next statement, finish a       *)
(* commit, or roll back once it notices that the client is gone.           *)
Progress(s) ==
    \/ WriteItem(s)
    \/ EndDocument(s)
    \/ Refuse(s)
    \/ Quarantine(s)
    \/ Commit(s)
    \/ ~client[s] /\ Abort(s)

(* PostgreSQL queues lock waiters first come, first served: a waiter that  *)
(* is passed over again and again cannot happen, hence SF for the lock.    *)
FairSpec == Spec /\ \A s \in Sessions : WF_vars(Progress(s)) /\ SF_vars(TakeLock(s))
-----------------------------------------------------------------------------
Phases == {"idle", "doc", "write", "commit"}
Request == [route : {"api", "mqtt"}, docs : Seq(Document)]

(* Type correctness of tables, transactions and clients.                   *)
TypeOK ==
    /\ events \in SUBSET Row
    /\ rejected \in SUBSET Document
    /\ nextSeq \in Nat \ {0}
    /\ lock \in Sessions \cup {None}
    /\ phase \in [Sessions -> Phases]
    /\ request \in [Sessions -> Request]
    /\ doc \in [Sessions -> Nat \ {0}]
    /\ item \in [Sessions -> Nat \ {0}]
    /\ done \in [Sessions -> SUBSET Row]
    /\ rows \in [Sessions -> SUBSET Row]
    /\ quarantined \in [Sessions -> SUBSET Nat]
    /\ client \in [Sessions -> BOOLEAN]
    /\ acked \in SUBSET Item
    /\ refused \in SUBSET Item
    /\ cursor \in [Readers -> Nat]
    /\ seen \in [Readers -> SUBSET Row]
    /\ more \in [Readers -> BOOLEAN]

-----------------------------------------------------------------------------
(* The inductive invariant behind the safety properties, in named parts.   *)

(* Where a transaction is in its documents.                                *)
PositionInv ==
    \A s \in Sessions :
        /\ phase[s] \in {"doc", "write"} => doc[s] \in DOMAIN Docs(s)
        /\ phase[s] = "commit" => doc[s] = Len(Docs(s)) + 1
        /\ phase[s] = "idle" => doc[s] = 1
        /\ quarantined[s] \subseteq (DOMAIN Docs(s)) \cap 1..(doc[s] - 1)

Uncommitted(s) == done[s] \cup rows[s]

(* Only the holder of the writer lock has uncommitted rows.                *)
LockInv ==
    \A s \in Sessions :
        /\ phase[s] = "write" => lock = s
        /\ KeepsLock(s) => lock = s
        /\ done[s] # {} => KeepsLock(s)
        /\ rows[s] # {} => phase[s] = "write"

(* Allocated numbers lie below the identity; uncommitted above committed.  *)
SequenceInv ==
    /\ \A e \in events : e.seq \in 1..(nextSeq - 1)
    /\ \A s \in Sessions : \A n \in Uncommitted(s) :
         /\ n.seq \in 1..(nextSeq - 1)
         /\ \A e \in events : e.seq < n.seq

(* Identifiers and numbers are unique in the table an open transaction     *)
(* would leave behind.                                                     *)
UniqueInv ==
    /\ \A e, f \in events : e.id = f.id \/ e.seq = f.seq => e = f
    /\ \A s \in Sessions : \A n \in Uncommitted(s) :
         /\ \A m \in Uncommitted(s) : n.id = m.id \/ n.seq = m.seq => n = m
         /\ \A e \in events : e.id # n.id

(* A cursor is the number of a visible row, so no uncommitted row is below *)
(* it.                                                                     *)
CursorInv ==
    \A r \in Readers : cursor[r] = 0 \/ \E e \in events : cursor[r] = e.seq

FiniteInv ==
    /\ IsFiniteSet(events)
    /\ \A s \in Sessions : IsFiniteSet(done[s]) /\ IsFiniteSet(rows[s])

StoreInv ==
    /\ TypeOK
    /\ PositionInv
    /\ LockInv
    /\ SequenceInv
    /\ UniqueInv
    /\ CursorInv
    /\ FiniteInv
-----------------------------------------------------------------------------
(* Paging never skips: every visible row at or below a reader's cursor has *)
(* been given to that reader.  This is what the writer lock of Put and     *)
(* ingest_mqtt is for (store.go, comment at the lock).                     *)
NoSkip ==
    \A r \in Readers : \A e \in events : e.seq <= cursor[r] => e \in seen[r]

(* An observation a client was told is stored is what GET ?id= returns,    *)
(* whichever route wrote it and whoever wrote the same identifier first.   *)
AckedStored ==
    \A a \in acked : \E e \in Get(a.id) : e.body = a.body

(* Every 409 is justified by a committed row with other content, and so    *)
(* the same observation can never have been acknowledged.                  *)
RefusedConflicts ==
    \A a \in refused : \E e \in events : e.id = a.id /\ e.body # a.body

(* A quarantined document is malformed, invalid, or contradicts a row that *)
(* is visible; a good document is never lost to quarantine.                *)
QuarantineJustified ==
    \A d \in rejected :
        \/ ~WellFormed(d)
        \/ \E i \in DOMAIN d :
             \/ d[i].body = Bad
             \/ \E e \in Get(d[i].id) : e.body # d[i].body

(* Nothing is refused without reason, by either route.                     *)
RefusalsJustified == RefusedConflicts /\ QuarantineJustified

(* What clients are told is true: 200 and 201, 409, and the quarantine.    *)
AnswersJustified == AckedStored /\ RefusalsJustified

(* The events table only grows, and each commit adds rows above every      *)
(* sequence number that was visible before it.                             *)
AppendAbove ==
    [][/\ events \subseteq events'
       /\ \A n \in events' \ events : \A e \in events : e.seq < n.seq]_vars

(* A commit makes whole documents visible: each new row belongs to a       *)
(* document its transaction accepted, and every observation of every       *)
(* accepted document is stored once it is done.                            *)
WholeDocuments ==
    [][events' # events =>
         \E s \in Sessions :
            /\ \A n \in events' \ events :
                 [id |-> n.id, body |-> n.body] \in AcceptedItems(s)
            /\ \A a \in AcceptedItems(s) :
                 \E e \in events' : e.id = a.id /\ e.body = a.body]_vars

(* Every transaction ends, by commit or rollback, and gives the writer     *)
(* lock back, even when its client vanished while it held the lock.        *)
TransactionsEnd ==
    \A s \in Sessions : phase[s] # "idle" ~> phase[s] = "idle"

(* The store is the abstract log: each commit is one append, each page one *)
(* read of a contiguous range, everything else is invisible to readers.    *)
Log == INSTANCE ObservationLog WITH log <- events
LogSpec == Log!Spec
=============================================================================
