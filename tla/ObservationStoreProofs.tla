----------------------- MODULE ObservationStoreProofs -----------------------
(***************************************************************************)
(* Machine-checked theorems about ObservationStore, for any number of      *)
(* sessions, readers, identifiers and documents.                           *)
(***************************************************************************)
EXTENDS ObservationStore, FiniteSetTheorems, TLAPS

USE DEF tables, work, told, readers, writers

(* The observation under the loop is an item of the submitted document.    *)
LEMMA CurrentType ==
    ASSUME TypeOK, PositionInv, NEW s \in Sessions, Writing(s)
    PROVE  /\ Doc(s) \in Document
           /\ item[s] \in DOMAIN Doc(s)
           /\ Current(s) \in Item
<1>1. request[s] \in Request /\ doc[s] \in DOMAIN Docs(s) /\ item[s] \in Nat \ {0}
  BY DEF TypeOK, PositionInv, Writing
<1>2. Doc(s) \in Document
  BY <1>1 DEF Request, Docs, Doc
<1>3. item[s] \in DOMAIN Doc(s)
  BY <1>1, <1>2 DEF Writing, Document
<1> QED
  BY <1>2, <1>3 DEF Current, Document

(* A new row holds the submitted content, so it is a row of the table.     *)
LEMMA NewRowType ==
    ASSUME TypeOK, PositionInv, NEW s \in Sessions, WriteItem(s)
    PROVE  /\ NewRow(s) \in Row
           /\ NewRow(s).id = Current(s).id
           /\ NewRow(s).seq = nextSeq
           /\ NewRow(s).body = Current(s).body
<1>1. Current(s) \in Item /\ Current(s).body # Bad
  BY CurrentType DEF WriteItem
<1> QED
  BY <1>1 DEF NewRow, Row, Item, TypeOK

(* The documents of a session are those of its request.                   *)
LEMMA DocsType ==
    ASSUME TypeOK, NEW s \in Sessions
    PROVE  Docs(s) \in Seq(Document) /\ Len(Docs(s)) \in Nat
                /\ DOMAIN Docs(s) = 1..Len(Docs(s))
  BY DEF TypeOK, Request, Docs

(* Every step keeps the types.                                             *)
LEMMA TypeStep ==
    ASSUME TypeOK, PositionInv, [Next]_vars
    PROVE  TypeOK'
<1> USE StoreAssumption
<1>1. ASSUME NEW s \in Sessions, NEW route \in {"api", "mqtt"},
             NEW docs \in Submissions, Begin(s, route, docs)
      PROVE  TypeOK'
  <2>1. [route |-> route, docs |-> docs] \in Request
    BY DEF Request
  <2> QED BY <1>1, <2>1 DEF Begin, TypeOK, Phases
<1>2. ASSUME NEW s \in Sessions, TakeLock(s)
      PROVE  TypeOK'
  BY <1>2 DEF TakeLock, TypeOK, Phases
<1>3. ASSUME NEW s \in Sessions, WriteItem(s)
      PROVE  TypeOK'
  <2>1. NewRow(s) \in Row
    BY <1>3, NewRowType
  <2> QED BY <1>3, <2>1 DEF WriteItem, TypeOK
<1>4. ASSUME NEW s \in Sessions, EndDocument(s)
      PROVE  TypeOK'
  BY <1>4 DEF EndDocument, NextDocument, TypeOK, Phases
<1> DEFINE CloseType ==
      /\ lock' \in Sessions \cup {None}
      /\ phase' \in [Sessions -> Phases]
      /\ request' \in [Sessions -> Request]
      /\ doc' \in [Sessions -> Nat \ {0}]
      /\ item' \in [Sessions -> Nat \ {0}]
      /\ done' \in [Sessions -> SUBSET Row]
      /\ rows' \in [Sessions -> SUBSET Row]
      /\ quarantined' \in [Sessions -> SUBSET Nat]
      /\ client' \in [Sessions -> BOOLEAN]
<1>5. ASSUME NEW s \in Sessions, Close(s)
      PROVE  CloseType
  <2>1. Idle \in Request
    BY DEF Idle, Request
  <2> QED BY <1>5, <2>1 DEF Close, ReleaseLock, TypeOK, Phases
<1>6. ASSUME NEW s \in Sessions, Refuse(s)
      PROVE  TypeOK'
  <2>1. Current(s) \in Item
    BY <1>6, CurrentType DEF Refuse
  <2>2. CloseType
    BY <1>5, <1>6 DEF Refuse
  <2> QED BY <1>6, <2>1, <2>2 DEF Refuse, TypeOK
<1>7. ASSUME NEW s \in Sessions, Quarantine(s)
      PROVE  TypeOK'
  <2>1. nextSeq' \in Nat \ {0}
    BY <1>7 DEF Quarantine, TypeOK
  <2> QED BY <1>7, <2>1 DEF Quarantine, NextDocument, TypeOK, Phases
<1>8. ASSUME NEW s \in Sessions, Commit(s)
      PROVE  TypeOK'
  <2>1. quarantined[s] \subseteq DOMAIN Docs(s) /\ Docs(s) \in Seq(Document)
    BY DocsType DEF PositionInv
  <2>2. {Docs(s)[d] : d \in quarantined[s]} \subseteq Document
    BY <2>1
  <2>3. \A d \in Accepted(s) : Docs(s)[d] \in Seq(Item)
    BY <2>1 DEF Accepted, Document
  <2>4. AcceptedItems(s) \subseteq Item
    BY <2>3 DEF AcceptedItems
  <2>5. CloseType
    BY <1>5, <1>8 DEF Commit
  <2> QED BY <1>8, <2>2, <2>4, <2>5 DEF Commit, TypeOK
<1>9. ASSUME NEW s \in Sessions, LoseClient(s)
      PROVE  TypeOK'
  BY <1>9 DEF LoseClient, TypeOK
<1>10. ASSUME NEW s \in Sessions, Abort(s)
       PROVE  TypeOK'
  <2>1. CloseType
    BY <1>5, <1>10 DEF Abort
  <2> QED BY <1>10, <2>1 DEF Abort, TypeOK
<1>11. ASSUME NEW r \in Readers, NEW limit \in 1..MaxPage, ReadPage(r, limit)
       PROVE  TypeOK'
  <2>1. List(cursor[r], limit + 1) \subseteq Row
    BY DEF List, TypeOK
  <2>2. cursor' \in [Readers -> Nat] /\ seen' \in [Readers -> SUBSET Row]
    BY <1>11, <2>1 DEF ReadPage, Truncate, TypeOK, Row
  <2>3. more' \in [Readers -> BOOLEAN]
    BY <1>11 DEF ReadPage, TypeOK
  <2> QED BY <1>11, <2>2, <2>3 DEF ReadPage, TypeOK
<1>12. CASE UNCHANGED vars
  BY <1>12 DEF vars, TypeOK
<1> QED
  BY <1>1, <1>2, <1>3, <1>4, <1>6, <1>7, <1>8, <1>9, <1>10, <1>11, <1>12 DEF Next

(* A finished document is behind the transaction's position.               *)
LEMMA PositionStep ==
    ASSUME TypeOK, PositionInv, TypeOK', [Next]_vars
    PROVE  PositionInv'
<1> USE StoreAssumption
<1>1. ASSUME NEW s \in Sessions, NEW route \in {"api", "mqtt"},
             NEW docs \in Submissions, Begin(s, route, docs)
      PROVE  PositionInv'
  <2>1. docs \in Seq(Document) /\ 1 \in DOMAIN docs
    BY <1>1 DEF Begin
  <2>2. Docs(s)' = docs /\ doc'[s] = 1 /\ quarantined'[s] = {}
    BY <1>1 DEF Begin, Docs, TypeOK, PositionInv
  <2> QED BY <1>1, <2>1, <2>2 DEF Begin, PositionInv, TypeOK, Docs
<1>2. ASSUME NEW s \in Sessions, Close(s)
      PROVE  PositionInv'
  BY <1>2 DEF Close, PositionInv, TypeOK, Docs
<1>3. ASSUME NEW s \in Sessions, NextDocument(s), UNCHANGED request,
             phase[s] \in {"doc", "write"},
             \/ UNCHANGED quarantined
             \/ quarantined' = [quarantined EXCEPT ![s] = @ \cup {doc[s]}]
      PROVE  PositionInv'
  <2>1. \A o \in Sessions : Docs(o)' = Docs(o)
    BY <1>3 DEF Docs
  <2>2. doc'[s] = doc[s] + 1 /\ doc[s] \in 1..Len(Docs(s))
    BY <1>3, DocsType DEF NextDocument, PositionInv, TypeOK
  <2>3. \A o \in Sessions \ {s} : /\ phase'[o] = phase[o] /\ doc'[o] = doc[o]
                                  /\ quarantined'[o] = quarantined[o]
    BY <1>3 DEF NextDocument, TypeOK
  <2>4. quarantined'[s] \subseteq quarantined[s] \cup {doc[s]}
    BY <1>3 DEF TypeOK
  <2>5. /\ phase'[s] = "doc" => doc[s] < Len(Docs(s))
        /\ phase'[s] = "commit" => ~(doc[s] < Len(Docs(s)))
        /\ phase'[s] \in {"doc", "commit"}
    BY <1>3 DEF NextDocument, TypeOK
  <2>6. quarantined'[s] \subseteq (DOMAIN Docs(s)) \cap 1..(doc'[s] - 1)
    BY <2>2, <2>4, DocsType DEF PositionInv
  <2> DEFINE Position(o) ==
        /\ phase[o] \in {"doc", "write"} => doc[o] \in DOMAIN Docs(o)
        /\ phase[o] = "commit" => doc[o] = Len(Docs(o)) + 1
        /\ phase[o] = "idle" => doc[o] = 1
        /\ quarantined[o] \subseteq (DOMAIN Docs(o)) \cap 1..(doc[o] - 1)
  <2>7. ASSUME NEW o \in Sessions, o # s
        PROVE  Position(o)'
    BY <2>1, <2>3, <2>7 DEF PositionInv
  <2>8. Position(s)'
    BY <2>1, <2>2, <2>5, <2>6, DocsType
  <2> QED BY <2>7, <2>8 DEF PositionInv
<1>4. ASSUME UNCHANGED <<phase, request, doc, quarantined>>
      PROVE  PositionInv'
  BY <1>4 DEF PositionInv, Docs
<1>5. ASSUME NEW s \in Sessions, TakeLock(s)
      PROVE  PositionInv'
  BY <1>5 DEF TakeLock, PositionInv, Docs, TypeOK
<1>6. ASSUME NEW s \in Sessions, EndDocument(s)
      PROVE  PositionInv'
  BY <1>3, <1>6 DEF EndDocument
<1>7. ASSUME NEW s \in Sessions, Quarantine(s)
      PROVE  PositionInv'
  BY <1>3, <1>7 DEF Quarantine, Writing
<1>8. ASSUME NEW s \in Sessions, Refuse(s) \/ Commit(s) \/ Abort(s)
      PROVE  PositionInv'
  BY <1>2, <1>8 DEF Refuse, Commit, Abort
<1>9. ASSUME NEW s \in Sessions, WriteItem(s) \/ LoseClient(s)
      PROVE  PositionInv'
  BY <1>4, <1>9 DEF WriteItem, LoseClient
<1>10. ASSUME NEW r \in Readers, NEW limit \in 1..MaxPage, ReadPage(r, limit)
       PROVE  PositionInv'
  BY <1>4, <1>10 DEF ReadPage
<1>11. CASE UNCHANGED vars
  BY <1>4, <1>11 DEF vars
<1> QED
  BY <1>1, <1>5, <1>6, <1>7, <1>8, <1>9, <1>10, <1>11 DEF Next

(* The initial state has the types and positions.                          *)
LEMMA InitType == Init => TypeOK /\ PositionInv
<1> SUFFICES ASSUME Init PROVE TypeOK /\ PositionInv
  OBVIOUS
<1>1. Idle \in Request
  BY DEF Idle, Request
<1>2. TypeOK
  BY <1>1 DEF Init, TypeOK, Phases
<1>3. PositionInv
  BY DEF Init, PositionInv
<1> QED BY <1>2, <1>3

(* Type correctness: tables, transactions and readers keep their types in  *)
(* every behaviour, whatever the documents and sessions are.               *)
THEOREM TypeCorrect == Spec => []TypeOK
<1>1. TypeOK /\ PositionInv /\ [Next]_vars => TypeOK' /\ PositionInv'
  BY TypeStep, PositionStep
<1>2. Spec => [](TypeOK /\ PositionInv)
  BY InitType, <1>1, PTL DEF Spec
<1> QED
  BY <1>2, PTL
-----------------------------------------------------------------------------
(* Lock discipline: rows are written, and kept until commit, only under    *)
(* the writer lock; a rolled-back document gives back only its own lock.   *)
LEMMA LockStep ==
    ASSUME TypeOK, PositionInv, LockInv, TypeOK', [Next]_vars
    PROVE  LockInv'
<1> USE StoreAssumption
<1> DEFINE Discipline(o) ==
      /\ phase[o] = "write" => lock = o
      /\ KeepsLock(o) => lock = o
      /\ done[o] # {} => KeepsLock(o)
      /\ rows[o] # {} => phase[o] = "write"
<1>0. \A o \in Sessions : Discipline(o)
  BY DEF LockInv
<1>a. ASSUME NEW o \in Sessions,
             phase'[o] = phase[o], doc'[o] = doc[o], done'[o] = done[o],
             rows'[o] = rows[o], quarantined'[o] = quarantined[o],
             lock = o => lock' = o
      PROVE  Discipline(o)'
  BY <1>0, <1>a DEF KeepsLock
<1>1. ASSUME NEW s \in Sessions, NEW route \in {"api", "mqtt"},
             NEW docs \in Submissions, Begin(s, route, docs)
      PROVE  LockInv'
  <2>1. Discipline(s)'
    <3>1. doc[s] = 1 /\ phase'[s] = "doc"
      BY <1>1 DEF Begin, PositionInv, TypeOK
    <3>2. ~KeepsLock(s) /\ KeepsLock(s)' = KeepsLock(s)
      BY <1>1, <3>1 DEF Begin, KeepsLock
    <3> QED BY <1>0, <1>1, <3>1, <3>2 DEF Begin
  <2>2. ASSUME NEW o \in Sessions, o # s PROVE Discipline(o)'
    BY <1>1, <1>a, <2>2 DEF Begin, TypeOK
  <2> QED BY <2>1, <2>2 DEF LockInv
<1>2. ASSUME NEW s \in Sessions, TakeLock(s)
      PROVE  LockInv'
  <2>1. Discipline(s)'
    BY <1>0, <1>2 DEF TakeLock, KeepsLock, TypeOK
  <2>2. ASSUME NEW o \in Sessions, o # s PROVE Discipline(o)'
    <3>1. lock # o
      BY <1>2, <2>2 DEF TakeLock
    <3>2. phase'[o] = phase[o]
      BY <1>2, <2>2 DEF TakeLock, TypeOK
    <3> QED BY <1>2, <1>a, <3>1, <3>2 DEF TakeLock
  <2> QED BY <2>1, <2>2 DEF LockInv
<1>3. ASSUME NEW s \in Sessions, WriteItem(s)
      PROVE  LockInv'
  <2>1. Discipline(s)'
    BY <1>0, <1>3 DEF WriteItem, Writing, KeepsLock, TypeOK
  <2>2. ASSUME NEW o \in Sessions, o # s PROVE Discipline(o)'
    BY <1>3, <1>a, <2>2 DEF WriteItem, TypeOK
  <2> QED BY <2>1, <2>2 DEF LockInv
<1>4. ASSUME NEW s \in Sessions, EndDocument(s)
      PROVE  LockInv'
  <2>1. doc'[s] = doc[s] + 1 /\ doc[s] \notin quarantined'[s] /\ doc[s] \in Nat \ {0}
    BY <1>4 DEF EndDocument, NextDocument, PositionInv, TypeOK
  <2>2. KeepsLock(s)'
    BY <2>1 DEF KeepsLock
  <2>3. lock' = s /\ rows'[s] = {}
    BY <1>0, <1>4 DEF EndDocument, TypeOK
  <2>4. Discipline(s)'
    BY <2>2, <2>3
  <2>5. ASSUME NEW o \in Sessions, o # s PROVE Discipline(o)'
    BY <1>4, <1>a, <2>5 DEF EndDocument, NextDocument, TypeOK
  <2> QED BY <2>4, <2>5 DEF LockInv
<1>5. ASSUME NEW s \in Sessions, Close(s)
      PROVE  LockInv'
  <2>1. Discipline(s)'
    <3>1. doc'[s] = 1 /\ phase'[s] = "idle" /\ done'[s] = {} /\ rows'[s] = {}
      BY <1>5 DEF Close, TypeOK
    <3>2. ~KeepsLock(s)'
      BY <3>1 DEF KeepsLock
    <3> QED BY <3>1, <3>2
  <2>2. ASSUME NEW o \in Sessions, o # s PROVE Discipline(o)'
    BY <1>5, <1>a, <2>2 DEF Close, ReleaseLock, TypeOK
  <2> QED BY <2>1, <2>2 DEF LockInv
<1>6. ASSUME NEW s \in Sessions, Quarantine(s)
      PROVE  LockInv'
  <2>1. /\ doc'[s] = doc[s] + 1 /\ doc[s] \in Nat \ {0}
        /\ quarantined'[s] = quarantined[s] \cup {doc[s]}
        /\ rows'[s] = {} /\ done'[s] = done[s]
        /\ phase'[s] # "write"
    BY <1>6 DEF Quarantine, NextDocument, TypeOK
  <2>2. KeepsLock(s)' <=> KeepsLock(s)
    BY <2>1 DEF KeepsLock
  <2>3. KeepsLock(s) => lock' = lock
    BY <1>6 DEF Quarantine
  <2>4. Discipline(s)'
    BY <1>0, <2>1, <2>2, <2>3
  <2>5. ASSUME NEW o \in Sessions, o # s PROVE Discipline(o)'
    BY <1>6, <1>a, <2>5 DEF Quarantine, NextDocument, TypeOK
  <2> QED BY <2>4, <2>5 DEF LockInv
<1>7. ASSUME NEW s \in Sessions, Refuse(s) \/ Commit(s) \/ Abort(s)
      PROVE  LockInv'
  BY <1>5, <1>7 DEF Refuse, Commit, Abort
<1>8. ASSUME UNCHANGED <<phase, lock, work>>
      PROVE  LockInv'
  BY <1>8 DEF LockInv, KeepsLock
<1>9. ASSUME NEW s \in Sessions, LoseClient(s)
      PROVE  LockInv'
  BY <1>8, <1>9 DEF LoseClient
<1>10. ASSUME NEW r \in Readers, NEW limit \in 1..MaxPage, ReadPage(r, limit)
       PROVE  LockInv'
  BY <1>8, <1>10 DEF ReadPage
<1>11. CASE UNCHANGED vars
  BY <1>8, <1>11 DEF vars
<1> QED
  BY <1>1, <1>2, <1>3, <1>4, <1>6, <1>7, <1>9, <1>10, <1>11 DEF Next

(* Two sessions never have uncommitted rows at the same time.              *)
LEMMA OneWriter ==
    ASSUME LockInv, NEW s \in Sessions, Uncommitted(s) # {}
    PROVE  lock = s /\ \A o \in Sessions \ {s} : Uncommitted(o) = {}
  BY DEF LockInv, Uncommitted

(* Sequence numbers: an uncommitted row lies above every committed one,    *)
(* and identifiers stay unique across the table and the open transaction.  *)
LEMMA RowsStep ==
    ASSUME TypeOK, PositionInv, LockInv, SequenceInv, UniqueInv, TypeOK', [Next]_vars
    PROVE  SequenceInv' /\ UniqueInv'
<1> USE StoreAssumption
<1> DEFINE Above(o) == \A n \in Uncommitted(o) :
             n.seq \in 1..(nextSeq - 1) /\ \A e \in events : e.seq < n.seq
           Fresh(o) == \A n \in Uncommitted(o) :
             /\ \A m \in Uncommitted(o) : n.id = m.id \/ n.seq = m.seq => n = m
             /\ \A e \in events : e.id # n.id
<1>0. \A o \in Sessions : Above(o) /\ Fresh(o)
  BY DEF SequenceInv, UniqueInv
(* Steps that leave the table alone and write no row.                      *)
<1>1. ASSUME UNCHANGED events, nextSeq' \in {nextSeq, nextSeq + 1},
             \A o \in Sessions : Uncommitted(o)' \subseteq Uncommitted(o)
      PROVE  SequenceInv' /\ UniqueInv'
  <2>1. nextSeq \in Nat
    BY DEF TypeOK
  <2>2. \A o \in Sessions : Above(o)'
    BY <1>0, <1>1, <2>1
  <2>3. \A o \in Sessions : Fresh(o)'
    BY <1>0, <1>1
  <2>4. \A e \in events' : e.seq \in 1..(nextSeq' - 1)
    BY <1>1, <2>1 DEF SequenceInv
  <2>5. \A e, f \in events' : e.id = f.id \/ e.seq = f.seq => e = f
    BY <1>1 DEF UniqueInv
  <2>6. SequenceInv'
    BY <2>2, <2>4 DEF SequenceInv
  <2>7. UniqueInv'
    BY <2>3, <2>5 DEF UniqueInv
  <2> QED BY <2>6, <2>7
<1>2. ASSUME NEW s \in Sessions, WriteItem(s)
      PROVE  SequenceInv' /\ UniqueInv'
  <2>1. CASE Existing(s) # {}
    BY <1>1, <1>2, <2>1 DEF WriteItem, Uncommitted, TypeOK
  <2>2. CASE Existing(s) = {}
    <3>1. /\ Uncommitted(s)' = Uncommitted(s) \cup {NewRow(s)}
          /\ \A o \in Sessions \ {s} : Uncommitted(o)' = Uncommitted(o)
          /\ events' = events /\ nextSeq' = nextSeq + 1 /\ nextSeq \in Nat \ {0}
      BY <1>2, <2>2 DEF WriteItem, Uncommitted, TypeOK
    <3>2. NewRow(s).seq = nextSeq /\ NewRow(s).id = Current(s).id
      BY <1>2, NewRowType
    <3>3. \A e \in events \cup Uncommitted(s) : e.id # NewRow(s).id
      BY <2>2, <3>2 DEF Existing, Visible, Uncommitted
    <3>4. /\ \A e \in events : e.seq \in 1..(nextSeq - 1)
          /\ \A n \in Uncommitted(s) : n.seq \in 1..(nextSeq - 1)
      BY <1>0 DEF SequenceInv
    <3>5. \A e \in events \cup Uncommitted(s) : e.seq < NewRow(s).seq
      BY <3>1, <3>2, <3>4
    <3>6. Above(s)'
      BY <1>0, <3>1, <3>2, <3>5
    <3>7. Fresh(s)'
      <4> SUFFICES ASSUME NEW n \in Uncommitted(s)'
                   PROVE  /\ \A m \in Uncommitted(s)' : n.id = m.id \/ n.seq = m.seq => n = m
                          /\ \A e \in events : e.id # n.id
        BY <3>1
      <4>1. CASE n = NewRow(s)
        <5>1. \A m \in Uncommitted(s) : m.seq # n.seq /\ m.id # n.id
          BY <3>1, <3>2, <3>3, <3>4, <4>1
        <5> QED BY <3>1, <3>3, <4>1, <5>1
      <4>2. CASE n \in Uncommitted(s)
        <5>1. n.seq # NewRow(s).seq /\ n.id # NewRow(s).id
          BY <3>1, <3>2, <3>3, <3>4, <4>2
        <5> QED BY <1>0, <3>1, <4>2, <5>1
      <4> QED BY <3>1, <4>1, <4>2
    <3>8. \A o \in Sessions \ {s} : Above(o)' /\ Fresh(o)'
      BY <1>0, <3>1
    <3>9. \A e \in events' : e.seq \in 1..(nextSeq' - 1)
      BY <3>1, <3>4
    <3>10. SequenceInv'
      BY <3>6, <3>8, <3>9 DEF SequenceInv
    <3>11. UniqueInv'
      BY <3>1, <3>7, <3>8 DEF UniqueInv
    <3> QED BY <3>10, <3>11
  <2> QED BY <2>1, <2>2
<1>3. ASSUME NEW s \in Sessions, Commit(s)
      PROVE  SequenceInv' /\ UniqueInv'
  <2>1. /\ events' = events \cup done[s] /\ nextSeq' = nextSeq
        /\ Uncommitted(s)' = {}
        /\ \A o \in Sessions \ {s} : Uncommitted(o)' = Uncommitted(o)
    BY <1>3 DEF Commit, Close, Uncommitted, TypeOK
  <2>2. CASE done[s] = {}
    <3>1. events' = events
      BY <2>1, <2>2
    <3>2. \A o \in Sessions : Uncommitted(o)' \subseteq Uncommitted(o)
      BY <2>1
    <3> QED BY <1>1, <2>1, <3>1, <3>2
  <2>3. CASE done[s] # {}
    <3>1. done[s] \subseteq Uncommitted(s)
      BY DEF Uncommitted
    <3>2. \A o \in Sessions : Uncommitted(o)' = {}
      BY <2>1, <2>3, <3>1, OneWriter
    <3>3. \A e \in events' : e.seq \in 1..(nextSeq' - 1)
      BY <1>0, <2>1, <3>1 DEF SequenceInv
    <3>4. \A e, f \in events' : e.id = f.id \/ e.seq = f.seq => e = f
      <4>1. \A e \in events, f \in done[s] : e.id # f.id /\ e.seq # f.seq
        BY <1>0, <3>1 DEF SequenceInv
      <4>2. \A e, f \in done[s] : e.id = f.id \/ e.seq = f.seq => e = f
        BY <1>0, <3>1
      <4> QED BY <2>1, <4>1, <4>2 DEF UniqueInv
    <3>5. SequenceInv'
      BY <3>2, <3>3 DEF SequenceInv
    <3>6. UniqueInv'
      BY <3>2, <3>4 DEF UniqueInv
    <3> QED BY <3>5, <3>6
  <2> QED BY <2>2, <2>3
<1>4. ASSUME NEW s \in Sessions,
             EndDocument(s) \/ Quarantine(s) \/ Refuse(s) \/ Abort(s)
      PROVE  SequenceInv' /\ UniqueInv'
  <2>1. UNCHANGED events /\ nextSeq' \in {nextSeq, nextSeq + 1}
    BY <1>4 DEF EndDocument, Quarantine, Refuse, Abort
  <2>2. \A o \in Sessions : Uncommitted(o)' \subseteq Uncommitted(o)
    BY <1>4 DEF EndDocument, Quarantine, Refuse, Abort, Close, Uncommitted, TypeOK
  <2> QED BY <1>1, <2>1, <2>2
<1>5. ASSUME UNCHANGED <<events, nextSeq, done, rows>>
      PROVE  SequenceInv' /\ UniqueInv'
  BY <1>1, <1>5 DEF Uncommitted
<1>6. ASSUME NEW s \in Sessions,
             \/ \E route \in {"api", "mqtt"}, docs \in Submissions : Begin(s, route, docs)
             \/ TakeLock(s)
             \/ LoseClient(s)
      PROVE  SequenceInv' /\ UniqueInv'
  BY <1>5, <1>6 DEF Begin, TakeLock, LoseClient
<1>7. ASSUME NEW r \in Readers, NEW limit \in 1..MaxPage, ReadPage(r, limit)
      PROVE  SequenceInv' /\ UniqueInv'
  BY <1>5, <1>7 DEF ReadPage
<1>8. CASE UNCHANGED vars
  BY <1>5, <1>8 DEF vars
<1> QED
  BY <1>2, <1>3, <1>4, <1>6, <1>7, <1>8 DEF Next

(* The tables are finite, so LIMIT has a meaning.                          *)
LEMMA FiniteStep ==
    ASSUME TypeOK, FiniteInv, [Next]_vars
    PROVE  FiniteInv'
<1>1. ASSUME NEW s \in Sessions, WriteItem(s)
      PROVE  FiniteInv'
  <2>1. IsFiniteSet(rows[s] \cup {NewRow(s)})
    BY FS_AddElement DEF FiniteInv
  <2> QED BY <1>1, <2>1 DEF WriteItem, FiniteInv, TypeOK
<1>2. ASSUME NEW s \in Sessions, EndDocument(s)
      PROVE  FiniteInv'
  <2>1. IsFiniteSet(done[s] \cup rows[s]) /\ IsFiniteSet({})
    BY FS_Union, FS_EmptySet DEF FiniteInv
  <2> QED BY <1>2, <2>1 DEF EndDocument, FiniteInv, TypeOK
<1>3. ASSUME NEW s \in Sessions, Close(s)
      PROVE  \A o \in Sessions : IsFiniteSet(done'[o]) /\ IsFiniteSet(rows'[o])
  <2>1. IsFiniteSet({})
    BY FS_EmptySet
  <2> QED BY <1>3, <2>1 DEF Close, FiniteInv, TypeOK
<1>4. ASSUME NEW s \in Sessions, Commit(s)
      PROVE  FiniteInv'
  <2>1. IsFiniteSet(events \cup done[s])
    BY FS_Union DEF FiniteInv
  <2> QED BY <1>3, <1>4, <2>1 DEF Commit, FiniteInv
<1>5. ASSUME NEW s \in Sessions, Refuse(s) \/ Abort(s)
      PROVE  FiniteInv'
  BY <1>3, <1>5 DEF Refuse, Abort, FiniteInv
<1>6. ASSUME NEW s \in Sessions, Quarantine(s)
      PROVE  FiniteInv'
  <2>1. IsFiniteSet({})
    BY FS_EmptySet
  <2> QED BY <1>6, <2>1 DEF Quarantine, FiniteInv, TypeOK
<1>7. ASSUME UNCHANGED <<events, done, rows>>
      PROVE  FiniteInv'
  BY <1>7 DEF FiniteInv
<1>8. ASSUME NEW s \in Sessions,
             \/ \E route \in {"api", "mqtt"}, docs \in Submissions : Begin(s, route, docs)
             \/ TakeLock(s)
             \/ LoseClient(s)
      PROVE  FiniteInv'
  BY <1>7, <1>8 DEF Begin, TakeLock, LoseClient
<1>9. ASSUME NEW r \in Readers, NEW limit \in 1..MaxPage, ReadPage(r, limit)
      PROVE  FiniteInv'
  BY <1>7, <1>9 DEF ReadPage
<1>10. CASE UNCHANGED vars
  BY <1>7, <1>10 DEF vars
<1> QED
  BY <1>1, <1>2, <1>4, <1>5, <1>6, <1>8, <1>9, <1>10 DEF Next
-----------------------------------------------------------------------------
(* A page has no holes: with a row it holds every visible row between the  *)
(* cursor and that row, although one row more was fetched and cut off.     *)
LEMMA PageClosed ==
    ASSUME events \subseteq Row, IsFiniteSet(events),
           NEW after \in Nat, NEW limit \in Nat,
           NEW e \in Truncate(List(after, limit + 1), limit),
           NEW f \in events, f.seq > after, f.seq <= e.seq
    PROVE  f \in Truncate(List(after, limit + 1), limit)
<1> DEFINE page == List(after, limit + 1)
           below(g) == {h \in events : h.seq > after /\ h.seq < g.seq}
           inside(g) == {h \in page : h.seq < g.seq}
<1>1. e \in events /\ e.seq > after /\ Cardinality(below(e)) < limit + 1
  BY DEF Truncate, List
<1>2. e.seq \in Nat /\ f.seq \in Nat
  BY <1>1 DEF Row
<1>3. \A h \in events : h.seq \in Nat
  BY DEF Row
<1>4. below(f) \subseteq below(e) /\ IsFiniteSet(below(e))
  <2>1. below(f) \subseteq below(e)
    BY <1>2, <1>3
  <2>2. below(e) \subseteq events
    OBVIOUS
  <2> QED BY <2>1, <2>2, FS_Subset
<1>5. Cardinality(below(f)) <= Cardinality(below(e))
  BY <1>4, FS_Subset
<1>6. Cardinality(below(f)) \in Nat /\ Cardinality(below(e)) \in Nat
  BY <1>4, FS_Subset, FS_CardinalityType
<1>7. f \in page
  BY <1>1, <1>5, <1>6 DEF List
<1>8. page \subseteq events
  BY DEF List
<1>9. inside(f) \subseteq inside(e) /\ IsFiniteSet(inside(e))
  <2>1. inside(f) \subseteq inside(e)
    BY <1>2, <1>3, <1>8
  <2>2. inside(e) \subseteq events
    BY <1>8
  <2> QED BY <2>1, <2>2, FS_Subset
<1>10. Cardinality(inside(f)) <= Cardinality(inside(e))
  BY <1>9, FS_Subset
<1>11. Cardinality(inside(f)) \in Nat /\ Cardinality(inside(e)) \in Nat
  BY <1>9, FS_Subset, FS_CardinalityType
<1>12. Cardinality(inside(e)) < limit
  BY DEF Truncate
<1> QED
  BY <1>7, <1>10, <1>11, <1>12 DEF Truncate

(* A page holds visible rows above the cursor only.                        *)
LEMMA PageVisible ==
    ASSUME NEW after, NEW limit
    PROVE  Truncate(List(after, limit + 1), limit) \subseteq
               {e \in events : e.seq > after}
  BY DEF Truncate, List

(* Committed rows appear above every cursor, and cursors move over rows    *)
(* that have been given out.                                               *)
LEMMA CursorStep ==
    ASSUME StoreInv, NoSkip, TypeOK', [Next]_vars
    PROVE  CursorInv' /\ NoSkip'
<1>1. ASSUME NEW s \in Sessions, Commit(s)
      PROVE  CursorInv' /\ NoSkip'
  <2>1. events' = events \cup done[s] /\ UNCHANGED <<cursor, seen>>
    BY <1>1 DEF Commit
  <2>2. CursorInv'
    BY <2>1 DEF StoreInv, CursorInv
  <2>3. ASSUME NEW r \in Readers, NEW n \in done[s]
        PROVE  cursor[r] < n.seq
    <3>1. n.seq \in 1..(nextSeq - 1) /\ \A e \in events : e.seq < n.seq
      BY DEF StoreInv, SequenceInv, Uncommitted
    <3>2. nextSeq \in Nat
      BY DEF StoreInv, TypeOK
    <3> QED BY <3>1, <3>2 DEF StoreInv, CursorInv
  <2>4. ASSUME NEW r \in Readers, NEW n \in done[s]
        PROVE  n.seq \in Nat /\ cursor[r] \in Nat
    BY DEF StoreInv, TypeOK, Row
  <2>5. NoSkip'
    BY <2>1, <2>3, <2>4 DEF NoSkip
  <2> QED BY <2>2, <2>5
<1>2. ASSUME NEW r \in Readers, NEW limit \in 1..MaxPage, ReadPage(r, limit)
      PROVE  CursorInv' /\ NoSkip'
  <2> DEFINE records == Truncate(List(cursor[r], limit + 1), limit)
  <2>0. /\ events \subseteq Row /\ IsFiniteSet(events)
        /\ cursor \in [Readers -> Nat] /\ seen \in [Readers -> SUBSET Row]
        /\ limit \in Nat
    BY StoreAssumption DEF StoreInv, TypeOK, FiniteInv
  <2>1. /\ events' = events
        /\ seen' = [seen EXCEPT ![r] = @ \cup records]
        /\ \/ records = {} /\ cursor' = cursor
           \/ \E last \in records : /\ \A e \in records : e.seq <= last.seq
                                     /\ cursor' = [cursor EXCEPT ![r] = last.seq]
    BY <1>2 DEF ReadPage
  <2>2. records \subseteq events
    BY PageVisible
  <2>3. CASE records = {} /\ cursor' = cursor
    BY <2>0, <2>1, <2>3 DEF StoreInv, CursorInv, NoSkip
  <2>4. ASSUME NEW last \in records, cursor' = [cursor EXCEPT ![r] = last.seq]
        PROVE  CursorInv' /\ NoSkip'
    <3>1. last \in events /\ last.seq \in Nat
      BY <2>0, <2>2 DEF Row
    <3>2. CursorInv'
      BY <2>0, <2>1, <2>4, <3>1 DEF StoreInv, CursorInv
    <3>3. ASSUME NEW e \in events, e.seq <= last.seq PROVE e \in seen'[r]
      <4>1. e.seq \in Nat
        BY <2>0 DEF Row
      <4>2. CASE e.seq <= cursor[r]
        BY <2>0, <2>1, <4>2 DEF NoSkip
      <4>3. CASE e.seq > cursor[r]
        <5> HIDE DEF records
        <5>1. e \in records
          BY <2>0, <3>3, <4>3, PageClosed DEF records
        <5> QED BY <2>0, <2>1, <5>1
      <4> QED BY <2>0, <4>1, <4>2, <4>3
    <3>4. NoSkip'
      BY <2>0, <2>1, <2>4, <3>3 DEF NoSkip
    <3> QED BY <3>2, <3>4
  <2> QED BY <2>1, <2>3, <2>4
<1>3. ASSUME UNCHANGED <<events, cursor, seen>>
      PROVE  CursorInv' /\ NoSkip'
  BY <1>3 DEF StoreInv, CursorInv, NoSkip
<1>4. ASSUME NEW s \in Sessions,
             \/ \E route \in {"api", "mqtt"}, docs \in Submissions : Begin(s, route, docs)
             \/ TakeLock(s) \/ WriteItem(s) \/ EndDocument(s) \/ Refuse(s)
             \/ Quarantine(s) \/ LoseClient(s) \/ Abort(s)
      PROVE  UNCHANGED <<events, cursor, seen>>
  BY <1>4 DEF Begin, TakeLock, WriteItem, EndDocument, Refuse, Quarantine,
              LoseClient, Abort
<1>5. CASE UNCHANGED vars
  BY <1>3, <1>5 DEF vars
<1> QED
  BY <1>1, <1>2, <1>3, <1>4, <1>5 DEF Next
-----------------------------------------------------------------------------
(* The initial state satisfies the inductive invariant.                    *)
LEMMA InitStore == Init => StoreInv /\ NoSkip
<1> SUFFICES ASSUME Init PROVE StoreInv /\ NoSkip
  OBVIOUS
<1>1. TypeOK /\ PositionInv
  BY InitType
<1>2. LockInv
  BY DEF Init, LockInv, KeepsLock
<1>3. SequenceInv /\ UniqueInv
  BY DEF Init, SequenceInv, UniqueInv, Uncommitted
<1>4. CursorInv /\ NoSkip
  BY DEF Init, CursorInv, NoSkip
<1>5. FiniteInv
  BY FS_EmptySet DEF Init, FiniteInv
<1> QED BY <1>1, <1>2, <1>3, <1>4, <1>5 DEF StoreInv

(* The inductive invariant: one writer at a time has uncommitted rows,     *)
(* they lie above everything visible, and no cursor is ahead of the table. *)
THEOREM StoreInvariant == Spec => [](StoreInv /\ NoSkip)
<1>1. StoreInv /\ NoSkip /\ [Next]_vars => StoreInv' /\ NoSkip'
  <2> SUFFICES ASSUME StoreInv, NoSkip, [Next]_vars
               PROVE  StoreInv' /\ NoSkip'
    OBVIOUS
  <2>1. TypeOK' /\ PositionInv'
    BY TypeStep, PositionStep DEF StoreInv
  <2>2. LockInv'
    BY <2>1, LockStep DEF StoreInv
  <2>3. SequenceInv' /\ UniqueInv'
    BY <2>1, RowsStep DEF StoreInv
  <2>4. FiniteInv'
    BY FiniteStep DEF StoreInv
  <2>5. CursorInv' /\ NoSkip'
    BY <2>1, CursorStep
  <2> QED BY <2>1, <2>2, <2>3, <2>4, <2>5 DEF StoreInv
<1> QED
  BY InitStore, <1>1, PTL DEF Spec

(* Cursor pagination never skips a row, whatever batches, conflicts,       *)
(* timeouts and rollbacks happen on either route.                          *)
THEOREM PaginationNeverSkips == Spec => []NoSkip
  BY StoreInvariant, PTL

(* Commits only append, above every number that was visible before.        *)
THEOREM CommitsAppend == Spec => AppendAbove
<1>1. StoreInv /\ [Next]_vars =>
        [/\ events \subseteq events'
         /\ \A n \in events' \ events : \A e \in events : e.seq < n.seq]_vars
  <2> SUFFICES ASSUME StoreInv, Next
               PROVE  /\ events \subseteq events'
                      /\ \A n \in events' \ events : \A e \in events : e.seq < n.seq
    OBVIOUS
  <2>1. ASSUME NEW s \in Sessions, Commit(s)
        PROVE  /\ events \subseteq events'
               /\ \A n \in events' \ events : \A e \in events : e.seq < n.seq
    BY <2>1 DEF Commit, StoreInv, SequenceInv, Uncommitted
  <2>2. (\E s \in Sessions : Commit(s)) \/ events' = events
    BY DEF Next, Begin, TakeLock, WriteItem, EndDocument, Refuse, Quarantine,
           LoseClient, Abort, ReadPage
  <2> QED BY <2>1, <2>2
<1> QED
  BY StoreInvariant, <1>1, PTL DEF Spec, AppendAbove

(* The store implements the abstract log: a commit is one append of fresh  *)
(* rows, a page is one read of a contiguous range, and nothing else is     *)
(* visible to readers.                                                     *)
THEOREM StoreImplementsLog == Spec => LogSpec
<1>1. Init => Log!Init
  BY DEF Init, Log!Init
<1>2. StoreInv /\ [Next]_vars => [Log!Next]_(Log!vars)
  <2> SUFFICES ASSUME StoreInv, [Next]_vars
               PROVE  Log!Next \/ UNCHANGED <<events, cursor, seen>>
    BY DEF Log!vars
  <2>1. ASSUME NEW s \in Sessions, Commit(s)
        PROVE  Log!Append
    <3>1. events' = events \cup done[s] /\ UNCHANGED <<cursor, seen>>
      BY <2>1 DEF Commit
    <3>2. \A n \in done[s] : \A e \in events : n.id # e.id /\ e.seq < n.seq
      BY DEF StoreInv, SequenceInv, UniqueInv, Uncommitted
    <3>3. \A n \in done[s] : \A e \in events : n.seq > e.seq
      <4>1. done[s] \subseteq Row /\ events \subseteq Row
        BY DEF StoreInv, TypeOK
      <4> QED BY <3>2, <4>1 DEF Row
    <3>4. \A n, m \in done[s] : n.id = m.id \/ n.seq = m.seq => n = m
      BY DEF StoreInv, UniqueInv, Uncommitted
    <3>5. events' \ events \subseteq done[s]
      BY <3>1
    <3> QED BY <3>1, <3>2, <3>3, <3>4, <3>5 DEF Log!Append
  <2>2. ASSUME NEW r \in Readers, NEW limit \in 1..MaxPage, ReadPage(r, limit)
        PROVE  Log!Next \/ UNCHANGED <<events, cursor, seen>>
    <3> DEFINE records == Truncate(List(cursor[r], limit + 1), limit)
    <3>0. /\ events \subseteq Row /\ IsFiniteSet(events)
          /\ cursor \in [Readers -> Nat] /\ seen \in [Readers -> SUBSET Row]
          /\ limit \in Nat
      BY StoreAssumption DEF StoreInv, TypeOK, FiniteInv
    <3>1. /\ events' = events
          /\ seen' = [seen EXCEPT ![r] = @ \cup records]
          /\ \/ records = {} /\ cursor' = cursor
             \/ \E last \in records : /\ \A e \in records : e.seq <= last.seq
                                       /\ cursor' = [cursor EXCEPT ![r] = last.seq]
      BY <2>2 DEF ReadPage
    <3>2. CASE records = {} /\ cursor' = cursor
      <4>1. seen' = seen
        BY <3>0, <3>1, <3>2
      <4> QED BY <3>1, <3>2, <4>1
    <3>3. ASSUME NEW last \in records, \A e \in records : e.seq <= last.seq,
                 cursor' = [cursor EXCEPT ![r] = last.seq]
          PROVE  Log!Next
      <4>1. records \subseteq {e \in events : e.seq > cursor[r]}
        BY PageVisible
      <4> HIDE DEF records
      <4>2. ASSUME NEW e \in events, e.seq > cursor[r], e.seq <= last.seq
            PROVE  e \in records
        BY <3>0, <4>2, PageClosed DEF records
      <4>3. records = {e \in events : e.seq > cursor[r] /\ e.seq <= last.seq}
        BY <3>3, <4>1, <4>2
      <4>4. last \in events /\ last.seq > cursor[r]
        BY <4>1
      <4>5. Log!Read(r, last)
        BY <3>1, <3>3, <4>3, <4>4 DEF Log!Read
      <4> QED BY <4>4, <4>5 DEF Log!Next
    <3> QED BY <3>1, <3>2, <3>3
  <2>3. CASE UNCHANGED vars
    BY <2>3 DEF vars
  <2>4. ASSUME NEW s \in Sessions,
               \/ \E route \in {"api", "mqtt"}, docs \in Submissions : Begin(s, route, docs)
               \/ TakeLock(s) \/ WriteItem(s) \/ EndDocument(s) \/ Refuse(s)
               \/ Quarantine(s) \/ LoseClient(s) \/ Abort(s)
        PROVE  UNCHANGED <<events, cursor, seen>>
    BY <2>4 DEF Begin, TakeLock, WriteItem, EndDocument, Refuse, Quarantine,
                LoseClient, Abort
  <2> QED BY <2>1, <2>2, <2>3, <2>4 DEF Next, Log!Next
<1> QED
  BY <1>1, <1>2, StoreInvariant, PTL DEF Spec, LogSpec, Log!Spec
-----------------------------------------------------------------------------
(* A row holds an observation.                                             *)
Holds(e, o) == e.id = o.id /\ e.body = o.body

(* What justifies the quarantine of document d when the rows S are stored. *)
Against(S, d) ==
    \/ ~WellFormed(d)
    \/ \E i \in DOMAIN d :
         \/ d[i].body = Bad
         \/ \E e \in S : e.id = d[i].id /\ e.body # d[i].body

(* The rows session s would leave in the table if its documents ended now. *)
Kept(s) == events \cup done[s]

(* The loop runs over a document that passed the checks; Put has only one. *)
LoopInv(s) ==
    /\ request[s].route = "api" => Len(Docs(s)) <= 1
    /\ phase[s] # "write" => item[s] = 1
    /\ phase[s] = "write" => WellFormed(Doc(s))

(* The rows of the current document are observations the loop has passed,  *)
(* and each observation it has passed is stored with the same content.     *)
LoopRows(s) ==
    /\ \A n \in rows[s] : \E j \in DOMAIN Doc(s) : j < item[s] /\ Holds(n, Doc(s)[j])
    /\ phase[s] = "write" =>
         \A j \in DOMAIN Doc(s) : j < item[s] => \E e \in Visible(s) : Holds(e, Doc(s)[j])

(* The same for the documents the transaction has accepted so far, ...     *)
AcceptedRows(s) ==
    /\ \A n \in done[s] : \E d \in Accepted(s) :
         d < doc[s] /\ \E j \in DOMAIN Docs(s)[d] : Holds(n, Docs(s)[d][j])
    /\ \A d \in Accepted(s) : d < doc[s] =>
         \A j \in DOMAIN Docs(s)[d] : \E e \in Kept(s) : Holds(e, Docs(s)[d][j])

(* ... and each document it quarantined has a reason that stays.           *)
RejectedRows(s) == \A d \in quarantined[s] : Against(Kept(s), Docs(s)[d])

TransactionInv(s) ==
    /\ LoopInv(s)
    /\ LoopRows(s)
    /\ AcceptedRows(s)
    /\ RejectedRows(s)

(* The inductive invariant behind the answers.                             *)
AnswerInv == (\A s \in Sessions : TransactionInv(s)) /\ AnswersJustified

(* Reasons and contents stay when rows are added.                          *)
LEMMA AgainstGrows ==
    ASSUME NEW S, NEW T, S \subseteq T, NEW d, Against(S, d)
    PROVE  Against(T, d)
  BY DEF Against

(* A transaction another session's step leaves alone: the table only grows *)
(* under it.                                                               *)
LEMMA TransactionFrame ==
    ASSUME NEW o \in Sessions, TransactionInv(o), events \subseteq events',
           phase'[o] = phase[o], request'[o] = request[o], doc'[o] = doc[o],
           item'[o] = item[o], done'[o] = done[o], rows'[o] = rows[o],
           quarantined'[o] = quarantined[o]
    PROVE  TransactionInv(o)'
<1>1. Docs(o)' = Docs(o) /\ Doc(o)' = Doc(o) /\ Accepted(o)' = Accepted(o)
  BY DEF Docs, Doc, Accepted
<1>2. Kept(o) \subseteq Kept(o)' /\ Visible(o) \subseteq Visible(o)'
  BY DEF Kept, Visible
<1>3. LoopInv(o)'
  BY <1>1 DEF TransactionInv, LoopInv
<1>4. LoopRows(o)'
  BY <1>1, <1>2 DEF TransactionInv, LoopRows
<1>5. AcceptedRows(o)'
  BY <1>1, <1>2 DEF TransactionInv, AcceptedRows
<1>6. RejectedRows(o)'
  BY <1>1, <1>2, AgainstGrows DEF TransactionInv, RejectedRows
<1> QED BY <1>3, <1>4, <1>5, <1>6 DEF TransactionInv

(* A transaction that has not finished a document, or none at all.         *)
LEMMA TransactionFresh ==
    ASSUME NEW s \in Sessions, TypeOK', doc'[s] = 1, item'[s] = 1,
           done'[s] = {}, rows'[s] = {}, quarantined'[s] = {},
           phase'[s] # "write", request'[s].route = "api" => Len(Docs(s)') <= 1
    PROVE  TransactionInv(s)'
<1>1. LoopInv(s)' /\ RejectedRows(s)'
  BY DEF LoopInv, RejectedRows, Docs
<1>2. LoopRows(s)'
  BY DEF LoopRows
<1>3. \A d \in Accepted(s)' : d \in Nat \ {0}
  <2>1. Docs(s)' \in Seq(Document)
    BY DEF TypeOK, Request, Docs
  <2> QED BY <2>1 DEF Accepted
<1>4. AcceptedRows(s)'
  BY <1>3 DEF AcceptedRows
<1> QED BY <1>1, <1>2, <1>4 DEF TransactionInv

(* Nothing is being written or kept before the first document.             *)
LEMMA NothingYet ==
    ASSUME PositionInv, LockInv, TypeOK, NEW s \in Sessions, phase[s] = "idle"
    PROVE  doc[s] = 1 /\ done[s] = {} /\ rows[s] = {} /\ quarantined[s] = {}
<1>1. doc[s] = 1
  BY DEF PositionInv
<1>2. quarantined[s] \subseteq 1..0 /\ ~KeepsLock(s)
  BY <1>1 DEF PositionInv, KeepsLock
<1> QED
  BY <1>1, <1>2 DEF LockInv

(* Put writes one document, so nothing is kept while it runs.              *)
LEMMA PutKeepsNothing ==
    ASSUME StoreInv, NEW s \in Sessions, LoopInv(s), Writing(s),
           request[s].route = "api"
    PROVE  done[s] = {}
<1>1. doc[s] \in DOMAIN Docs(s) /\ Len(Docs(s)) <= 1
  BY DEF StoreInv, PositionInv, Writing, LoopInv
<1>2. doc[s] = 1
  BY <1>1, DocsType DEF StoreInv
<1>3. ~KeepsLock(s)
  BY <1>2 DEF KeepsLock
<1> QED BY <1>3 DEF StoreInv, LockInv

(* An observation that contradicts a row contradicts one that outlives the *)
(* document: no identifier occurs twice in it.                             *)
LEMMA ConflictStays ==
    ASSUME StoreInv, NEW s \in Sessions, LoopInv(s), LoopRows(s), Writing(s),
           Conflicting(s)
    PROVE  \E e \in Kept(s) : e.id = Current(s).id /\ e.body # Current(s).body
<1>1. PICK e \in Visible(s) : e.id = Current(s).id /\ e.body # Current(s).body
  BY DEF Conflicting, Existing
<1>2. ASSUME e \in rows[s] PROVE FALSE
  <2>1. PICK j \in DOMAIN Doc(s) : j < item[s] /\ Holds(e, Doc(s)[j])
    BY <1>2 DEF LoopRows
  <2>2. item[s] \in DOMAIN Doc(s) /\ Doc(s) \in Document
    BY CurrentType DEF StoreInv
  <2>3. Doc(s)[j].id = Doc(s)[item[s]].id
    BY <1>1, <2>1 DEF Holds, Current
  <2>4. j = item[s]
    BY <2>1, <2>2, <2>3 DEF LoopInv, WellFormed, Writing
  <2> QED BY <2>1, <2>2, <2>4 DEF Document
<1> QED BY <1>1, <1>2 DEF Visible, Kept

(* A turn of the loop: the observation is stored, now or before.           *)
LEMMA WriteKeeps ==
    ASSUME StoreInv, TypeOK', NEW s \in Sessions, TransactionInv(s), WriteItem(s)
    PROVE  TransactionInv(s)'
<1> USE DEF TransactionInv
<1>0. TypeOK /\ PositionInv /\ Writing(s) /\ phase[s] = "write"
  BY DEF StoreInv, WriteItem, Writing
<1>1. /\ Docs(s)' = Docs(s) /\ Doc(s)' = Doc(s) /\ Accepted(s)' = Accepted(s)
      /\ Kept(s)' = Kept(s)
  BY DEF WriteItem, Docs, Doc, Accepted, Kept
<1>2. /\ phase'[s] = phase[s] /\ request'[s] = request[s] /\ doc'[s] = doc[s]
      /\ done'[s] = done[s] /\ quarantined'[s] = quarantined[s] /\ events' = events
  BY DEF WriteItem
<1>3. item'[s] = item[s] + 1 /\ item[s] \in Nat \ {0}
  BY DEF WriteItem, StoreInv, TypeOK
<1>4. rows'[s] = IF Existing(s) = {} THEN rows[s] \cup {NewRow(s)} ELSE rows[s]
  BY DEF WriteItem, StoreInv, TypeOK
<1>5. Doc(s) \in Document /\ item[s] \in DOMAIN Doc(s)
  BY <1>0, CurrentType
<1>6. \A j \in DOMAIN Doc(s) : j \in Nat
  BY <1>5 DEF Document
<1>7. Holds(NewRow(s), Doc(s)[item[s]])
  BY <1>0, NewRowType DEF Holds, Current
<1>8. LoopInv(s)'
  BY <1>0, <1>1, <1>2 DEF LoopInv
<1>9. \A n \in rows'[s] : \E j \in DOMAIN Doc(s) : j < item'[s] /\ Holds(n, Doc(s)[j])
  <2>1. \A n \in rows[s] : \E j \in DOMAIN Doc(s) : j < item'[s] /\ Holds(n, Doc(s)[j])
    BY <1>3, <1>6 DEF LoopRows
  <2>2. \E j \in DOMAIN Doc(s) : j < item'[s] /\ Holds(NewRow(s), Doc(s)[j])
    BY <1>3, <1>5, <1>7
  <2> QED BY <1>4, <2>1, <2>2
<1>10. Visible(s) \subseteq Visible(s)'
  BY <1>2, <1>4 DEF Visible
<1>11. \E e \in Visible(s)' : Holds(e, Doc(s)[item[s]])
  <2>1. CASE Existing(s) = {}
    BY <1>4, <1>7, <2>1 DEF Visible
  <2>2. CASE Existing(s) # {}
    <3>1. PICK e \in Existing(s) : e.body = Current(s).body
      BY <2>2 DEF WriteItem, Conflicting
    <3>2. e \in Visible(s) /\ Holds(e, Doc(s)[item[s]])
      BY <3>1 DEF Existing, Holds, Current
    <3> QED BY <1>10, <3>2
  <2> QED BY <2>1, <2>2
<1>12. \A j \in DOMAIN Doc(s) : j < item'[s] => \E e \in Visible(s)' : Holds(e, Doc(s)[j])
  <2> SUFFICES ASSUME NEW j \in DOMAIN Doc(s), j < item'[s]
               PROVE  \E e \in Visible(s)' : Holds(e, Doc(s)[j])
    OBVIOUS
  <2>1. j < item[s] \/ j = item[s]
    BY <1>3, <1>6
  <2>2. CASE j < item[s]
    BY <1>0, <1>10, <2>2 DEF LoopRows
  <2> QED BY <1>11, <2>1, <2>2
<1>13. LoopRows(s)'
  BY <1>1, <1>9, <1>12 DEF LoopRows
<1>14. AcceptedRows(s)' /\ RejectedRows(s)'
  BY <1>1, <1>2 DEF AcceptedRows, RejectedRows
<1> QED BY <1>8, <1>13, <1>14

(* The loop over a document is over: its rows pass to the transaction.     *)
LEMMA EndKeeps ==
    ASSUME StoreInv, TypeOK', NEW s \in Sessions, TransactionInv(s), EndDocument(s)
    PROVE  TransactionInv(s)'
<1> USE DEF TransactionInv
<1>1. /\ Docs(s)' = Docs(s) /\ Accepted(s)' = Accepted(s)
      /\ quarantined'[s] = quarantined[s] /\ request'[s] = request[s]
      /\ events' = events
  BY DEF EndDocument, Docs, Accepted
<1>2. /\ doc'[s] = doc[s] + 1 /\ item'[s] = 1 /\ rows'[s] = {}
      /\ done'[s] = done[s] \cup rows[s] /\ phase'[s] # "write"
  BY DEF EndDocument, NextDocument, StoreInv, TypeOK
<1>3. phase[s] = "write" /\ item[s] > Len(Doc(s)) /\ item[s] \in Nat
  BY DEF EndDocument, StoreInv, TypeOK
<1>4. doc[s] \in DOMAIN Docs(s) /\ doc[s] \in Nat /\ doc[s] \in Accepted(s)
  BY <1>3 DEF StoreInv, PositionInv, TypeOK, Accepted
<1>5. Doc(s) = Docs(s)[doc[s]] /\ Doc(s) \in Seq(Item)
  BY <1>4, DocsType DEF Doc, StoreInv, Document
<1>6. \A d \in Accepted(s) : d \in Nat
  BY DocsType DEF Accepted, StoreInv
<1>7. Kept(s)' = Visible(s) /\ Kept(s) \subseteq Visible(s)
  BY <1>1, <1>2 DEF Kept, Visible
<1>8. LoopInv(s)' /\ LoopRows(s)'
  BY <1>1, <1>2 DEF LoopInv, LoopRows
<1>9. ASSUME NEW n \in done'[s]
      PROVE  \E d \in Accepted(s) :
               d < doc'[s] /\ \E j \in DOMAIN Docs(s)[d] : Holds(n, Docs(s)[d][j])
  <2>1. CASE n \in done[s]
    BY <1>2, <1>4, <1>6, <2>1 DEF AcceptedRows
  <2>2. CASE n \in rows[s]
    <3>1. PICK j \in DOMAIN Doc(s) : Holds(n, Doc(s)[j])
      BY <2>2 DEF LoopRows
    <3> QED BY <1>2, <1>4, <1>5, <3>1
  <2> QED BY <1>2, <1>9, <2>1, <2>2
<1>10. ASSUME NEW d \in Accepted(s), d < doc'[s], NEW j \in DOMAIN Docs(s)[d]
       PROVE  \E e \in Visible(s) : Holds(e, Docs(s)[d][j])
  <2>1. CASE d < doc[s]
    BY <1>7, <2>1 DEF AcceptedRows
  <2>2. CASE d = doc[s]
    <3>1. j < item[s]
      BY <1>3, <1>5, <2>2
    <3> QED BY <1>3, <1>5, <2>2, <3>1 DEF LoopRows
  <2> QED BY <1>2, <1>4, <1>6, <1>10, <2>1, <2>2
<1>11. AcceptedRows(s)'
  BY <1>1, <1>7, <1>9, <1>10 DEF AcceptedRows
<1>12. RejectedRows(s)'
  BY <1>1, <1>7, AgainstGrows DEF RejectedRows
<1> QED BY <1>8, <1>11, <1>12

(* A document is quarantined: its own rows are gone, its reason is not     *)
(* among them.                                                             *)
LEMMA QuarantineKeeps ==
    ASSUME StoreInv, TypeOK', NEW s \in Sessions, TransactionInv(s), Quarantine(s)
    PROVE  TransactionInv(s)'
<1> USE DEF TransactionInv
<1>1. /\ Docs(s)' = Docs(s) /\ request'[s] = request[s]
      /\ events' = events /\ done'[s] = done[s]
  BY DEF Quarantine, Docs
<1>2. /\ doc'[s] = doc[s] + 1 /\ item'[s] = 1 /\ rows'[s] = {}
      /\ quarantined'[s] = quarantined[s] \cup {doc[s]} /\ phase'[s] # "write"
  BY DEF Quarantine, NextDocument, StoreInv, TypeOK
<1>3. /\ phase[s] \in {"doc", "write"} /\ doc[s] \in DOMAIN Docs(s) /\ doc[s] \in Nat
      /\ Doc(s) = Docs(s)[doc[s]]
  BY DEF Quarantine, Writing, StoreInv, PositionInv, TypeOK, Doc
<1>4. Accepted(s)' = Accepted(s) \ {doc[s]} /\ Kept(s)' = Kept(s)
  BY <1>1, <1>2 DEF Accepted, Kept
<1>5. \A d \in Accepted(s) : d \in Nat
  BY DocsType DEF Accepted, StoreInv
<1>6. LoopInv(s)' /\ LoopRows(s)'
  BY <1>1, <1>2 DEF LoopInv, LoopRows
<1>7. \A d \in Accepted(s)' : d < doc'[s] <=> d < doc[s]
  BY <1>2, <1>3, <1>4, <1>5
<1>8. \A d \in Accepted(s) : d < doc[s] => d \in Accepted(s)'
  BY <1>3, <1>4, <1>5
<1>9. AcceptedRows(s)'
  BY <1>1, <1>4, <1>7, <1>8 DEF AcceptedRows
<1>10. Against(Kept(s), Doc(s))
  <2>1. CASE ~WellFormed(Doc(s))
    BY <2>1 DEF Against
  <2>2. ASSUME Writing(s) PROVE item[s] \in DOMAIN Doc(s) /\ Current(s) = Doc(s)[item[s]]
    BY <2>2, CurrentType DEF StoreInv, Current
  <2>3. CASE Writing(s) /\ Current(s).body = Bad
    BY <2>2, <2>3 DEF Against
  <2>4. CASE Writing(s) /\ Conflicting(s)
    BY <2>2, <2>4, ConflictStays DEF Against
  <2> QED BY <2>1, <2>3, <2>4 DEF Quarantine
<1>11. RejectedRows(s)'
  BY <1>1, <1>2, <1>3, <1>4, <1>10 DEF RejectedRows
<1> QED BY <1>6, <1>9, <1>11

(* Nothing outside the actions of s touches the transaction of another.    *)
LEMMA OthersKeep ==
    ASSUME TypeOK, NEW s \in Sessions, NEW o \in Sessions \ {s}, TransactionInv(o),
           \/ \E route \in {"api", "mqtt"}, docs \in Submissions : Begin(s, route, docs)
           \/ TakeLock(s) \/ WriteItem(s) \/ EndDocument(s) \/ Refuse(s)
           \/ Quarantine(s) \/ Commit(s) \/ LoseClient(s) \/ Abort(s)
    PROVE  TransactionInv(o)'
<1>1. events \subseteq events'
  BY DEF Begin, TakeLock, WriteItem, EndDocument, Refuse, Quarantine, Commit,
         LoseClient, Abort
<1>2. phase'[o] = phase[o] /\ request'[o] = request[o]
  BY DEF Begin, TakeLock, WriteItem, EndDocument, Refuse, Quarantine, Commit,
         LoseClient, Abort, NextDocument, Close, TypeOK
<1>3. doc'[o] = doc[o] /\ item'[o] = item[o]
  BY DEF Begin, TakeLock, WriteItem, EndDocument, Refuse, Quarantine, Commit,
         LoseClient, Abort, NextDocument, Close, TypeOK
<1>4. done'[o] = done[o] /\ rows'[o] = rows[o] /\ quarantined'[o] = quarantined[o]
  BY DEF Begin, TakeLock, WriteItem, EndDocument, Refuse, Quarantine, Commit,
         LoseClient, Abort, NextDocument, Close, TypeOK
<1> QED BY <1>1, <1>2, <1>3, <1>4, TransactionFrame

(* Every step keeps what each transaction owes its documents.              *)
LEMMA TransactionStep ==
    ASSUME StoreInv, TypeOK', \A s \in Sessions : TransactionInv(s), [Next]_vars
    PROVE  \A s \in Sessions : TransactionInv(s)'
<1> USE StoreAssumption
<1>0. TypeOK /\ PositionInv /\ LockInv
  BY DEF StoreInv
<1>1. ASSUME NEW s \in Sessions, NEW route \in {"api", "mqtt"},
             NEW docs \in Submissions, Begin(s, route, docs)
      PROVE  TransactionInv(s)'
  <2>1. doc[s] = 1 /\ done[s] = {} /\ rows[s] = {} /\ quarantined[s] = {}
    BY <1>0, <1>1, NothingYet DEF Begin
  <2>2. item[s] = 1
    BY <1>1 DEF Begin, TransactionInv, LoopInv
  <2>3. /\ doc'[s] = 1 /\ item'[s] = 1 /\ done'[s] = {} /\ rows'[s] = {}
        /\ quarantined'[s] = {}
    BY <1>1, <2>1, <2>2 DEF Begin
  <2>4. /\ phase'[s] = "doc" /\ request'[s] = [route |-> route, docs |-> docs]
        /\ Docs(s)' = docs /\ (route = "api" => Len(docs) = 1)
    BY <1>0, <1>1 DEF Begin, TypeOK, Docs
  <2>5. request'[s].route = route
    BY <2>4
  <2>6. Len(docs) \in Nat
    <3>1. docs \in Seq(Document)
      OBVIOUS
    <3> QED BY <3>1
  <2>7. ASSUME request'[s].route = "api" PROVE Len(Docs(s)') <= 1
    <3>1. Len(docs) = 1
      BY <2>4, <2>5, <2>7
    <3>2. Len(docs) <= 1
      BY <2>6, <3>1
    <3>3. Docs(s)' = docs
      BY <2>4
    <3> QED BY <3>2, <3>3
  <2> QED BY <2>3, <2>4, <2>7, TransactionFresh
<1>2. ASSUME NEW s \in Sessions, TakeLock(s)
      PROVE  TransactionInv(s)'
  <2>1. /\ Docs(s)' = Docs(s) /\ Doc(s)' = Doc(s) /\ Accepted(s)' = Accepted(s)
        /\ Kept(s)' = Kept(s) /\ request'[s] = request[s] /\ doc'[s] = doc[s]
        /\ item'[s] = item[s] /\ done'[s] = done[s] /\ rows'[s] = rows[s]
        /\ quarantined'[s] = quarantined[s]
    BY <1>2 DEF TakeLock, Docs, Doc, Accepted, Kept
  <2>2. phase'[s] = "write" /\ WellFormed(Doc(s)) /\ item[s] = 1
    BY <1>0, <1>2 DEF TakeLock, TypeOK, TransactionInv, LoopInv
  <2>3. LoopInv(s)'
    BY <2>1, <2>2 DEF LoopInv, TransactionInv
  <2>4. Doc(s) \in Document
    BY <1>0, <1>2, DocsType DEF TakeLock, PositionInv, Doc
  <2>5. \A j \in DOMAIN Doc(s) : ~(j < item[s])
    BY <2>2, <2>4 DEF Document
  <2>6. LoopRows(s)'
    BY <2>1, <2>5 DEF LoopRows, TransactionInv
  <2>7. AcceptedRows(s)' /\ RejectedRows(s)'
    BY <2>1 DEF AcceptedRows, RejectedRows, TransactionInv
  <2> QED BY <2>3, <2>6, <2>7 DEF TransactionInv
<1>3. ASSUME NEW s \in Sessions, Close(s)
      PROVE  TransactionInv(s)'
  <2>1. /\ doc'[s] = 1 /\ item'[s] = 1 /\ done'[s] = {} /\ rows'[s] = {}
        /\ quarantined'[s] = {} /\ phase'[s] = "idle" /\ request'[s] = Idle
    BY <1>0, <1>3 DEF Close, TypeOK
  <2>2. Len(Docs(s)') <= 1
    BY <2>1 DEF Docs, Idle
  <2> QED BY <2>1, <2>2, TransactionFresh
<1>4. ASSUME NEW s \in Sessions, Refuse(s) \/ Commit(s) \/ Abort(s)
      PROVE  TransactionInv(s)'
  BY <1>3, <1>4 DEF Refuse, Commit, Abort
<1>5. ASSUME NEW s \in Sessions, LoseClient(s)
      PROVE  TransactionInv(s)'
  BY <1>5, TransactionFrame DEF LoseClient
<1>6. ASSUME NEW s \in Sessions, WriteItem(s) \/ EndDocument(s) \/ Quarantine(s)
      PROVE  TransactionInv(s)'
  BY <1>6, WriteKeeps, EndKeeps, QuarantineKeeps
<1>7. ASSUME UNCHANGED <<events, phase, request, work>>
      PROVE  \A s \in Sessions : TransactionInv(s)'
  BY <1>7, TransactionFrame
<1>8. ASSUME NEW r \in Readers, NEW limit \in 1..MaxPage, ReadPage(r, limit)
      PROVE  \A s \in Sessions : TransactionInv(s)'
  BY <1>7, <1>8 DEF ReadPage
<1>9. CASE UNCHANGED vars
  BY <1>7, <1>9 DEF vars
<1>10. ASSUME NEW s \in Sessions,
              \/ \E route \in {"api", "mqtt"}, docs \in Submissions : Begin(s, route, docs)
              \/ TakeLock(s) \/ WriteItem(s) \/ EndDocument(s) \/ Refuse(s)
              \/ Quarantine(s) \/ Commit(s) \/ LoseClient(s) \/ Abort(s)
       PROVE  \A o \in Sessions : TransactionInv(o)'
  <2>1. TransactionInv(s)'
    BY <1>1, <1>2, <1>4, <1>5, <1>6, <1>10
  <2>2. \A o \in Sessions \ {s} : TransactionInv(o)'
    BY <1>0, <1>10, OthersKeep
  <2> QED BY <2>1, <2>2
<1> QED BY <1>8, <1>9, <1>10 DEF Next

(* What COMMIT makes true: the observations of the accepted documents are  *)
(* stored, and every new row is one of them.                               *)
LEMMA CommitStores ==
    ASSUME StoreInv, NEW s \in Sessions, TransactionInv(s), Commit(s)
    PROVE  /\ \A o \in AcceptedItems(s) : \E e \in events' : Holds(e, o)
           /\ \A n \in events' \ events : [id |-> n.id, body |-> n.body] \in AcceptedItems(s)
           /\ \A d \in quarantined[s] : Against(events', Docs(s)[d])
<1>1. events' = Kept(s) /\ doc[s] = Len(Docs(s)) + 1
  BY DEF Commit, Kept, StoreInv, PositionInv
<1>2. Docs(s) \in Seq(Document) /\ Accepted(s) \subseteq DOMAIN Docs(s)
  BY DocsType DEF StoreInv, Accepted
<1>3. \A d \in Accepted(s) : d < doc[s]
  BY <1>1, <1>2
<1>4. ASSUME NEW o \in AcceptedItems(s) PROVE \E e \in events' : Holds(e, o)
  <2>1. PICK d \in Accepted(s) : \E j \in DOMAIN Docs(s)[d] : o = Docs(s)[d][j]
    BY <1>4 DEF AcceptedItems
  <2> QED BY <1>1, <1>3, <2>1 DEF TransactionInv, AcceptedRows
<1>5. ASSUME NEW n \in events' \ events
      PROVE  [id |-> n.id, body |-> n.body] \in AcceptedItems(s)
  <2>1. n \in done[s]
    BY <1>1 DEF Kept
  <2>2. PICK d \in Accepted(s) : \E j \in DOMAIN Docs(s)[d] : Holds(n, Docs(s)[d][j])
    BY <2>1 DEF TransactionInv, AcceptedRows
  <2>3. PICK j \in DOMAIN Docs(s)[d] : Holds(n, Docs(s)[d][j])
    BY <2>2
  <2>4. Docs(s)[d][j] \in Item
    BY <1>2 DEF Document
  <2>5. Docs(s)[d][j] = [id |-> n.id, body |-> n.body]
    BY <2>3, <2>4 DEF Item, Holds
  <2> QED BY <2>5 DEF AcceptedItems
<1> QED BY <1>1, <1>4, <1>5 DEF TransactionInv, RejectedRows

(* The answers given so far, each with its evidence in the table.          *)
LEMMA AnswersForm ==
    AnswersJustified <=>
        /\ \A o \in acked : \E e \in events : Holds(e, o)
        /\ \A o \in refused : \E e \in events : e.id = o.id /\ e.body # o.body
        /\ \A d \in rejected : Against(events, d)
  BY DEF AnswersJustified, AckedStored, RefusalsJustified, RefusedConflicts,
         QuarantineJustified, Get, Holds, Against

(* Every answer is justified when it is given and stays so.                *)
LEMMA AnswerStep ==
    ASSUME StoreInv, \A s \in Sessions : TransactionInv(s), AnswersJustified, [Next]_vars
    PROVE  AnswersJustified'
<1> DEFINE Told(t, A, R, Q) ==
             /\ \A o \in A : \E e \in t : Holds(e, o)
             /\ \A o \in R : \E e \in t : e.id = o.id /\ e.body # o.body
             /\ \A d \in Q : Against(t, d)
<1>0. Told(events, acked, refused, rejected)
  BY AnswersForm
<1>1. ASSUME Told(events', acked', refused', rejected') PROVE AnswersJustified'
  BY <1>1 DEF AnswersJustified, AckedStored, RefusalsJustified, RefusedConflicts,
              QuarantineJustified, Get, Holds, Against
<1>2. ASSUME NEW s \in Sessions, Commit(s)
      PROVE  AnswersJustified'
  <2>1. /\ events \subseteq events' /\ refused' = refused
        /\ acked' \subseteq acked \cup AcceptedItems(s)
        /\ rejected' = rejected \cup {Docs(s)[d] : d \in quarantined[s]}
    BY <1>2 DEF Commit
  <2>2. \A o \in acked' : \E e \in events' : Holds(e, o)
    BY <1>0, <1>2, <2>1, CommitStores
  <2>3. \A o \in refused' : \E e \in events' : e.id = o.id /\ e.body # o.body
    BY <1>0, <2>1
  <2>4. \A d \in rejected : Against(events', d)
    BY <1>0, <2>1, AgainstGrows
  <2>5. \A d \in rejected' : Against(events', d)
    BY <1>2, <2>1, <2>4, CommitStores
  <2> QED BY <1>1, <2>2, <2>3, <2>5
<1>3. ASSUME NEW s \in Sessions, Refuse(s)
      PROVE  AnswersJustified'
  <2>1. /\ events' = events /\ acked' = acked /\ rejected' = rejected
        /\ refused' = refused \cup {Current(s)}
    BY <1>3 DEF Refuse
  <2>2. PICK e \in Kept(s) : e.id = Current(s).id /\ e.body # Current(s).body
    BY <1>3, ConflictStays DEF Refuse, TransactionInv
  <2>3. e \in events
    BY <1>3, <2>2, PutKeepsNothing DEF Refuse, TransactionInv, Kept
  <2>4. Told(events', acked', refused', rejected')
    BY <1>0, <2>1, <2>2, <2>3
  <2> QED BY <1>1, <2>4
<1>4. ASSUME UNCHANGED <<tables, told>>
      PROVE  AnswersJustified'
  BY <1>0, <1>1, <1>4
<1>5. ASSUME NEW s \in Sessions,
             \/ \E route \in {"api", "mqtt"}, docs \in Submissions : Begin(s, route, docs)
             \/ TakeLock(s) \/ WriteItem(s) \/ EndDocument(s) \/ Quarantine(s)
             \/ LoseClient(s) \/ Abort(s)
      PROVE  AnswersJustified'
  BY <1>4, <1>5 DEF Begin, TakeLock, WriteItem, EndDocument, Quarantine, LoseClient, Abort
<1>6. ASSUME NEW r \in Readers, NEW limit \in 1..MaxPage, ReadPage(r, limit)
      PROVE  AnswersJustified'
  BY <1>4, <1>6 DEF ReadPage
<1>7. CASE UNCHANGED vars
  BY <1>4, <1>7 DEF vars
<1> QED BY <1>2, <1>3, <1>5, <1>6, <1>7 DEF Next

(* Nothing is told before the first transaction.                           *)
LEMMA InitAnswers == Init => AnswerInv
<1> SUFFICES ASSUME Init PROVE AnswerInv
  OBVIOUS
<1>1. ASSUME NEW s \in Sessions PROVE TransactionInv(s)
  <2>1. /\ Docs(s) = <<>> /\ Accepted(s) = {}
        /\ item[s] = 1 /\ phase[s] = "idle" /\ rows[s] = {} /\ done[s] = {}
        /\ quarantined[s] = {}
    BY DEF Init, Docs, Idle, Accepted
  <2>2. LoopInv(s) /\ LoopRows(s)
    BY <2>1 DEF LoopInv, LoopRows
  <2>3. AcceptedRows(s) /\ RejectedRows(s)
    BY <2>1 DEF AcceptedRows, RejectedRows
  <2> QED BY <2>2, <2>3 DEF TransactionInv
<1>2. AnswersJustified
  BY DEF Init, AnswersJustified, AckedStored, RefusalsJustified, RefusedConflicts,
         QuarantineJustified
<1> QED BY <1>1, <1>2 DEF AnswerInv

(* The invariant behind the answers, on top of the store's own.            *)
THEOREM AnswerInvariant == Spec => [](StoreInv /\ AnswerInv)
<1>1. StoreInv /\ StoreInv' /\ AnswerInv /\ [Next]_vars => AnswerInv'
  <2> SUFFICES ASSUME StoreInv, StoreInv', AnswerInv, [Next]_vars
               PROVE  AnswerInv'
    OBVIOUS
  <2>1. \A s \in Sessions : TransactionInv(s)'
    BY TransactionStep DEF AnswerInv, StoreInv
  <2>2. AnswersJustified'
    BY AnswerStep DEF AnswerInv
  <2> QED BY <2>1, <2>2 DEF AnswerInv
<1> QED
  BY InitAnswers, <1>1, StoreInvariant, PTL DEF Spec

(* Whatever clients were told is true and stays true: an acknowledged      *)
(* observation is what GET returns, a 409 and a quarantined document       *)
(* contradict a stored row or were invalid, on either route, across        *)
(* timeouts, rollbacks and writers of the same identifier.                 *)
THEOREM TruthfulAnswers == Spec => []AnswersJustified
<1>1. AnswerInv => AnswersJustified
  BY DEF AnswerInv
<1> QED
  BY <1>1, AnswerInvariant, PTL

(* A commit makes whole documents visible, never a part of one.            *)
THEOREM CommitsWhole == Spec => WholeDocuments
<1> DEFINE Whole ==
      events' # events =>
         \E s \in Sessions :
            /\ \A n \in events' \ events :
                 [id |-> n.id, body |-> n.body] \in AcceptedItems(s)
            /\ \A a \in AcceptedItems(s) :
                 \E e \in events' : e.id = a.id /\ e.body = a.body
<1>1. StoreInv /\ AnswerInv /\ [Next]_vars => [Whole]_vars
  <2> SUFFICES ASSUME StoreInv, AnswerInv, Next PROVE Whole
    OBVIOUS
  <2>1. ASSUME NEW s \in Sessions, Commit(s) PROVE Whole
    BY <2>1, CommitStores DEF AnswerInv, Holds
  <2>2. (\E s \in Sessions : Commit(s)) \/ events' = events
    BY DEF Next, Begin, TakeLock, WriteItem, EndDocument, Refuse, Quarantine,
           LoseClient, Abort, ReadPage
  <2> QED BY <2>1, <2>2
<1> QED
  BY AnswerInvariant, <1>1, PTL DEF Spec, WholeDocuments
=============================================================================
