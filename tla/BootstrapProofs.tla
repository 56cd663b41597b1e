-------------------------- MODULE BootstrapProofs --------------------------
(***************************************************************************)
(* Proofs about Bootstrap for any number of overlapping runs, of edits of  *)
(* .env and of faults.                                                     *)
(***************************************************************************)
EXTENDS Bootstrap, SequenceTheorems, TLAPS

Credentials == Secrets \cup {"operator"}
Passwords == {"core", "telegraf"}
Creating == {"create", "fill"}

(* What the files a run creates before the next stage are among.           *)
Part(next) ==
    IF next = "read" THEN {"env"} ELSE IF next = "check" THEN {"rules"} ELSE Credentials
Left(todo) == {todo[i] : i \in 1..Len(todo)}

(* Stages behind the creation of the directories, and behind the point     *)
(* where Compose reads .env.                                               *)
Inside == {"certs", "sign", "alerts", "rules", "check", "up", "services", "post", "get", "alerting"}
Late == {"services", "post", "get", "alerting", "started", "failed"}
Installed == CertificateWhole /\ SecretsWhole /\ RulesWhole

(* The backend p was configured for runs, or one that another run started. *)
Served(p, values) ==
    \/ backend = values
    \/ \E q \in Runs \ {p} : run[q].stage \in Late /\ run[q].compose = backend

(* A run at the files of its list: those of a first setup that it has done *)
(* are its own.                                                            *)
ListInv(p, r) ==
    /\ r.next \in {"read", "certs", "alerts", "rules", "check"}
    /\ r.todo \in Seq(Part(r.next))
    /\ r.next # "read" => "secrets" \in dirs
    /\ r.next = "certs" => r.strict = TRUE /\ \A f \in Credentials \ Left(r.todo) : file[f] = p

(* What run p relies on when its progress is r.                            *)
RunInv(p, r) ==
    /\ r \in Run
    /\ r.stage \in Creating => ListInv(p, r)
    /\ r.stage = "fill" =>
         r.todo # <<>> /\ (Head(r.todo) \in Credentials => file[Head(r.todo)] = Empty)
    /\ r.stage \in Inside => "secrets" \in dirs
    /\ r.stage = "certs" => \A f \in Credentials : file[f] = p
    /\ r.stage = "sign" => "certs" \in dirs
    /\ r.stage \in {"up", "services"} => Installed
    /\ r.stage \in {"post", "get"} => r.sample = <<p, 0>>
    /\ r.stage \in {"alerting", "started"} => <<p, 0>> \in stored
    /\ r.stage \in {"get", "alerting", "started"} => Served(p, r.values)

(* Nobody fills a file that another run created.                           *)
Filling(p, f) == At(p, "fill") /\ Head(run[p].todo) = f
FillInv == \A p, q \in Runs, f \in Credentials : Filling(p, f) /\ Filling(q, f) => p = q

(* Disk, volume, services and samples, whoever is at work: the certificate *)
(* directory comes after the last credential.                              *)
DiskType ==
    /\ file \in [Files -> Owners \cup Backends \cup {"bad", "rules", Empty, None}]
    /\ \A f \in Credentials : file[f] \in Owners \cup {Empty, None}
    /\ dirs \subseteq {"secrets", "certs"}
    /\ cert \in {"none", "key", "signed", "ready"}
    /\ "secrets" \notin dirs => \A f \in Credentials : file[f] = None
    /\ "certs" \notin dirs => cert = "none"
    /\ "certs" \in dirs => file["hash"] \in Owners /\ file["operator"] = file["hash"]
StackInv ==
    /\ volume \in [Passwords -> Owners \cup {None}]
    /\ backend \in Backends \cup {"bad", None}
    /\ \A f \in Passwords : volume[f] # None => CertificateWhole /\ file[f] = volume[f]
    /\ backend # None => Installed
    /\ stored \cup queued \subseteq Runs \X {0}
BoundsType == edits \in 0..MaxEdits /\ faults \in 0..MaxFaults
RunsInv == run \in [Runs -> Run] /\ \A p \in Runs : RunInv(p, run[p])

IInv == DiskType /\ StackInv /\ BoundsType /\ RunsInv /\ FillInv
-----------------------------------------------------------------------------
LEMMA Distinct ==
    /\ Old \notin Runs /\ Empty \notin Owners /\ None \notin Owners /\ Empty # None
    /\ "rules" \notin {Empty, None}
    /\ MaxTries \in Nat /\ MaxEdits \in Nat /\ MaxFaults \in Nat
  BY BootstrapAssumption DEF BootstrapAssumption, Owners

LEMMA ListHead ==
    ASSUME NEW S, NEW todo \in Seq(S), todo # <<>>
    PROVE  Head(todo) \in S /\ Tail(todo) \in Seq(S)
  BY HeadTailProperties

(* Taking a file from the list leaves the others.                          *)
LEMMA LeftTail ==
    ASSUME NEW S, NEW todo \in Seq(S), todo # <<>>
    PROVE  Left(todo) \subseteq Left(Tail(todo)) \cup {Head(todo)}
  <1> SUFFICES ASSUME NEW i \in 1..Len(todo), i # 1
               PROVE  \E j \in 1..Len(Tail(todo)) : todo[i] = Tail(todo)[j]
    BY DEF Left
  <1>1. /\ Len(Tail(todo)) = Len(todo) - 1
        /\ \A j \in 1..Len(Tail(todo)) : Tail(todo)[j] = todo[j + 1]
    BY HeadTailProperties
  <1>2. Len(todo) \in Nat
    BY LenProperties
  <1>3. i - 1 \in 1..Len(Tail(todo)) /\ todo[(i - 1) + 1] = todo[i]
    BY <1>1, <1>2
  <1> QED BY <1>1, <1>3

LEMMA LeftNone == Left(<<>>) = {}
  BY EmptySeq DEF Left

LEMMA Lists ==
    /\ Generated \in Seq(Credentials) /\ Left(Generated) = Credentials
    /\ <<"env">> \in Seq(Part("read")) /\ <<"rules">> \in Seq(Part("check"))
    /\ <<"telegraf">> \in Seq(Part("alerts"))
    /\ <<"alert", "webhook">> \in Seq(Part("rules"))
  <1>1. Generated \in Seq(Credentials)
    BY DEF Generated, Credentials, Secrets
  <1>2. Left(Generated) = Credentials
    <2>1. Len(Generated) = 6 /\ 1..6 = {1, 2, 3, 4, 5, 6}
      BY DEF Generated
    <2>2. /\ Generated[1] = "alert" /\ Generated[2] = "telegraf" /\ Generated[3] = "core"
          /\ Generated[4] = "webhook" /\ Generated[5] = "hash" /\ Generated[6] = "operator"
      BY DEF Generated
    <2> QED BY <2>1, <2>2 DEF Left, Credentials, Secrets
  <1>3. <<"env">> \in Seq(Part("read")) /\ <<"rules">> \in Seq(Part("check"))
    BY DEF Part
  <1>4. /\ <<"telegraf">> \in Seq(Part("alerts"))
        /\ <<"alert", "webhook">> \in Seq(Part("rules"))
    BY DEF Part, Credentials, Secrets
  <1> QED BY <1>1, <1>2, <1>3, <1>4

(* The lists hold files only.                                              *)
LEMMA PartFiles ==
    ASSUME NEW next, NEW todo \in Seq(Part(next))
    PROVE  todo \in Seq(Files)
  <1>1. Part(next) \subseteq Files
    BY DEF Part, Files, Credentials
  <1> QED BY <1>1, SeqMonotonic

LEMMA InitCorrect == Init => IInv
  <1> SUFFICES ASSUME Init PROVE IInv
    OBVIOUS
  <1>1. PICK machine \in Machines :
          LET kept == {"core", "hash", "operator", "env"}
          IN  /\ file = [f \in Files |->
                   IF machine = "fresh" \/ f \notin kept THEN None
                   ELSE IF f = "env" THEN "api" ELSE Old]
              /\ dirs = IF machine = "fresh" THEN {} ELSE {"secrets", "certs"}
              /\ cert = IF machine = "fresh" THEN "none" ELSE "ready"
              /\ volume = [core |-> IF machine = "fresh" THEN None ELSE Old, telegraf |-> None]
              /\ backend = None /\ stored = {} /\ queued = {}
              /\ run = [p \in Runs |-> Idle]
              /\ edits = 0 /\ faults = 0
    BY DEF Init
  <1>2. \A f \in Credentials : f \in Files /\ f # "env"
    BY DEF Credentials, Files, Secrets
  <1>3. DiskType
    <2>1. file \in [Files -> Owners \cup Backends \cup {"bad", "rules", Empty, None}]
      BY <1>1 DEF Owners, Backends
    <2>2. \A f \in Credentials : file[f] \in Owners \cup {Empty, None}
      BY <1>1, <1>2 DEF Owners
    <2>3. machine = "fresh" => \A f \in Credentials : file[f] = None
      BY <1>1, <1>2
    <2>4. machine # "fresh" => file["hash"] = Old /\ file["operator"] = Old
      BY <1>1 DEF Files, Secrets
    <2> QED BY <1>1, <2>1, <2>2, <2>3, <2>4 DEF DiskType, Owners
  <1>4. StackInv
    <2>1. volume \in [Passwords -> Owners \cup {None}]
      BY <1>1 DEF Passwords, Owners
    <2>2. \A f \in Passwords : volume[f] # None => CertificateWhole /\ file[f] = volume[f]
      BY <1>1 DEF Passwords, CertificateWhole, Files, Secrets
    <2> QED BY <1>1, <2>1, <2>2 DEF StackInv
  <1>5. BoundsType
    BY <1>1, Distinct DEF BoundsType
  <1>6. RunsInv
    <2>1. Idle \in Run
      BY EmptySeq DEF Idle, Run, Stages, Ended
    <2>2. \A p \in Runs : RunInv(p, Idle)
      BY <2>1 DEF RunInv, Idle, Creating, Inside
    <2> QED BY <1>1, <2>1, <2>2 DEF RunsInv
  <1>7. FillInv
    BY <1>1 DEF FillInv, Filling, At, Idle
  <1> QED BY <1>3, <1>4, <1>5, <1>6, <1>7 DEF IInv
-----------------------------------------------------------------------------
(* Only p moves on, and what Compose read for it stays.                    *)
Moves(p) ==
    /\ run' = [run EXCEPT ![p] = run'[p]]
    /\ run[p].stage \in Late => run'[p].stage \in Late /\ run'[p].compose = run[p].compose

(* No written credential changes, and no file that another run fills.      *)
Spares(p) ==
    /\ \A f \in Credentials : file[f] \in Owners => file'[f] = file[f]
    /\ \A q \in Runs \ {p}, f \in Credentials : Filling(q, f) => file'[f] = file[f]

LEMMA OnlyOne ==
    ASSUME RunsInv, NEW p \in Runs, Moves(p)
    PROVE  \A q \in Runs \ {p} : run'[q] = run[q]
  BY DEF RunsInv, Moves

(* A run that was served stays so while the backend does.                  *)
LEMMA ServedKept ==
    ASSUME RunsInv, NEW p \in Runs, Moves(p), backend' = backend,
           NEW q \in Runs \ {p}, Served(q, run[q].values)
    PROVE  Served(q, run[q].values)'
  <1>1. run'[q] = run[q]
    BY OnlyOne
  <1>2. CASE backend = run[q].values
    BY <1>1, <1>2 DEF Served
  <1>3. CASE \E o \in Runs \ {q} : run[o].stage \in Late /\ run[o].compose = backend
    <2>1. PICK o \in Runs \ {q} : run[o].stage \in Late /\ run[o].compose = backend
      BY <1>3
    <2>2. run'[o].stage \in Late /\ run'[o].compose = backend
      <3>1. CASE o = p
        BY <2>1, <3>1 DEF Moves
      <3>2. CASE o # p
        BY <2>1, <3>2, OnlyOne
      <3> QED BY <3>1, <3>2
    <2> QED BY <2>1, <2>2 DEF Served
  <1> QED BY <1>2, <1>3 DEF Served

(* What the other runs rely on survives a step of p that only adds.        *)
LEMMA OthersKept ==
    ASSUME RunsInv, NEW p \in Runs, Moves(p), Spares(p),
           dirs \subseteq dirs', stored \subseteq stored', Installed => Installed',
           NEW q \in Runs \ {p},
           run[q].stage \in {"get", "alerting", "started"} => Served(q, run[q].values)'
    PROVE  RunInv(q, run[q])'
  <1>1. run'[q] = run[q] /\ RunInv(q, run[q])
    BY OnlyOne DEF RunsInv
  <1>2. q \in Owners
    BY DEF Owners
  <1>3. ASSUME ListInv(q, run[q]) PROVE ListInv(q, run[q])'
    BY <1>1, <1>2, <1>3 DEF ListInv, Spares
  <1>4. run[q].stage \in Creating => ListInv(q, run[q])'
    BY <1>1, <1>3 DEF RunInv
  <1>5. run[q].stage = "fill" =>
          run[q].todo # <<>> /\ (Head(run[q].todo) \in Credentials => file'[Head(run[q].todo)] = Empty)
    BY <1>1 DEF RunInv, Spares, Filling, At
  <1>6. run[q].stage = "certs" => \A f \in Credentials : file'[f] = q
    BY <1>1, <1>2 DEF RunInv, Spares
  <1>7. /\ run[q] \in Run
        /\ run[q].stage \in Inside => "secrets" \in dirs'
        /\ run[q].stage = "sign" => "certs" \in dirs'
        /\ run[q].stage \in {"up", "services"} => Installed'
        /\ run[q].stage \in {"post", "get"} => run[q].sample = <<q, 0>>
        /\ run[q].stage \in {"alerting", "started"} => <<q, 0>> \in stored'
    BY <1>1 DEF RunInv
  <1> QED BY <1>1, <1>4, <1>5, <1>6, <1>7 DEF RunInv

(* The runs, when a step of p takes it to what it may rely on.             *)
LEMMA RunsKept ==
    ASSUME RunsInv, NEW p \in Runs, Moves(p), RunInv(p, run[p])',
           \A q \in Runs \ {p} : RunInv(q, run[q])'
    PROVE  RunsInv'
  <1>1. run'[p] \in Run
    BY DEF RunInv
  <1>2. run' \in [Runs -> Run]
    BY <1>1 DEF RunsInv, Moves
  <1> QED BY <1>2 DEF RunsInv

LEMMA FillKept ==
    ASSUME IInv, NEW p \in Runs, Moves(p), ~At(p, "fill")'
    PROVE  FillInv'
  <1> RunsInv /\ FillInv
    BY DEF IInv
  <1>1. \A q \in Runs, f \in Credentials : Filling(q, f)' => Filling(q, f)
    BY OnlyOne DEF Filling, At
  <1> QED BY <1>1 DEF FillInv

(* A step of p that changes nothing but its progress.                      *)
LEMMA Silent ==
    ASSUME IInv, NEW p \in Runs, Moves(p), UNCHANGED <<disk, stack>>, BoundsType',
           ~At(p, "fill")', RunInv(p, run'[p])
    PROVE  IInv'
  <1> RunsInv /\ FillInv /\ DiskType /\ StackInv
    BY DEF IInv
  <1>1. DiskType'
    BY DEF DiskType, disk
  <1>2. Installed' <=> Installed
    BY DEF disk, Installed, CertificateWhole, SecretsWhole, RulesWhole, Whole
  <1>3. StackInv'
    BY <1>2 DEF disk, stack, StackInv, CertificateWhole
  <1>4. Spares(p)
    BY DEF disk, Spares
  <1>5. ASSUME NEW q \in Runs \ {p} PROVE RunInv(q, run[q])'
    <2>1. Served(q, run[q].values) => Served(q, run[q].values)'
      BY ServedKept DEF stack
    <2>2. run[q].stage \in {"get", "alerting", "started"} => Served(q, run[q].values)
      BY DEF RunsInv, RunInv
    <2> QED BY <1>2, <1>4, <2>1, <2>2, OthersKept DEF disk, stack
  <1>6. RunInv(p, run[p])'
    <2>1. Served(p, run'[p].values) => Served(p, run[p].values)'
      BY OnlyOne DEF Served, stack
    <2>2. ListInv(p, run'[p]) => ListInv(p, run[p])'
      BY DEF ListInv, disk
    <2>3. RunInv(p, run'[p])
      OBVIOUS
    <2> QED BY <1>2, <2>1, <2>2, <2>3 DEF RunInv, disk, stack
  <1> QED BY <1>1, <1>3, <1>5, <1>6, RunsKept, FillKept DEF IInv
-----------------------------------------------------------------------------
LEMMA GoEffect ==
    ASSUME RunsInv, NEW p \in Runs, NEW stage \in Stages, Go(p, stage)
    PROVE  /\ run' = [run EXCEPT ![p] = run'[p]]
           /\ run'[p] = [run[p] EXCEPT !.stage = stage]
           /\ run'[p] \in Run /\ run'[p].stage = stage
           /\ \A field \in {"todo", "next", "values", "compose", "tries", "sample"} :
                run'[p][field] = run[p][field]
  <1>1. run \in [Runs -> Run] /\ run[p] \in Run
    BY DEF RunsInv
  <1>2. run' = [run EXCEPT ![p] = [run[p] EXCEPT !.stage = stage]]
    BY DEF Go
  <1>3. run'[p] = [run[p] EXCEPT !.stage = stage]
    BY <1>1, <1>2
  <1>4. run' = [run EXCEPT ![p] = run'[p]]
    BY <1>2, <1>3
  <1> QED BY <1>1, <1>3, <1>4 DEF Run

(* Replacing the list in a record of these fields leaves such a record.    *)
LEMMA ListedType ==
    ASSUME NEW A, NEW B, NEW C, NEW D, NEW E, NEW F, NEW G,
           NEW r \in [stage : A, todo : B, strict : C, next : A, values : D,
                      compose : E, tries : F, sample : G],
           NEW stage \in A, NEW todo \in B, NEW strict \in C, NEW next \in A
    PROVE  [r EXCEPT !.stage = stage, !.todo = todo, !.strict = strict, !.next = next]
             \in [stage : A, todo : B, strict : C, next : A, values : D,
                  compose : E, tries : F, sample : G]
  OBVIOUS

LEMMA GoCreateEffect ==
    ASSUME RunsInv, NEW p \in Runs, NEW todo \in Seq(Files), NEW strict \in BOOLEAN,
           NEW next \in Stages, GoCreate(p, todo, strict, next)
    PROVE  /\ run' = [run EXCEPT ![p] = run'[p]]
           /\ run'[p] \in Run /\ run'[p].stage = "create"
           /\ run'[p].todo = todo /\ run'[p].next = next /\ run'[p].strict = strict
           /\ run'[p].compose = run[p].compose
  <1> DEFINE r == [run[p] EXCEPT !.stage = "create", !.todo = todo, !.strict = strict,
                                 !.next = next]
  <1>1. run \in [Runs -> Run] /\ run[p] \in Run
    BY DEF RunsInv
  <1>2. run' = [run EXCEPT ![p] = r]
    BY <1>1 DEF GoCreate
  <1>3. run'[p] = r
    BY <1>1, <1>2
  <1>4. run' = [run EXCEPT ![p] = run'[p]]
    BY <1>2, <1>3
  <1>5. r \in Run
    <2>1. "create" \in Stages
      BY DEF Stages
    <2> HIDE DEF Stages
    <2> QED BY <1>1, <2>1, ListedType DEF Run
  <1>6. r.stage = "create" /\ r.todo = todo /\ r.next = next /\ r.compose = run[p].compose
    BY <1>1 DEF Run
  <1>7. r.strict = strict
    BY <1>1, Zenon DEF Run
  <1> QED BY <1>3, <1>4, <1>5, <1>6, <1>7

(* A run may fail at any time; what it leaves behind is fit to be found.   *)
LEMMA Failing ==
    ASSUME IInv, NEW p \in Runs, Go(p, "failed"), UNCHANGED <<disk, stack>>, BoundsType'
    PROVE  IInv'
  <1> RunsInv
    BY DEF IInv
  <1>1. "failed" \in Stages
    BY DEF Stages, Ended
  <1>2. /\ run' = [run EXCEPT ![p] = run'[p]]
        /\ run'[p] \in Run /\ run'[p].stage = "failed" /\ run'[p].compose = run[p].compose
    BY <1>1, GoEffect
  <1>3. Moves(p) /\ ~At(p, "fill")'
    BY <1>2 DEF Moves, Late, At
  <1>4. RunInv(p, run'[p])
    BY <1>2 DEF RunInv, Creating, Inside
  <1> QED BY <1>3, <1>4, Silent

(* A step to another stage before Compose, where the run relies on what    *)
(* the stage says.                                                         *)
LEMMA GoesOn ==
    ASSUME IInv, NEW p \in Runs, UNCHANGED <<disk, stack>>, BoundsType',
           NEW stage \in Stages \ {"create", "fill"}, Go(p, stage),
           run[p].stage \in Late => stage \in Late,
           stage \in Inside => "secrets" \in dirs,
           stage = "certs" => \A f \in Credentials : file[f] = p,
           stage = "sign" => "certs" \in dirs,
           stage \in {"up", "services"} => Installed,
           stage \in {"post", "get"} => run[p].sample = <<p, 0>>,
           stage \in {"alerting", "started"} => <<p, 0>> \in stored,
           stage \in {"get", "alerting", "started"} => Served(p, run[p].values)
    PROVE  IInv'
  <1> RunsInv
    BY DEF IInv
  <1>1. /\ run' = [run EXCEPT ![p] = run'[p]]
        /\ run'[p] \in Run /\ run'[p].stage = stage
        /\ run'[p].compose = run[p].compose /\ run'[p].sample = run[p].sample
        /\ run'[p].values = run[p].values
    BY GoEffect
  <1>2. Moves(p) /\ ~At(p, "fill")'
    BY <1>1 DEF Moves, At
  <1>3. RunInv(p, run'[p])
    BY <1>1 DEF RunInv, Creating
  <1> QED BY <1>2, <1>3, Silent

(* A step to a list of files.                                              *)
LEMMA GoesToList ==
    ASSUME IInv, NEW p \in Runs, UNCHANGED <<disk, stack>>, BoundsType',
           NEW todo, NEW strict \in BOOLEAN, NEW next \in {"read", "alerts", "rules", "check"},
           todo \in Seq(Part(next)), GoCreate(p, todo, strict, next),
           run[p].stage \notin Late, next # "read" => "secrets" \in dirs
    PROVE  IInv'
  <1> RunsInv
    BY DEF IInv
  <1>1. todo \in Seq(Files) /\ next \in Stages
    BY PartFiles DEF Stages
  <1>2. /\ run' = [run EXCEPT ![p] = run'[p]]
        /\ run'[p] \in Run /\ run'[p].stage = "create"
        /\ run'[p].todo = todo /\ run'[p].next = next
    BY <1>1, GoCreateEffect
  <1>3. Moves(p) /\ ~At(p, "fill")'
    BY <1>2 DEF Moves, At
  <1>4. RunInv(p, run'[p])
    BY <1>2 DEF RunInv, ListInv, Inside
  <1> QED BY <1>3, <1>4, Silent
-----------------------------------------------------------------------------
(* The actions that only move a run on.                                    *)
LEMMA BeginKeeps == ASSUME IInv, NEW p \in Runs, Begin(p) PROVE IInv'
  <1>1. Go(p, "env") /\ At(p, "idle") /\ UNCHANGED <<disk, stack, edits, faults>>
    BY DEF Begin
  <1>2. BoundsType'
    BY <1>1 DEF IInv, BoundsType
  <1>3. "env" \in Stages \ {"create", "fill"} /\ run[p].stage \notin Late
    BY <1>1 DEF Stages, Late, At
  <1> QED BY <1>1, <1>2, <1>3, GoesOn DEF Inside

LEMMA EnvFileKeeps == ASSUME IInv, NEW p \in Runs, EnvFile(p) PROVE IInv'
  <1>1. At(p, "env") /\ UNCHANGED <<disk, stack, edits, faults>>
    BY DEF EnvFile
  <1>2. BoundsType' /\ run[p].stage \notin Late
    BY <1>1 DEF IInv, BoundsType, Late, At
  <1>3. CASE Go(p, "read")
    <2>1. "read" \in Stages \ {"create", "fill"}
      BY DEF Stages
    <2> QED BY <1>1, <1>2, <1>3, <2>1, GoesOn DEF Inside
  <1>4. CASE GoCreate(p, <<"env">>, TRUE, "read")
    BY <1>1, <1>2, <1>4, Lists, GoesToList
  <1> QED BY <1>3, <1>4 DEF EnvFile

LEMMA RulesFileKeeps == ASSUME IInv, NEW p \in Runs, RulesFile(p) PROVE IInv'
  <1>1. At(p, "rules") /\ UNCHANGED <<disk, stack, edits, faults>>
    BY DEF RulesFile
  <1>2. BoundsType' /\ run[p].stage \notin Late
    BY <1>1 DEF IInv, BoundsType, Late, At
  <1>3. "secrets" \in dirs
    BY <1>1 DEF IInv, RunsInv, RunInv, At, Inside
  <1>4. CASE Go(p, "check")
    <2>1. "check" \in Stages \ {"create", "fill"}
      BY DEF Stages
    <2> QED BY <1>1, <1>2, <1>3, <1>4, <2>1, GoesOn
  <1>5. CASE GoCreate(p, <<"rules">>, TRUE, "check")
    BY <1>1, <1>2, <1>3, <1>5, Lists, GoesToList
  <1> QED BY <1>4, <1>5 DEF RulesFile

LEMMA CreatedKeeps == ASSUME IInv, NEW p \in Runs, Created(p) PROVE IInv'
  <1>1. /\ At(p, "create") /\ run[p].todo = <<>> /\ Go(p, run[p].next)
        /\ UNCHANGED <<disk, stack, edits, faults>>
    BY DEF Created
  <1>2. BoundsType' /\ run[p].stage \notin Late
    BY <1>1 DEF IInv, BoundsType, Late, At
  <1>3. ListInv(p, run[p])
    BY <1>1 DEF IInv, RunsInv, RunInv, At, Creating
  <1>4. run[p].next \in Stages \ {"create", "fill"}
    BY <1>3 DEF ListInv, Stages
  <1>5. run[p].next = "certs" => \A f \in Credentials : file[f] = p
    BY <1>1, <1>3, LeftNone DEF ListInv
  <1>6. run[p].next \in Inside => "secrets" \in dirs
    BY <1>3 DEF ListInv, Inside
  <1> QED BY <1>1, <1>2, <1>3, <1>4, <1>5, <1>6, GoesOn DEF ListInv

LEMMA LookAroundKeeps == ASSUME IInv, NEW p \in Runs, LookAround(p) PROVE IInv'
  <1>1. At(p, "look") /\ UNCHANGED <<disk, stack, edits, faults>>
    BY DEF LookAround
  <1>2. BoundsType' /\ run[p].stage \notin Late
    BY <1>1 DEF IInv, BoundsType, Late, At
  <1>3. CASE Go(p, "setup")
    <2>1. "setup" \in Stages \ {"create", "fill"}
      BY DEF Stages
    <2> QED BY <1>1, <1>2, <1>3, <2>1, GoesOn DEF Inside
  <1>4. CASE dirs = {"secrets", "certs"} /\ GoCreate(p, <<"telegraf">>, FALSE, "alerts")
    BY <1>1, <1>2, <1>4, Lists, GoesToList
  <1>5. CASE Go(p, "failed")
    BY <1>1, <1>2, <1>5, Failing
  <1> QED BY <1>3, <1>4, <1>5 DEF LookAround

LEMMA SetupLookKeeps == ASSUME IInv, NEW p \in Runs, SetupLook(p) PROVE IInv'
  <1>1. At(p, "setup") /\ UNCHANGED <<disk, stack, edits, faults>>
    BY DEF SetupLook
  <1>2. BoundsType' /\ run[p].stage \notin Late
    BY <1>1 DEF IInv, BoundsType, Late, At
  <1>3. CASE Go(p, "secrets")
    <2>1. "secrets" \in Stages \ {"create", "fill"}
      BY DEF Stages
    <2> QED BY <1>1, <1>2, <1>3, <2>1, GoesOn DEF Inside
  <1>4. CASE Go(p, "failed")
    BY <1>1, <1>2, <1>4, Failing
  <1> QED BY <1>3, <1>4 DEF SetupLook

LEMMA AddAlertsKeeps == ASSUME IInv, NEW p \in Runs, AddAlerts(p) PROVE IInv'
  <1>1. /\ At(p, "alerts") /\ UNCHANGED <<disk, stack, edits, faults>>
        /\ GoCreate(p, <<"alert", "webhook">>, FALSE, "rules")
    BY DEF AddAlerts
  <1>2. BoundsType' /\ run[p].stage \notin Late
    BY <1>1 DEF IInv, BoundsType, Late, At
  <1>3. "secrets" \in dirs
    BY <1>1 DEF IInv, RunsInv, RunInv, At, Inside
  <1> QED BY <1>1, <1>2, <1>3, Lists, GoesToList

(* A run goes to Compose only with whole secrets and a certificate.        *)
LEMMA CheckKeeps == ASSUME IInv, NEW p \in Runs, Check(p) PROVE IInv'
  <1>1. At(p, "check") /\ UNCHANGED <<disk, stack, edits, faults>>
    BY DEF Check
  <1>2. BoundsType' /\ run[p].stage \notin Late
    BY <1>1 DEF IInv, BoundsType, Late, At
  <1>3. "secrets" \in dirs
    BY <1>1 DEF IInv, RunsInv, RunInv, At, Inside
  <1>4. CASE Installed /\ Go(p, "up")
    <2>1. "up" \in Stages \ {"create", "fill"}
      BY DEF Stages
    <2> QED BY <1>1, <1>2, <1>3, <1>4, <2>1, GoesOn
  <1>5. CASE Go(p, "failed")
    BY <1>1, <1>2, <1>5, Failing
  <1> QED BY <1>4, <1>5 DEF Check, Installed

LEMMA AlertingKeeps == ASSUME IInv, NEW p \in Runs, Alerting(p) PROVE IInv'
  <1>1. At(p, "alerting") /\ Go(p, "started") /\ UNCHANGED <<disk, stack, edits, faults>>
    BY DEF Alerting
  <1>2. BoundsType'
    BY <1>1 DEF IInv, BoundsType
  <1>3. <<p, 0>> \in stored /\ Served(p, run[p].values)
    BY <1>1 DEF IInv, RunsInv, RunInv, At
  <1>4. "started" \in Stages \ {"create", "fill"} /\ "started" \in Late /\ "started" \notin Inside
    BY DEF Stages, Ended, Late, Inside
  <1> QED BY <1>1, <1>2, <1>3, <1>4, GoesOn

(* The sample was read back.                                               *)
LEMMA GetKeeps == ASSUME IInv, NEW p \in Runs, Get(p) PROVE IInv'
  <1>1. /\ At(p, "get") /\ Sample(p) \in stored /\ Go(p, "alerting")
        /\ UNCHANGED <<disk, stack, edits, faults>>
    BY DEF Get
  <1>2. BoundsType'
    BY <1>1 DEF IInv, BoundsType
  <1>3. <<p, 0>> \in stored /\ Served(p, run[p].values) /\ "secrets" \in dirs
    BY <1>1 DEF IInv, RunsInv, RunInv, At, Sample, Inside
  <1>4. "alerting" \in Stages \ {"create", "fill"} /\ "alerting" \in Late
    BY DEF Stages, Late
  <1> QED BY <1>1, <1>2, <1>3, <1>4, GoesOn

LEMMA CutOffKeeps == ASSUME IInv, NEW p \in Runs, CutOff(p) PROVE IInv'
  <1>1. /\ Go(p, "failed") /\ UNCHANGED <<disk, stack, edits>>
        /\ faults < MaxFaults /\ faults' = faults + 1
    BY DEF CutOff
  <1>2. BoundsType'
    BY <1>1, Distinct DEF IInv, BoundsType
  <1> QED BY <1>1, <1>2, Failing
-----------------------------------------------------------------------------
(* A step of p that adds to disk, database or broker.                      *)
LEMMA Adding ==
    ASSUME IInv, NEW p \in Runs, Moves(p), Spares(p), DiskType', StackInv', BoundsType',
           FillInv', dirs \subseteq dirs', stored \subseteq stored', Installed => Installed',
           backend' = backend, RunInv(p, run[p])'
    PROVE  IInv'
  <1> RunsInv
    BY DEF IInv
  <1>1. ASSUME NEW q \in Runs \ {p} PROVE RunInv(q, run[q])'
    <2>1. Served(q, run[q].values) => Served(q, run[q].values)'
      BY ServedKept
    <2>2. run[q].stage \in {"get", "alerting", "started"} => Served(q, run[q].values)
      BY DEF RunsInv, RunInv
    <2> QED BY <2>1, <2>2, OthersKept
  <1> QED BY <1>1, RunsKept DEF IInv

LEMMA ReadEnvKeeps == ASSUME IInv, NEW p \in Runs, ReadEnv(p) PROVE IInv'
  <1>1. At(p, "read") /\ UNCHANGED <<disk, stack, edits, faults>>
    BY DEF ReadEnv
  <1>2. BoundsType' /\ run[p].stage \notin Late
    BY <1>1 DEF IInv, BoundsType, Late, At
  <1>3. CASE Go(p, "failed")
    BY <1>1, <1>2, <1>3, Failing
  <1>4. CASE run' = [run EXCEPT ![p].stage = "look", ![p].values = Configured(file["env"])]
    <2> DEFINE v == Configured(file["env"])
               r == [run[p] EXCEPT !.stage = "look", !.values = v]
    <2>1. run \in [Runs -> Run] /\ run[p] \in Run
      BY DEF IInv, RunsInv
    <2>2. v \in Backends
      BY DEF Configured, Backends
    <2> HIDE DEF v
    <2>3. run' = [run EXCEPT ![p] = r] /\ run'[p] = r
      BY <1>4, <2>1 DEF v
    <2>4. r.stage = "look" /\ r \in Run
      BY <2>1, <2>2 DEF Run, Stages
    <2> HIDE DEF r
    <2>5. run' = [run EXCEPT ![p] = run'[p]] /\ run'[p].stage = "look"
      BY <2>3, <2>4
    <2>6. Moves(p) /\ ~At(p, "fill")'
      BY <1>2, <2>5 DEF Moves, At
    <2>7. RunInv(p, run'[p])
      BY <2>3, <2>4 DEF RunInv, Creating, Inside
    <2> QED BY <1>1, <1>2, <2>6, <2>7, Silent
  <1> QED BY <1>3, <1>4 DEF ReadEnv

(* What another attempt leaves of a run at its smoke test.                 *)
LEMMA RetryEffect ==
    ASSUME IInv, NEW p \in Runs, Retry(p), run[p].stage \in {"post", "get"}
    PROVE  /\ Moves(p) /\ run'[p] \in Run /\ run'[p].stage \in {"post", "failed"}
           /\ run'[p].sample = <<p, 0>>
  <1> DEFINE s == IF run[p].tries + 1 < MaxTries THEN "post" ELSE "failed"
             r == [run[p] EXCEPT !.tries = run[p].tries + 1, !.stage = s]
  <1>1. run \in [Runs -> Run] /\ run[p] \in Run /\ run[p].sample = <<p, 0>>
    BY DEF IInv, RunsInv, RunInv
  <1>2. s \in {"post", "failed"}
    OBVIOUS
  <1> HIDE DEF s
  <1>3. run' = [run EXCEPT ![p] = r]
    BY DEF Retry, s
  <1>4. run'[p] = r
    BY <1>1, <1>3
  <1>5. r.stage = s /\ r.compose = run[p].compose /\ r.sample = run[p].sample
    BY <1>1 DEF Run
  <1>6. r \in Run
    <2> DEFINE n == run[p].tries + 1
    <2>1. s \in Stages /\ n \in Nat
      BY <1>1, <1>2 DEF Run, Stages, Ended
    <2> HIDE DEF n, Stages
    <2>2. [run[p] EXCEPT !.tries = n, !.stage = s] \in Run
      BY <1>1, <2>1 DEF Run
    <2> QED BY <2>2 DEF n
  <1> HIDE DEF r
  <1>7. run' = [run EXCEPT ![p] = run'[p]]
    BY <1>3, <1>4
  <1>8. Moves(p)
    BY <1>2, <1>4, <1>5, <1>7 DEF Moves, Late
  <1> QED BY <1>1, <1>2, <1>4, <1>5, <1>6, <1>8

LEMMA RetryKeeps ==
    ASSUME IInv, NEW p \in Runs, Retry(p), run[p].stage \in {"post", "get"},
           UNCHANGED <<disk, stack>>, BoundsType'
    PROVE  IInv'
  <1>1. /\ Moves(p) /\ run'[p] \in Run /\ run'[p].stage \in {"post", "failed"}
        /\ run'[p].sample = <<p, 0>>
    BY RetryEffect
  <1>2. "secrets" \in dirs
    BY DEF IInv, RunsInv, RunInv, Inside
  <1>3. RunInv(p, run'[p])
    BY <1>1, <1>2 DEF RunInv, Creating
  <1> QED BY <1>1, <1>3, Silent DEF At

LEMMA UnreachableKeeps == ASSUME IInv, NEW p \in Runs, Unreachable(p) PROVE IInv'
  <1>1. BoundsType'
    BY DEF IInv, BoundsType, Unreachable
  <1> QED BY <1>1, RetryKeeps DEF Unreachable

LEMMA GetInVainKeeps == ASSUME IInv, NEW p \in Runs, GetInVain(p) PROVE IInv'
  <1>1. BoundsType'
    BY Distinct DEF IInv, BoundsType, GetInVain
  <1> QED BY <1>1, RetryKeeps DEF GetInVain, At

(* A sample that is sent is the one of its run.                            *)
LEMMA SendKeeps ==
    ASSUME IInv, NEW p \in Runs, Send(p) \/ UNCHANGED stack, run[p].stage = "post",
           UNCHANGED disk
    PROVE  StackInv'
  <1>1. Sample(p) = <<p, 0>>
    BY DEF IInv, RunsInv, RunInv, Sample
  <1>2. /\ UNCHANGED <<volume, backend>>
        /\ stored' \cup queued' \subseteq stored \cup queued \cup {<<p, 0>>}
    BY <1>1 DEF Send, stack
  <1>3. (Installed' <=> Installed) /\ (CertificateWhole' <=> CertificateWhole)
    BY DEF disk, Installed, CertificateWhole, SecretsWhole, RulesWhole, Whole
  <1>4. stored' \cup queued' \subseteq Runs \X {0}
    BY <1>2 DEF IInv, StackInv
  <1> QED BY <1>2, <1>3, <1>4 DEF IInv, StackInv, disk

(* A step that sends, and takes the run to its next stage.                 *)
LEMMA Sending ==
    ASSUME IInv, NEW p \in Runs, At(p, "post"), Send(p) \/ UNCHANGED stack,
           UNCHANGED disk, BoundsType', Moves(p), run'[p] \in Run,
           run'[p].stage \in {"post", "get", "failed"}, run'[p].sample = <<p, 0>>,
           run'[p].stage = "get" => backend = run'[p].values
    PROVE  IInv'
  <1>1. StackInv'
    BY SendKeeps DEF At
  <1>2. DiskType'
    BY DEF IInv, DiskType, disk
  <1>3. FillInv'
    BY FillKept DEF At
  <1>4. stored \subseteq stored' /\ backend' = backend
    BY DEF Send, stack
  <1>5. Spares(p) /\ dirs' = dirs /\ (Installed => Installed')
    BY DEF Spares, disk, Installed, CertificateWhole, SecretsWhole, RulesWhole, Whole
  <1>6. "secrets" \in dirs'
    BY DEF IInv, RunsInv, RunInv, At, Inside, disk
  <1>7. RunInv(p, run[p])'
    BY <1>4, <1>6 DEF RunInv, Creating, Served
  <1> QED BY <1>1, <1>2, <1>3, <1>4, <1>5, <1>7, Adding

LEMMA PostKeeps == ASSUME IInv, NEW p \in Runs, Post(p) PROVE IInv'
  <1> RunsInv
    BY DEF IInv
  <1>1. PICK s \in {"get", "failed"} : Go(p, s) /\ (s = "get" => backend = run[p].values)
    BY DEF Post
  <1>2. BoundsType'
    BY DEF IInv, BoundsType, Post
  <1>3. s \in Stages
    BY DEF Stages, Ended
  <1>4. /\ run' = [run EXCEPT ![p] = run'[p]] /\ run'[p] \in Run /\ run'[p].stage = s
        /\ run'[p].compose = run[p].compose /\ run'[p].sample = run[p].sample
        /\ run'[p].values = run[p].values
    BY <1>1, <1>3, GoEffect
  <1>5. Moves(p)
    BY <1>4 DEF Moves, Late
  <1>6. run[p].sample = <<p, 0>>
    BY DEF Post, At, RunsInv, RunInv
  <1> QED BY <1>1, <1>2, <1>4, <1>5, <1>6, Sending DEF Post

LEMMA PostLostKeeps == ASSUME IInv, NEW p \in Runs, PostLost(p) PROVE IInv'
  <1>1. BoundsType'
    BY Distinct DEF IInv, BoundsType, PostLost
  <1>2. /\ Moves(p) /\ run'[p] \in Run /\ run'[p].stage \in {"post", "failed"}
        /\ run'[p].sample = <<p, 0>>
    BY RetryEffect DEF PostLost, At
  <1> QED BY <1>1, <1>2, Sending DEF PostLost
-----------------------------------------------------------------------------
(* The actions that change the disk.  A first setup has its list before    *)
(* any file of it is there.                                                *)
LEMMA MakeSecretsKeeps == ASSUME IInv, NEW p \in Runs, MakeSecrets(p) PROVE IInv'
  <1> RunsInv
    BY DEF IInv
  <1>1. At(p, "secrets") /\ UNCHANGED <<file, cert, stack, edits, faults>>
    BY DEF MakeSecrets
  <1>2. BoundsType' /\ run[p].stage \notin Late
    BY <1>1 DEF IInv, BoundsType, Late, At
  <1>3. CASE Go(p, "failed") /\ UNCHANGED dirs
    BY <1>1, <1>2, <1>3, Failing DEF disk
  <1>4. CASE dirs' = dirs \cup {"secrets"} /\ GoCreate(p, Generated, TRUE, "certs")
    <2>1. Generated \in Seq(Credentials) /\ Left(Generated) = Credentials
      BY Lists
    <2>2. Generated \in Seq(Part("certs")) /\ Generated \in Seq(Files) /\ "certs" \in Stages
      <3>1. Part("certs") = Credentials
        BY DEF Part
      <3> QED BY <2>1, <3>1, PartFiles DEF Stages
    <2>3. /\ run' = [run EXCEPT ![p] = run'[p]]
          /\ run'[p] \in Run /\ run'[p].stage = "create"
          /\ run'[p].todo = Generated /\ run'[p].next = "certs" /\ run'[p].strict = TRUE
      BY <1>4, <2>2, GoCreateEffect
    <2>4. Moves(p) /\ ~At(p, "fill")'
      BY <1>2, <2>3 DEF Moves, At
    <2>5. FillInv'
      BY <2>4, FillKept
    <2>6. DiskType'
      BY <1>1, <1>4 DEF IInv, DiskType
    <2>7. Spares(p) /\ (Installed' <=> Installed)
      BY <1>1 DEF Spares, Installed, CertificateWhole, SecretsWhole, RulesWhole, Whole
    <2>8. StackInv'
      BY <1>1, <2>7 DEF IInv, StackInv, stack, CertificateWhole
    <2>9. RunInv(p, run[p])'
      <3>1. ListInv(p, run[p])'
        BY <1>4, <2>1, <2>2, <2>3 DEF ListInv
      <3> QED BY <2>3, <3>1 DEF RunInv, Inside
    <2> QED BY <1>1, <1>2, <1>4, <2>4, <2>5, <2>6, <2>7, <2>8, <2>9, Adding DEF stack
  <1> QED BY <1>3, <1>4 DEF MakeSecrets

(* All credentials are there, of this run, before the directory of the     *)
(* certificates is.                                                        *)
LEMMA MakeCertsKeeps == ASSUME IInv, NEW p \in Runs, MakeCerts(p) PROVE IInv'
  <1> RunsInv
    BY DEF IInv
  <1>1. At(p, "certs") /\ UNCHANGED <<file, cert, stack, edits, faults>>
    BY DEF MakeCerts
  <1>2. BoundsType' /\ run[p].stage \notin Late
    BY <1>1 DEF IInv, BoundsType, Late, At
  <1>3. CASE Go(p, "failed") /\ UNCHANGED dirs
    BY <1>1, <1>2, <1>3, Failing DEF disk
  <1>4. CASE dirs' = dirs \cup {"certs"} /\ Go(p, "sign")
    <2>1. "sign" \in Stages
      BY DEF Stages
    <2>2. /\ run' = [run EXCEPT ![p] = run'[p]]
          /\ run'[p] \in Run /\ run'[p].stage = "sign"
      BY <1>4, <2>1, GoEffect
    <2>3. Moves(p) /\ ~At(p, "fill")'
      BY <1>2, <2>2 DEF Moves, At
    <2>4. FillInv'
      BY <2>3, FillKept
    <2>5. "secrets" \in dirs /\ \A f \in Credentials : file[f] = p
      BY <1>1 DEF RunsInv, RunInv, At, Inside
    <2>6. file["hash"] \in Owners /\ file["operator"] = file["hash"]
      BY <2>5 DEF Credentials, Secrets, Owners
    <2>7. DiskType'
      BY <1>1, <1>4, <2>6 DEF IInv, DiskType
    <2>8. Spares(p) /\ (Installed' <=> Installed)
      BY <1>1 DEF Spares, Installed, CertificateWhole, SecretsWhole, RulesWhole, Whole
    <2>9. StackInv'
      BY <1>1, <2>8 DEF IInv, StackInv, stack, CertificateWhole
    <2>10. RunInv(p, run[p])'
      BY <1>4, <2>2, <2>5 DEF RunInv, Creating
    <2> QED BY <1>1, <1>2, <1>4, <2>3, <2>4, <2>7, <2>8, <2>9, <2>10, Adding DEF stack
  <1> QED BY <1>3, <1>4 DEF MakeCerts

LEMMA SignKeeps == ASSUME IInv, NEW p \in Runs, Sign(p) PROVE IInv'
  <1> RunsInv
    BY DEF IInv
  <1>1. At(p, "sign") /\ UNCHANGED <<file, dirs, stack, edits, faults>>
    BY DEF Sign
  <1>2. BoundsType' /\ run[p].stage \notin Late
    BY <1>1 DEF IInv, BoundsType, Late, At
  <1>3. /\ cert' \in {"key", "signed", "ready"}
        /\ CertificateWhole => CertificateWhole'
    BY DEF Sign, CertificateWhole
  <1>4. PICK s \in {"alerts", "sign"} : Go(p, s)
    BY DEF Sign
  <1>5. s \in Stages
    BY DEF Stages
  <1>6. /\ run' = [run EXCEPT ![p] = run'[p]]
        /\ run'[p] \in Run /\ run'[p].stage = s
    BY <1>4, <1>5, GoEffect
  <1>7. Moves(p) /\ ~At(p, "fill")'
    BY <1>2, <1>6 DEF Moves, At
  <1>8. FillInv'
    BY <1>7, FillKept
  <1>9. "secrets" \in dirs /\ "certs" \in dirs
    BY <1>1 DEF RunsInv, RunInv, At, Inside
  <1>10. DiskType'
    BY <1>1, <1>3, <1>9 DEF IInv, DiskType
  <1>11. Spares(p) /\ (Installed => Installed')
    BY <1>1, <1>3 DEF Spares, Installed, SecretsWhole, RulesWhole, Whole
  <1>12. StackInv'
    BY <1>1, <1>3, <1>11 DEF IInv, StackInv, stack
  <1>13. RunInv(p, run[p])'
    BY <1>1, <1>6, <1>9 DEF RunInv, Creating
  <1> QED BY <1>1, <1>2, <1>7, <1>8, <1>10, <1>11, <1>12, <1>13, Adding DEF stack
-----------------------------------------------------------------------------
(* Writing a file: a credential only where none is written, and never so   *)
(* that it is less whole; whole rules stay what they are.                  *)
LEMMA Writing ==
    ASSUME DiskType, StackInv, NEW f \in Files, NEW c,
           c \in Owners \cup Backends \cup {"bad", "rules", Empty, None},
           file' = [file EXCEPT ![f] = c], UNCHANGED <<dirs, cert, stack>>,
           f \in Credentials =>
             /\ c \in Owners \cup {Empty, None} /\ file[f] \notin Owners /\ "secrets" \in dirs
             /\ file[f] # None /\ (file[f] # Empty \/ f = "webhook") =>
                  c # None /\ (c # Empty \/ f = "webhook"),
           f = "rules" /\ RulesWhole => c = "rules"
    PROVE  /\ DiskType' /\ StackInv' /\ (Installed => Installed')
           /\ \A g \in Credentials : g # f \/ file[g] \in Owners => file'[g] = file[g]
  <1>1. /\ file \in [Files -> Owners \cup Backends \cup {"bad", "rules", Empty, None}]
        /\ Credentials \subseteq Files
    BY DEF DiskType, Credentials, Files
  <1>2. file' \in [Files -> Owners \cup Backends \cup {"bad", "rules", Empty, None}]
    BY <1>1
  <1>3. file'[f] = c /\ \A g \in Files : g # f => file'[g] = file[g]
    BY <1>1
  <1>4. \A g \in Credentials : g # f \/ file[g] \in Owners => file'[g] = file[g]
    BY <1>1, <1>3
  <1>5. Installed => Installed'
    <2>1. Secrets \subseteq Credentials
      BY DEF Credentials
    <2>2. ASSUME NEW g \in Secrets, Whole(g) PROVE Whole(g)'
      <3>1. CASE g = f
        BY <1>3, <2>1, <2>2, <3>1 DEF Whole
      <3>2. CASE g # f
        BY <1>4, <2>1, <2>2, <3>2 DEF Whole
      <3> QED BY <3>1, <3>2
    <2>3. RulesWhole => RulesWhole'
      BY <1>3 DEF RulesWhole, Files
    <2> QED BY <2>2, <2>3 DEF Installed, SecretsWhole, CertificateWhole
  <1>6. DiskType'
    <2>1. \A g \in Credentials : file'[g] \in Owners \cup {Empty, None}
      BY <1>3, <1>4 DEF DiskType
    <2>2. "secrets" \notin dirs' => \A g \in Credentials : file'[g] = None
      BY <1>4 DEF DiskType
    <2>3. "certs" \in dirs' => file'["hash"] \in Owners /\ file'["operator"] = file'["hash"]
      <3>1. "hash" \in Credentials /\ "operator" \in Credentials
        BY DEF Credentials, Secrets
      <3> QED BY <1>4, <3>1 DEF DiskType
    <2> QED BY <1>2, <2>1, <2>2, <2>3 DEF DiskType
  <1>7. StackInv'
    <2>1. \A g \in Passwords : volume[g] # None => volume[g] \in Owners /\ file[g] = volume[g]
      BY DEF StackInv
    <2>2. Passwords \subseteq Credentials
      BY DEF Passwords, Credentials, Secrets
    <2>3. \A g \in Passwords : volume[g] # None => file'[g] = volume[g]
      BY <1>4, <2>1, <2>2
    <2> QED BY <1>5, <2>3 DEF StackInv, stack, CertificateWhole
  <1> QED BY <1>4, <1>5, <1>6, <1>7

(* The file a run is at.                                                   *)
LEMMA HeadFile ==
    ASSUME IInv, NEW p \in Runs, run[p].stage \in Creating, run[p].todo # <<>>
    PROVE  /\ ListInv(p, run[p])
           /\ Head(run[p].todo) \in Part(run[p].next) /\ Head(run[p].todo) \in Files
           /\ Tail(run[p].todo) \in Seq(Part(run[p].next)) /\ Tail(run[p].todo) \in Seq(Files)
           /\ Head(run[p].todo) \in Credentials => "secrets" \in dirs
  <1>1. ListInv(p, run[p])
    BY DEF IInv, RunsInv, RunInv
  <1>2. run[p].todo \in Seq(Part(run[p].next))
    BY <1>1 DEF ListInv
  <1>3. Head(run[p].todo) \in Part(run[p].next) /\ Tail(run[p].todo) \in Seq(Part(run[p].next))
    BY <1>2, ListHead
  <1>4. Part(run[p].next) \subseteq Files
    BY DEF Part, Files, Credentials
  <1>5. "env" \notin Credentials
    BY DEF Credentials, Secrets
  <1>6. Head(run[p].todo) \in Credentials => run[p].next # "read"
    BY <1>3, <1>5 DEF Part
  <1> QED BY <1>1, <1>3, <1>4, <1>6, PartFiles DEF ListInv

(* Exclusive creation: the run becomes the only one that fills the file.   *)
LEMMA CreateKeeps == ASSUME IInv, NEW p \in Runs, Create(p) PROVE IInv'
  <1> RunsInv /\ DiskType /\ StackInv /\ FillInv
    BY DEF IInv
  <1> DEFINE f == Head(run[p].todo)
  <1>1. /\ At(p, "create") /\ run[p].todo # <<>>
        /\ UNCHANGED <<dirs, cert, stack, edits, faults>>
    BY DEF Create
  <1>2. BoundsType' /\ run[p].stage \notin Late /\ run[p].stage \in Creating
    BY <1>1 DEF IInv, BoundsType, Late, At, Creating
  <1>3. /\ ListInv(p, run[p])
        /\ f \in Part(run[p].next) /\ f \in Files
        /\ Tail(run[p].todo) \in Seq(Part(run[p].next)) /\ Tail(run[p].todo) \in Seq(Files)
        /\ f \in Credentials => "secrets" \in dirs
    BY <1>1, <1>2, HeadFile
  <1> HIDE DEF f
  <1>4. CASE file[f] = None /\ file' = [file EXCEPT ![f] = Empty] /\ Go(p, "fill")
    <2>1. "fill" \in Stages
      BY DEF Stages
    <2>2. /\ run' = [run EXCEPT ![p] = run'[p]] /\ run'[p] = [run[p] EXCEPT !.stage = "fill"]
          /\ run'[p] \in Run /\ run'[p].stage = "fill"
          /\ run'[p].todo = run[p].todo /\ run'[p].next = run[p].next
      BY <1>4, <2>1, GoEffect
    <2>3. run'[p].strict = run[p].strict
      BY <2>2, Zenon DEF RunsInv, Run
    <2>4. Moves(p)
      BY <1>2, <2>2 DEF Moves
    <2>5. /\ DiskType' /\ StackInv' /\ (Installed => Installed')
          /\ \A g \in Credentials : g # f \/ file[g] \in Owners => file'[g] = file[g]
      BY <1>1, <1>3, <1>4, Distinct, Writing DEF RulesWhole
    <2>6. \A q \in Runs : ~Filling(q, f) \/ f \notin Credentials
      BY <1>4, Distinct DEF RunsInv, RunInv, Filling, At
    <2>7. Spares(p)
      BY <2>5, <2>6 DEF Spares
    <2>8. FillInv'
      <3>1. \A q \in Runs \ {p}, g \in Credentials : Filling(q, g)' <=> Filling(q, g)
        BY <2>4, OnlyOne DEF Filling, At
      <3>2. \A g \in Credentials : Filling(p, g)' => g = f
        BY <2>2 DEF Filling, f
      <3> QED BY <2>6, <3>1, <3>2 DEF FillInv
    <2>9. RunInv(p, run[p])'
      <3>1. file'[f] = Empty
        BY <1>3, <1>4 DEF DiskType
      <3>2. p \in Owners
        BY DEF Owners
      <3>3. ListInv(p, run[p])'
        BY <1>1, <1>3, <2>2, <2>3, <2>5, <3>2 DEF ListInv
      <3> QED BY <1>1, <2>2, <3>1, <3>3 DEF RunInv, Inside, f
    <2> QED BY <1>1, <1>2, <2>4, <2>5, <2>7, <2>8, <2>9, Adding DEF stack
  <1>5. CASE run[p].strict = TRUE /\ Go(p, "failed") /\ UNCHANGED file
    BY <1>1, <1>2, <1>5, Failing DEF disk
  <1>6. CASE /\ run[p].strict # TRUE /\ UNCHANGED file
             /\ run' = [run EXCEPT ![p].todo = Tail(@)]
    <2> DEFINE r == [run[p] EXCEPT !.todo = Tail(run[p].todo)]
    <2>1. run \in [Runs -> Run] /\ run[p] \in Run
      BY DEF RunsInv
    <2>2. run' = [run EXCEPT ![p] = r] /\ run'[p] = r
      BY <1>6, <2>1
    <2>3. /\ r \in Run /\ r.stage = "create" /\ r.todo = Tail(run[p].todo)
          /\ r.next = run[p].next
      BY <1>1, <1>3, <2>1 DEF Run, At
    <2> HIDE DEF r
    <2>4. run' = [run EXCEPT ![p] = run'[p]]
      BY <2>2
    <2>5. Moves(p) /\ ~At(p, "fill")'
      BY <1>2, <2>2, <2>3, <2>4 DEF Moves, At
    <2>6. run[p].next # "certs"
      BY <1>3, <1>6 DEF ListInv
    <2>7. ListInv(p, r)
      BY <1>3, <2>3, <2>6 DEF ListInv
    <2>8. RunInv(p, run'[p])
      BY <2>2, <2>3, <2>7 DEF RunInv, Inside
    <2> QED BY <1>1, <1>2, <1>6, <2>5, <2>8, Silent DEF disk
  <1>7. run[p].strict \in BOOLEAN
    BY Zenon DEF RunsInv, Run
  <1> QED BY <1>4, <1>5, <1>6, <1>7 DEF Create, f

(* What a run writes is read by all: its own name, once.                   *)
LEMMA FillKeeps == ASSUME IInv, NEW p \in Runs, Fill(p) PROVE IInv'
  <1> RunsInv /\ DiskType /\ StackInv /\ FillInv
    BY DEF IInv
  <1> DEFINE f == Head(run[p].todo)
             c == IF f = "env" THEN "api" ELSE IF f = "rules" THEN "rules" ELSE p
             r == [run[p] EXCEPT !.stage = "create", !.todo = Tail(run[p].todo)]
  <1>1. /\ At(p, "fill") /\ UNCHANGED <<dirs, cert, stack, edits, faults>>
        /\ file' = [file EXCEPT ![f] = c]
        /\ run' = [run EXCEPT ![p].stage = "create", ![p].todo = Tail(@)]
    BY DEF Fill
  <1>2. BoundsType' /\ run[p].stage \notin Late /\ run[p].stage \in Creating
    BY <1>1 DEF IInv, BoundsType, Late, At, Creating
  <1>3. run[p].todo # <<>> /\ (f \in Credentials => file[f] = Empty)
    BY <1>1 DEF RunsInv, RunInv, At
  <1>4. /\ ListInv(p, run[p])
        /\ f \in Part(run[p].next) /\ f \in Files
        /\ Tail(run[p].todo) \in Seq(Part(run[p].next)) /\ Tail(run[p].todo) \in Seq(Files)
        /\ f \in Credentials => "secrets" \in dirs
    BY <1>2, <1>3, HeadFile
  <1>5. Left(run[p].todo) \subseteq Left(Tail(run[p].todo)) \cup {f}
    BY <1>3, <1>4, LeftTail DEF ListInv
  <1>6. run \in [Runs -> Run] /\ run[p] \in Run
    BY DEF RunsInv
  <1>7. run' = [run EXCEPT ![p] = r] /\ run'[p] = r
    BY <1>1, <1>6
  <1>8. /\ r \in Run /\ r.stage = "create" /\ r.todo = Tail(run[p].todo) /\ r.next = run[p].next
    <2>1. "create" \in Stages
      BY DEF Stages
    <2> HIDE DEF Stages
    <2> QED BY <1>4, <1>6, <2>1 DEF Run
  <1>9. r.strict = run[p].strict
    BY <1>6, Zenon DEF Run
  <1>10. /\ c \in Owners \cup Backends \cup {"bad", "rules", Empty, None}
         /\ f \in Credentials => c = p /\ c \in Owners
    BY DEF Owners, Backends, Credentials, Secrets
  <1>11. f \in Credentials => At(p, "fill") /\ Filling(p, f)
    BY <1>1 DEF Filling
  <1> HIDE DEF f, c, r
  <1>12. run' = [run EXCEPT ![p] = run'[p]]
    BY <1>7
  <1>13. Moves(p) /\ ~At(p, "fill")'
    BY <1>2, <1>7, <1>8, <1>12 DEF Moves, At
  <1>14. FillInv'
    BY <1>13, FillKept
  <1>15. /\ DiskType' /\ StackInv' /\ (Installed => Installed')
         /\ \A g \in Credentials : g # f \/ file[g] \in Owners => file'[g] = file[g]
    <2>1. f \in Credentials => c # None /\ c # Empty /\ file[f] \notin Owners
      BY <1>3, <1>10, Distinct
    <2>2. f = "rules" => c = "rules"
      BY DEF c
    <2> QED BY <1>1, <1>4, <1>10, <2>1, <2>2, Writing
  <1>16. Spares(p)
    BY <1>11, <1>15 DEF Spares, FillInv
  <1>17. RunInv(p, run[p])'
    <2>1. file'[f] = c
      BY <1>1, <1>4 DEF DiskType
    <2>2. p \in Owners
      BY DEF Owners
    <2>3. ASSUME r.next = "certs", NEW g \in Credentials \ Left(r.todo) PROVE file'[g] = p
      <3>1. CASE g = f
        BY <1>10, <2>1, <3>1
      <3>2. CASE g # f
        BY <1>4, <1>5, <1>8, <1>15, <2>3, <3>2 DEF ListInv
      <3> QED BY <3>1, <3>2
    <2>4. ListInv(p, run[p])'
      BY <1>1, <1>4, <1>7, <1>8, <1>9, <2>3 DEF ListInv
    <2> QED BY <1>7, <1>8, <2>4 DEF RunInv, Inside
  <1> QED BY <1>1, <1>2, <1>13, <1>14, <1>15, <1>16, <1>17, Adding DEF stack
-----------------------------------------------------------------------------
(* The actions that change the stack.  A new volume takes passwords that   *)
(* are on disk, and stay there.                                            *)
LEMMA UpDatabaseKeeps == ASSUME IInv, NEW p \in Runs, UpDatabase(p) PROVE IInv'
  <1> RunsInv /\ DiskType /\ StackInv /\ FillInv
    BY DEF IInv
  <1> DEFINE c == IF file["env"] = "bad" THEN "bad" ELSE Configured(file["env"])
             r == [run[p] EXCEPT !.stage = "services", !.compose = c]
  <1>1. /\ At(p, "up") /\ UNCHANGED <<disk, backend, stored, queued, edits, faults>>
        /\ run' = [run EXCEPT ![p].stage = "services", ![p].compose = c]
        /\ volume' = [core |-> IF volume.core = None THEN file["core"] ELSE volume.core,
                      telegraf |-> IF volume.telegraf = None THEN file["telegraf"]
                                   ELSE volume.telegraf]
    BY DEF UpDatabase
  <1>2. BoundsType' /\ run[p].stage \notin Late
    BY <1>1 DEF IInv, BoundsType, Late, At
  <1>3. Installed /\ "secrets" \in dirs
    BY <1>1 DEF RunsInv, RunInv, At, Inside
  <1>4. run \in [Runs -> Run] /\ run[p] \in Run
    BY DEF RunsInv
  <1>5. c \in Backends \cup {"bad"}
    BY DEF Configured, Backends
  <1>6. run' = [run EXCEPT ![p] = r] /\ run'[p] = r
    BY <1>1, <1>4
  <1>7. r \in Run /\ r.stage = "services"
    <2>1. "services" \in Stages
      BY DEF Stages
    <2> HIDE DEF Stages, c
    <2> QED BY <1>4, <1>5, <2>1 DEF Run
  <1> HIDE DEF r, c
  <1>8. run' = [run EXCEPT ![p] = run'[p]]
    BY <1>6
  <1>9. Moves(p) /\ ~At(p, "fill")'
    BY <1>2, <1>6, <1>7, <1>8 DEF Moves, At
  <1>10. FillInv'
    BY <1>9, FillKept
  <1>11. DiskType' /\ Spares(p) /\ (Installed' <=> Installed)
    BY <1>1 DEF DiskType, Spares, disk, Installed, CertificateWhole, SecretsWhole, RulesWhole, Whole
  <1>12. file["core"] \in Owners /\ file["telegraf"] \in Owners
    BY <1>3 DEF Installed, SecretsWhole, RulesWhole, Whole, Secrets, DiskType, Credentials
  <1>13. StackInv'
    <2>1. /\ volume'.core \in Owners \cup {None} /\ volume'.telegraf \in Owners \cup {None}
          /\ volume' = [core |-> volume'.core, telegraf |-> volume'.telegraf]
      BY <1>1, <1>12 DEF StackInv, Passwords
    <2>2. volume'["core"] = file["core"] /\ volume'["telegraf"] = file["telegraf"]
      BY <1>1 DEF StackInv, Passwords
    <2>3. volume' \in [Passwords -> Owners \cup {None}]
      BY <2>1 DEF Passwords
    <2>4. \A f \in Passwords : volume'[f] = file'[f]
      BY <1>1, <2>2 DEF Passwords, disk
    <2>5. CertificateWhole'
      BY <1>3, <1>11 DEF Installed
    <2> QED BY <1>1, <1>3, <1>11, <2>3, <2>4, <2>5 DEF StackInv
  <1>14. RunInv(p, run[p])'
    BY <1>1, <1>3, <1>6, <1>7, <1>11 DEF RunInv, Creating, disk
  <1> QED BY <1>1, <1>2, <1>3, <1>9, <1>10, <1>11, <1>13, <1>14, Adding DEF disk

(* Another run's backend may be replaced; whoever it served is served by   *)
(* the run that replaces it.                                               *)
LEMMA UpServicesKeeps == ASSUME IInv, NEW p \in Runs, UpServices(p) PROVE IInv'
  <1> RunsInv /\ DiskType /\ StackInv /\ FillInv
    BY DEF IInv
  <1> DEFINE r == [run[p] EXCEPT !.stage = "post", !.sample = <<p, 0>>]
  <1>1. /\ At(p, "services") /\ UNCHANGED <<disk, volume, stored, queued, edits, faults>>
        /\ run' = [run EXCEPT ![p].stage = "post", ![p].sample = <<p, 0>>]
        /\ backend' = run[p].compose
    BY DEF UpServices
  <1>2. BoundsType'
    BY <1>1 DEF IInv, BoundsType
  <1>3. Installed /\ "secrets" \in dirs
    BY <1>1 DEF RunsInv, RunInv, At, Inside
  <1>4. run \in [Runs -> Run] /\ run[p] \in Run
    BY DEF RunsInv
  <1>5. run' = [run EXCEPT ![p] = r] /\ run'[p] = r
    BY <1>1, <1>4
  <1>6. /\ r \in Run /\ r.stage = "post" /\ r.sample = <<p, 0>> /\ r.compose = run[p].compose
        /\ run[p].compose \in Backends \cup {"bad", None}
    <2>1. "post" \in Stages
      BY DEF Stages
    <2>2. <<p, 0>> \in Runs \X Nat
      OBVIOUS
    <2> HIDE DEF Stages
    <2> QED BY <1>4, <2>1, <2>2 DEF Run
  <1> HIDE DEF r
  <1>7. run' = [run EXCEPT ![p] = run'[p]]
    BY <1>5
  <1>8. Moves(p) /\ ~At(p, "fill")'
    BY <1>5, <1>6, <1>7 DEF Moves, At, Late
  <1>9. FillInv'
    BY <1>8, FillKept
  <1>10. DiskType' /\ Spares(p) /\ (Installed' <=> Installed)
    BY <1>1 DEF DiskType, Spares, disk, Installed, CertificateWhole, SecretsWhole, RulesWhole, Whole
  <1>11. StackInv'
    BY <1>1, <1>3, <1>6, <1>10 DEF StackInv, disk, CertificateWhole
  <1>12. ASSUME NEW q \in Runs \ {p} PROVE RunInv(q, run[q])'
    <2>1. Served(q, run[q].values)'
      <3>1. run'[p].stage \in Late /\ run'[p].compose = backend'
        BY <1>1, <1>5, <1>6 DEF Late
      <3> QED BY <3>1 DEF Served
    <2> QED BY <1>1, <1>8, <1>10, <2>1, OthersKept DEF disk
  <1>13. RunInv(p, run[p])'
    BY <1>1, <1>3, <1>5, <1>6 DEF RunInv, Creating, disk
  <1> QED BY <1>2, <1>8, <1>9, <1>10, <1>11, <1>12, <1>13, RunsKept DEF IInv

(* What stays in the database and on its way through the broker.           *)
LEMMA DeliverKeeps == ASSUME IInv, NEW s \in queued, Deliver(s) PROVE IInv'
  <1> RunsInv /\ DiskType /\ StackInv /\ FillInv
    BY DEF IInv
  <1>1. /\ UNCHANGED <<disk, volume, backend, run, edits, faults>>
        /\ queued' = queued \ {s} /\ stored' = stored \cup {s}
    BY DEF Deliver
  <1>2. DiskType' /\ BoundsType' /\ (Installed' <=> Installed)
    BY <1>1 DEF IInv, DiskType, BoundsType, disk, Installed, CertificateWhole, SecretsWhole, RulesWhole, Whole
  <1>3. stored' \cup queued' \subseteq Runs \X {0}
    BY <1>1 DEF StackInv
  <1>4. StackInv'
    BY <1>1, <1>2, <1>3 DEF StackInv, disk, CertificateWhole
  <1>5. FillInv'
    BY <1>1 DEF FillInv, Filling, At
  <1>6. ASSUME NEW q \in Runs PROVE RunInv(q, run[q])'
    <2>1. RunInv(q, run[q]) /\ run' = run
      BY <1>1 DEF RunsInv
    <2>2. ListInv(q, run[q]) => ListInv(q, run[q])'
      BY <1>1 DEF ListInv, disk
    <2>3. Served(q, run[q].values) => Served(q, run[q].values)'
      BY <1>1 DEF Served
    <2> QED BY <1>1, <1>2, <2>1, <2>2, <2>3 DEF RunInv, disk
  <1>7. RunsInv'
    BY <1>1, <1>6 DEF RunsInv
  <1> QED BY <1>2, <1>4, <1>5, <1>7 DEF IInv

(* The operator's steps: .env is no credential, and while runs rest none   *)
(* relies on a file.                                                       *)
LEMMA EditEnvKeeps ==
    ASSUME IInv, NEW content \in Backends \cup {"bad"}, EditEnv(content)
    PROVE  IInv'
  <1> RunsInv /\ DiskType /\ StackInv /\ FillInv
    BY DEF IInv
  <1>1. /\ edits < MaxEdits /\ edits' = edits + 1
        /\ file' = [file EXCEPT !["env"] = content]
        /\ UNCHANGED <<dirs, cert, stack, run, faults>>
    BY DEF EditEnv
  <1>2. "env" \in Files /\ "env" \notin Credentials
    BY DEF Files, Credentials, Secrets
  <1>3. /\ DiskType' /\ StackInv' /\ (Installed => Installed')
        /\ \A g \in Credentials : file'[g] = file[g]
    BY <1>1, <1>2, Writing
  <1>4. BoundsType'
    BY <1>1, Distinct DEF IInv, BoundsType
  <1>5. FillInv'
    BY <1>1 DEF FillInv, Filling, At
  <1>6. ASSUME NEW q \in Runs PROVE RunInv(q, run[q])'
    <2>1. RunInv(q, run[q]) /\ run' = run
      BY <1>1 DEF RunsInv
    <2>2. ListInv(q, run[q]) => ListInv(q, run[q])'
      BY <1>1, <1>3 DEF ListInv
    <2>3. Served(q, run[q].values) => Served(q, run[q].values)'
      BY <1>1 DEF Served, stack
    <2> QED BY <1>1, <1>3, <2>1, <2>2, <2>3 DEF RunInv, stack
  <1>7. RunsInv'
    BY <1>1, <1>6 DEF RunsInv
  <1> QED BY <1>3, <1>4, <1>5, <1>7 DEF IInv

LEMMA RestingKept ==
    ASSUME RunsInv, Resting, UNCHANGED <<stack, run>>
    PROVE  RunsInv' /\ FillInv'
  <1>1. \A q \in Runs : run[q].stage \in Ended
    BY DEF Resting, Active
  <1>2. FillInv'
    BY <1>1 DEF FillInv, Filling, At, Ended
  <1>3. ASSUME NEW q \in Runs PROVE RunInv(q, run[q])'
    <2>1. RunInv(q, run[q]) /\ run' = run /\ run[q].stage \in {"idle", "started", "failed"}
      BY <1>1 DEF RunsInv, Ended
    <2>2. Served(q, run[q].values) => Served(q, run[q].values)'
      BY DEF Served, stack
    <2> QED BY <2>1, <2>2 DEF RunInv, stack, Creating, Inside
  <1>4. RunsInv'
    BY <1>3 DEF RunsInv
  <1> QED BY <1>2, <1>4

(* What is given up has neither a certificate nor a database.              *)
LEMMA DiscardKeeps == ASSUME IInv, Discard PROVE IInv'
  <1> RunsInv /\ DiskType /\ StackInv
    BY DEF IInv
  <1>1. /\ Resting /\ ~CertificateWhole /\ dirs' = {} /\ cert' = "none"
        /\ file' = [f \in Files |-> IF f \in {"env", "rules"} THEN file[f] ELSE None]
        /\ UNCHANGED <<stack, run, edits, faults>>
    BY DEF Discard
  <1>2. BoundsType'
    BY <1>1 DEF IInv, BoundsType
  <1>3. RunsInv' /\ FillInv'
    BY <1>1, RestingKept
  <1>4. DiskType'
    <2>1. \A f \in Credentials : f \in Files /\ f \notin {"env", "rules"}
      BY DEF Credentials, Secrets, Files
    <2>2. \A f \in Credentials : file'[f] = None
      BY <1>1, <2>1
    <2>3. file' \in [Files -> Owners \cup Backends \cup {"bad", "rules", Empty, None}]
      BY <1>1 DEF DiskType
    <2> QED BY <1>1, <2>2, <2>3 DEF DiskType
  <1>5. backend = None /\ \A f \in Passwords : volume[f] = None
    BY <1>1 DEF StackInv, Installed
  <1>6. StackInv'
    BY <1>1, <1>5 DEF StackInv, stack
  <1> QED BY <1>2, <1>3, <1>4, <1>6 DEF IInv

LEMMA RemoveEmptyKeeps == ASSUME IInv, NEW f \in Files, RemoveEmpty(f) PROVE IInv'
  <1> RunsInv /\ DiskType /\ StackInv
    BY DEF IInv
  <1>1. /\ Resting /\ "certs" \in dirs /\ f # "webhook" /\ file[f] = Empty
        /\ file' = [file EXCEPT ![f] = None]
        /\ UNCHANGED <<dirs, cert, stack, run, edits, faults>>
    BY DEF RemoveEmpty
  <1>2. BoundsType'
    BY <1>1 DEF IInv, BoundsType
  <1>3. RunsInv' /\ FillInv'
    BY <1>1, RestingKept
  <1>4. "secrets" \in dirs
    <2>1. "hash" \in Credentials
      BY DEF Credentials, Secrets
    <2> QED BY <1>1, <2>1, Distinct DEF DiskType
  <1>5. DiskType' /\ StackInv'
    BY <1>1, <1>4, Distinct, Writing DEF RulesWhole
  <1> QED BY <1>2, <1>3, <1>5 DEF IInv
-----------------------------------------------------------------------------
LEMMA RunStepKeeps ==
    ASSUME IInv, NEW p \in Runs,
           Begin(p) \/ Work(p) \/ PostLost(p) \/ GetInVain(p) \/ CutOff(p)
    PROVE  IInv'
  <1>1. CASE EnvFile(p) \/ RulesFile(p) \/ Create(p) \/ Fill(p) \/ Created(p)
    BY <1>1, EnvFileKeeps, RulesFileKeeps, CreateKeeps, FillKeeps, CreatedKeeps
  <1>2. CASE ReadEnv(p) \/ LookAround(p) \/ SetupLook(p) \/ MakeSecrets(p)
    BY <1>2, ReadEnvKeeps, LookAroundKeeps, SetupLookKeeps, MakeSecretsKeeps
  <1>3. CASE MakeCerts(p) \/ Sign(p) \/ AddAlerts(p) \/ Check(p)
    BY <1>3, MakeCertsKeeps, SignKeeps, AddAlertsKeeps, CheckKeeps
  <1>4. CASE UpDatabase(p) \/ UpServices(p)
    BY <1>4, UpDatabaseKeeps, UpServicesKeeps
  <1>5. CASE Post(p) \/ Unreachable(p) \/ Get(p) \/ Alerting(p)
    BY <1>5, PostKeeps, UnreachableKeeps, GetKeeps, AlertingKeeps
  <1>6. CASE Begin(p) \/ PostLost(p) \/ GetInVain(p) \/ CutOff(p)
    BY <1>6, BeginKeeps, PostLostKeeps, GetInVainKeeps, CutOffKeeps
  <1> QED BY <1>1, <1>2, <1>3, <1>4, <1>5, <1>6 DEF Work

LEMMA StepKeeps == ASSUME IInv, [Next]_vars PROVE IInv'
  <1>1. ASSUME NEW p \in Runs,
               Begin(p) \/ Work(p) \/ PostLost(p) \/ GetInVain(p) \/ CutOff(p)
        PROVE  IInv'
    BY <1>1, RunStepKeeps
  <1>2. ASSUME NEW s \in queued, Deliver(s) PROVE IInv'
    BY <1>2, DeliverKeeps
  <1>3. ASSUME NEW content \in Backends \cup {"bad"}, EditEnv(content) PROVE IInv'
    BY <1>3, EditEnvKeeps
  <1>4. CASE Discard
    BY <1>4, DiscardKeeps
  <1>5. ASSUME NEW f \in Files, RemoveEmpty(f) PROVE IInv'
    BY <1>5, RemoveEmptyKeeps
  <1>6. CASE UNCHANGED vars
    <2> USE <1>6 DEF vars, disk, stack
    <2>1. DiskType' /\ StackInv' /\ BoundsType'
      BY DEF IInv, DiskType, StackInv, BoundsType, Installed, CertificateWhole, SecretsWhole, RulesWhole, Whole
    <2>2. FillInv'
      BY DEF IInv, FillInv, Filling, At
    <2>3. ASSUME NEW q \in Runs PROVE RunInv(q, run[q])'
      BY DEF IInv, RunsInv, RunInv, ListInv, Served, Installed, CertificateWhole, SecretsWhole,
             RulesWhole, Whole
    <2> QED BY <2>1, <2>2, <2>3 DEF IInv, RunsInv
  <1> QED BY <1>1, <1>2, <1>3, <1>4, <1>5, <1>6 DEF Next

LEMMA Inductive == Spec => []IInv
  <1>1. IInv /\ [Next]_vars => IInv'
    BY StepKeeps
  <1> QED BY InitCorrect, <1>1, PTL DEF Spec
-----------------------------------------------------------------------------
(* `make dev` keeps its types, the database's passwords stay on disk, and  *)
(* services run only beside whole secrets and rules and a signed           *)
(* certificate.                                                            *)
THEOREM StackStaysWhole == Spec => []BootstrapInv
  <1>1. ASSUME IInv PROVE TypeOK
    <2> DiskType /\ StackInv /\ BoundsType /\ RunsInv
      BY <1>1 DEF IInv
    <2>1. stored \cup queued \subseteq Runs \X Nat
      BY DEF StackInv
    <2> QED BY <2>1 DEF TypeOK, DiskType, StackInv, BoundsType, RunsInv, Passwords, Credentials
  <1>2. ASSUME IInv PROVE StackWhole
    BY <1>2 DEF IInv, StackInv, StackWhole, Passwords, Installed
  <1>3. IInv => BootstrapInv
    BY <1>1, <1>2 DEF BootstrapInv
  <1> QED BY Inductive, <1>3, PTL

(* Wherever runs were cut off, the passwords behind the hashes that the    *)
(* running services check are those in operator-credentials.json.          *)
THEOREM CredentialsUsable == Spec => []OperatorCanLogIn
  <1>1. IInv => OperatorCanLogIn
    BY DEF IInv, StackInv, DiskType, Installed, CertificateWhole, OperatorCanLogIn
  <1> QED BY Inductive, <1>1, PTL

(* No run leaves two samples, and one that reports success has stored its  *)
(* sample through a backend it was configured for.                         *)
THEOREM ReportsTrue == Spec => []SuccessTruthful
  <1>1. ASSUME IInv, NEW p \in Runs
        PROVE  /\ \A s, t \in Samples(p) : s = t
               /\ At(p, "started") =>
                    /\ Samples(p) \cap stored # {}
                    /\ \/ backend = run[p].values
                       \/ \E q \in Runs \ {p} : run[q].compose = backend
    <2>1. \A s \in Samples(p) : s = <<p, 0>>
      BY <1>1 DEF IInv, StackInv, Samples
    <2>2. ASSUME At(p, "started") PROVE <<p, 0>> \in stored /\ Served(p, run[p].values)
      BY <1>1, <2>2 DEF IInv, RunsInv, RunInv, At
    <2>3. <<p, 0>> \in stored => <<p, 0>> \in Samples(p)
      BY DEF Samples
    <2> QED BY <2>1, <2>2, <2>3 DEF Served
  <1>2. IInv => SuccessTruthful
    BY <1>1 DEF SuccessTruthful
  <1> QED BY Inductive, <1>2, PTL

(* A step that changes a written credential is a setup being given up.     *)
LEMMA CredentialStep ==
    ASSUME IInv, [Next]_vars, NEW f \in Credentials, file[f] \in Owners, file'[f] # file[f]
    PROVE  Discard
  <1> RunsInv /\ DiskType
    BY DEF IInv
  <1>1. f \in Files /\ f # "env" /\ file[f] # None /\ file[f] # Empty
    BY Distinct DEF Credentials, Files, Secrets
  <1>2. file \in [Files -> Owners \cup Backends \cup {"bad", "rules", Empty, None}]
    BY DEF DiskType
  <1>3. ASSUME NEW p \in Runs, Create(p) PROVE FALSE
    BY <1>1, <1>2, <1>3 DEF Create
  <1>4. ASSUME NEW p \in Runs, Fill(p) PROVE FALSE
    <2>1. Head(run[p].todo) \in Credentials => file[Head(run[p].todo)] = Empty
      BY <1>4 DEF Fill, At, RunsInv, RunInv
    <2>2. f # Head(run[p].todo)
      BY <1>1, <2>1
    <2> QED BY <1>1, <1>2, <1>4, <2>2 DEF Fill
  <1>5. ASSUME NEW content \in Backends \cup {"bad"}, EditEnv(content) PROVE FALSE
    BY <1>1, <1>2, <1>5 DEF EditEnv
  <1>6. ASSUME NEW g \in Files, RemoveEmpty(g) PROVE FALSE
    BY <1>1, <1>2, <1>6 DEF RemoveEmpty
  <1>7. ASSUME NEW p \in Runs,
               \/ EnvFile(p) \/ RulesFile(p) \/ Created(p) \/ ReadEnv(p) \/ LookAround(p)
               \/ SetupLook(p) \/ AddAlerts(p) \/ Check(p)
        PROVE  FALSE
    BY <1>7 DEF disk, EnvFile, RulesFile, Created, ReadEnv, LookAround, SetupLook, AddAlerts, Check
  <1>8. ASSUME NEW p \in Runs,
               \/ MakeSecrets(p) \/ MakeCerts(p) \/ Sign(p) \/ UpDatabase(p) \/ UpServices(p)
               \/ Post(p) \/ Unreachable(p) \/ Get(p) \/ Alerting(p)
        PROVE  FALSE
    BY <1>8 DEF disk, MakeSecrets, MakeCerts, Sign, UpDatabase, UpServices, Post, Unreachable,
                Get, Alerting
  <1>9. ASSUME NEW p \in Runs, Begin(p) \/ PostLost(p) \/ GetInVain(p) \/ CutOff(p)
        PROVE  FALSE
    BY <1>9 DEF disk, Begin, PostLost, GetInVain, CutOff
  <1>10. ASSUME NEW s \in queued, Deliver(s) PROVE FALSE
    BY <1>10 DEF disk, Deliver
  <1>11. ~UNCHANGED vars
    BY DEF vars, disk
  <1>12. ASSUME NEW p \in Runs, Work(p) PROVE FALSE
    BY <1>3, <1>4, <1>7, <1>8, <1>12 DEF Work
  <1> QED BY <1>5, <1>6, <1>9, <1>10, <1>11, <1>12 DEF Next

(* Credentials are never rotated: only a setup that never had a database   *)
(* may be given up, whole.                                                 *)
THEOREM NeverRotated == Spec => CredentialsKept
  <1>1. ASSUME IInv, [Next]_vars
        PROVE  \A f \in Secrets \cup {"operator"} :
                 file[f] \in Owners /\ file'[f] # file[f] => dirs' = {} /\ volume.core = None
    <2> SUFFICES ASSUME Discard PROVE dirs' = {} /\ volume.core = None
      BY <1>1, CredentialStep DEF Credentials
    <2>1. volume["core"] = None
      BY <1>1 DEF Discard, IInv, StackInv, Passwords
    <2> QED BY <2>1 DEF Discard
  <1> QED BY Inductive, <1>1, PTL DEF Spec, CredentialsKept
=============================================================================
