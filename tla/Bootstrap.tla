----------------------------- MODULE Bootstrap -----------------------------
(***************************************************************************)
(* `make dev`: deploy/scripts/environment.py with setup.mjs and the two    *)
(* add-*-secrets.mjs.  Several runs may overlap or follow one another,     *)
(* each may be cut off between any two steps or see a command fail, and    *)
(* the operator edits .env meanwhile.  What must survive is on disk and in *)
(* the database volume.                                                    *)
(*                                                                         *)
(* A file is created exclusively and written in a second step, so a run    *)
(* that is cut off in between leaves it empty.  A secret's content is the  *)
(* run that generated it.  Secrets that are created and checked alike are  *)
(* one name here.  Docker Compose and the services are external.           *)
(***************************************************************************)
EXTENDS Naturals, Sequences

CONSTANTS Runs,       \* processes of `make dev`
          Machines,   \* what may be on disk at first: "fresh", "old"
          MaxTries,   \* attempts of the smoke test (60 in the code)
          MaxEdits,   \* bound: edits of .env
          MaxFaults,  \* bound: runs cut off, failing commands, slow answers
          Old,        \* generator of the secrets of an old installation
          Empty,      \* content of a file that was created and not written
          None        \* no file, nothing yet

ASSUME BootstrapAssumption ==
    /\ Machines \subseteq {"fresh", "old"}
    /\ {MaxTries, MaxEdits, MaxFaults} \subseteq Nat
    /\ Old \notin Runs /\ Empty \notin Runs \cup {Old} /\ None \notin Runs \cup {Old, Empty}
    /\ {Empty, None} \cap {"api", "mqtt", "bad", "rules"} = {}

(* setup.mjs saves in this order; "operator" is operator-credentials.json, *)
(* the only place where the passwords behind the hashes can be read.       *)
Generated == <<"alert", "telegraf", "core", "webhook", "hash", "operator">>
Secrets == {"alert", "telegraf", "core", "webhook", "hash"}
Files == Secrets \cup {"operator", "env", "rules"}
Backends == {"api", "mqtt"}

VARIABLES
    file,     \* content of each file, Empty or None
    dirs,     \* which of deploy/secrets and deploy/certs exist
    cert,     \* MQTT certificate: "none", "key", "signed" or "ready"
    volume,   \* passwords the database volume was given
    backend,  \* INGESTION_BACKEND of the Node-RED container, None: not running
    stored,   \* sample observations in the database,
    queued,   \* and those on their way through the broker
    run,      \* per run, its progress (see Run)
    edits, faults

disk == <<file, dirs, cert>>
stack == <<volume, backend, stored, queued>>
vars == <<disk, stack, run, edits, faults>>

(* A run: the stage it is at; files it still has to create, whether an     *)
(* existing one is an error, and the stage after them; the configuration   *)
(* it read and the one Compose read; its attempts and its sample.          *)
Idle == [stage |-> "idle", todo |-> <<>>, strict |-> FALSE, next |-> "idle",
         values |-> None, compose |-> None, tries |-> 0, sample |-> None]

Init ==
    \E machine \in Machines :
        LET kept == {"core", "hash", "operator", "env"}
        IN  /\ file = [f \in Files |->
                 IF machine = "fresh" \/ f \notin kept THEN None
                 ELSE IF f = "env" THEN "api" ELSE Old]
            /\ dirs = IF machine = "fresh" THEN {} ELSE {"secrets", "certs"}
            /\ cert = IF machine = "fresh" THEN "none" ELSE "ready"
            /\ volume = [core |-> IF machine = "fresh" THEN None ELSE Old, telegraf |-> None]
            /\ backend = None /\ stored = {} /\ queued = {}
            /\ run = [p \in Runs |-> Idle]
            /\ edits = 0 /\ faults = 0
-----------------------------------------------------------------------------
Ended == {"idle", "started", "failed"}
Active(p) == run[p].stage \notin Ended
At(p, stage) == run[p].stage = stage
Go(p, stage) == run' = [run EXCEPT ![p].stage = stage]

(* Files to create before the next stage.                                  *)
GoCreate(p, todo, strict, next) ==
    run' = [run EXCEPT ![p].stage = "create", ![p].todo = todo,
                       ![p].strict = strict, ![p].next = next]

Begin(p) ==
    /\ At(p, "idle")
    /\ Go(p, "env")
    /\ UNCHANGED <<disk, stack, edits, faults>>

(* .env and alerts.json: exists(), then open('x').                         *)
EnvFile(p) ==
    /\ At(p, "env")
    /\ IF file["env"] = None THEN GoCreate(p, <<"env">>, TRUE, "read") ELSE Go(p, "read")
    /\ UNCHANGED <<disk, stack, edits, faults>>

RulesFile(p) ==
    /\ At(p, "rules")
    /\ IF file["rules"] = None THEN GoCreate(p, <<"rules">>, TRUE, "check") ELSE Go(p, "check")
    /\ UNCHANGED <<disk, stack, edits, faults>>

(* Regression: the upgrade scripts open with flag w.                       *)
CreateOver(p) ==
    /\ At(p, "create") /\ run[p].todo # <<>>
    /\ LET f == Head(run[p].todo)
       IN  /\ file' = [file EXCEPT ![f] = Empty]
           /\ Go(p, "fill")
    /\ UNCHANGED <<dirs, cert, stack, edits, faults>>

(* Flag wx: the next file is created, or it exists; then setup fails and   *)
(* the add scripts preserve it.                                            *)
Create(p) ==
    /\ At(p, "create") /\ run[p].todo # <<>>
    /\ LET f == Head(run[p].todo)
       IN  IF file[f] = None
           THEN file' = [file EXCEPT ![f] = Empty] /\ Go(p, "fill")
           ELSE /\ IF run[p].strict THEN Go(p, "failed")
                   ELSE run' = [run EXCEPT ![p].todo = Tail(@)]
                /\ UNCHANGED file
    /\ UNCHANGED <<dirs, cert, stack, edits, faults>>

Fill(p) ==
    /\ At(p, "fill")
    /\ LET f == Head(run[p].todo)
       IN  /\ file' = [file EXCEPT ![f] = IF f = "env" THEN "api"
                                          ELSE IF f = "rules" THEN "rules" ELSE p]
           /\ run' = [run EXCEPT ![p].stage = "create", ![p].todo = Tail(@)]
    /\ UNCHANGED <<dirs, cert, stack, edits, faults>>

Created(p) ==
    /\ At(p, "create") /\ run[p].todo = <<>>
    /\ Go(p, run[p].next)
    /\ UNCHANGED <<disk, stack, edits, faults>>

(* read_env, with the defaults of .env.example: an empty file means api.   *)
Configured(content) == IF content \in Backends THEN content ELSE "api"
ReadEnv(p) ==
    /\ At(p, "read")
    /\ IF file["env"] = "bad" THEN Go(p, "failed")
       ELSE run' = [run EXCEPT ![p].stage = "look", ![p].values = Configured(file["env"])]
    /\ UNCHANGED <<disk, stack, edits, faults>>

(* Regression: missing certificates alone are made again.                  *)
LookAroundRepairing(p) ==
    /\ At(p, "look")
    /\ IF dirs = {} THEN Go(p, "setup")
       ELSE IF dirs = {"secrets"} THEN Go(p, "certs")
       ELSE GoCreate(p, <<"telegraf">>, FALSE, "alerts")
    /\ UNCHANGED <<disk, stack, edits, faults>>

(* A first setup, an incomplete one, or an upgrade.                        *)
LookAround(p) ==
    /\ At(p, "look")
    /\ IF dirs = {} THEN Go(p, "setup")
       ELSE IF dirs = {"secrets", "certs"} THEN GoCreate(p, <<"telegraf">>, FALSE, "alerts")
       ELSE Go(p, "failed")
    /\ UNCHANGED <<disk, stack, edits, faults>>

(* setup.mjs looks again, and later relies on mkdir to fail.               *)
SetupLook(p) ==
    /\ At(p, "setup")
    /\ IF dirs = {} THEN Go(p, "secrets") ELSE Go(p, "failed")
    /\ UNCHANGED <<disk, stack, edits, faults>>

MakeSecrets(p) ==
    /\ At(p, "secrets")
    /\ IF "secrets" \in dirs THEN Go(p, "failed") /\ UNCHANGED dirs
       ELSE dirs' = dirs \cup {"secrets"} /\ GoCreate(p, Generated, TRUE, "certs")
    /\ UNCHANGED <<file, cert, stack, edits, faults>>

MakeCerts(p) ==
    /\ At(p, "certs")
    /\ IF "certs" \in dirs THEN Go(p, "failed") /\ UNCHANGED dirs
       ELSE dirs' = dirs \cup {"certs"} /\ Go(p, "sign")
    /\ UNCHANGED <<file, cert, stack, edits, faults>>

(* openssl writes the key, then the certificate; chmod makes the key       *)
(* readable to the broker.                                                 *)
Sign(p) ==
    /\ At(p, "sign")
    /\ cert' = CASE cert = "none" -> "key" [] cert = "key" -> "signed" [] OTHER -> "ready"
    /\ Go(p, IF cert' = "ready" THEN "alerts" ELSE "sign")
    /\ UNCHANGED <<file, dirs, stack, edits, faults>>

(* Regression: an existing secret is an error here too.                    *)
AddAlertsStrict(p) ==
    /\ At(p, "alerts")
    /\ GoCreate(p, <<"alert", "webhook">>, TRUE, "rules")
    /\ UNCHANGED <<disk, stack, edits, faults>>

(* add-alert-secrets.mjs.                                                  *)
AddAlerts(p) ==
    /\ At(p, "alerts")
    /\ GoCreate(p, <<"alert", "webhook">>, FALSE, "rules")
    /\ UNCHANGED <<disk, stack, edits, faults>>

(* read_secret: an empty file is refused, unless it is the webhook, where  *)
(* it disables delivery.                                                   *)
Whole(f) == file[f] # None /\ (file[f] # Empty \/ f = "webhook")

(* check_secrets, check_certificate (the key need not be readable to the   *)
(* broker), check_alert_configuration.                                     *)
SecretsWhole == \A f \in Secrets : Whole(f)
CertificateWhole == cert \in {"signed", "ready"}
RulesWhole == file["rules"] = "rules"

(* Regression: a secret only has to exist.                                 *)
CheckPresence(p) ==
    /\ At(p, "check")
    /\ Go(p, IF (\A f \in Secrets : file[f] # None) /\ CertificateWhole /\ RulesWhole
             THEN "up" ELSE "failed")
    /\ UNCHANGED <<disk, stack, edits, faults>>

Check(p) ==
    /\ At(p, "check")
    /\ Go(p, IF SecretsWhole /\ CertificateWhole /\ RulesWhole THEN "up" ELSE "failed")
    /\ UNCHANGED <<disk, stack, edits, faults>>
-----------------------------------------------------------------------------
(* docker compose up reads .env itself; a new volume takes its passwords   *)
(* from the files (initdb), the Telegraf role is created once (grants).    *)
UpDatabase(p) ==
    /\ At(p, "up")
    /\ volume' = [core |-> IF volume.core = None THEN file["core"] ELSE volume.core,
                  telegraf |-> IF volume.telegraf = None THEN file["telegraf"]
                               ELSE volume.telegraf]
    /\ run' = [run EXCEPT ![p].stage = "services",
                          ![p].compose = IF file["env"] = "bad" THEN "bad"
                                         ELSE Configured(file["env"])]
    /\ UNCHANGED <<disk, backend, stored, queued, edits, faults>>

UpServices(p) ==
    /\ At(p, "services")
    /\ backend' = run[p].compose
    /\ run' = [run EXCEPT ![p].stage = "post", ![p].sample = <<p, 0>>]
    /\ UNCHANGED <<disk, volume, stored, queued, edits, faults>>

(* Regression: each attempt has an id of its own.                          *)
SampleOfAttempt(p) == <<p, run[p].tries>>

(* smoke_development: one id for all attempts.                             *)
Sample(p) == run[p].sample

(* Another attempt, with the same sample, unless there were too many.      *)
Retry(p) ==
    run' = [run EXCEPT ![p].tries = @ + 1,
                       ![p].stage = IF run[p].tries + 1 < MaxTries THEN "post" ELSE "failed"]

(* POST: the API route stores before it answers, the MQTT route answers    *)
(* 202 and stores later.                                                   *)
Send(p) ==
    /\ stored' = IF backend = "api" THEN stored \cup {Sample(p)} ELSE stored
    /\ queued' = IF backend = "mqtt" THEN queued \cup {Sample(p)} ELSE queued
    /\ UNCHANGED <<volume, backend>>

(* Regression: any of 200, 201 and 202 will do.                            *)
PostAny(p) ==
    /\ At(p, "post") /\ backend \in Backends
    /\ Send(p)
    /\ Go(p, "get")
    /\ UNCHANGED <<disk, edits, faults>>

(* 202 must be the answer of the MQTT route and of no other: Compose may   *)
(* have read another .env, or Node-RED may have saved flows.               *)
Post(p) ==
    /\ At(p, "post") /\ backend \in Backends
    /\ Send(p)
    /\ Go(p, IF backend = run[p].values THEN "get" ELSE "failed")
    /\ UNCHANGED <<disk, edits, faults>>

(* No answer, or 502 to 504: the observation may have been taken or not.   *)
PostLost(p) ==
    /\ At(p, "post") /\ backend \in Backends /\ faults < MaxFaults
    /\ Send(p) \/ UNCHANGED stack
    /\ Retry(p)
    /\ faults' = faults + 1
    /\ UNCHANGED <<disk, edits>>

(* Node-RED does not start with any other backend.                         *)
Unreachable(p) ==
    /\ run[p].stage \in {"post", "get"} /\ backend \notin Backends
    /\ Retry(p)
    /\ UNCHANGED <<disk, stack, edits, faults>>

Get(p) ==
    /\ At(p, "get") /\ backend \in Backends /\ Sample(p) \in stored
    /\ Go(p, "alerting")
    /\ UNCHANGED <<disk, stack, edits, faults>>

(* 404, or no answer: each poll in vain is counted in MaxFaults.           *)
GetInVain(p) ==
    /\ At(p, "get") /\ backend \in Backends /\ faults < MaxFaults
    /\ Retry(p)
    /\ faults' = faults + 1
    /\ UNCHANGED <<disk, stack, edits>>

(* smoke_alerting: the evaluator has run.                                  *)
Alerting(p) ==
    /\ At(p, "alerting")
    /\ Go(p, "started")
    /\ UNCHANGED <<disk, stack, edits, faults>>
-----------------------------------------------------------------------------
(* Broker, Telegraf and the store: a sample is stored once per id.         *)
Deliver(s) ==
    /\ s \in queued
    /\ queued' = queued \ {s} /\ stored' = stored \cup {s}
    /\ UNCHANGED <<disk, volume, backend, run, edits, faults>>

(* A command fails, or the run is cut off, between any two steps.          *)
CutOff(p) ==
    /\ Active(p) /\ faults < MaxFaults
    /\ Go(p, "failed")
    /\ faults' = faults + 1
    /\ UNCHANGED <<disk, stack, edits>>

EditEnv(content) ==
    /\ edits < MaxEdits
    /\ file["env"] \notin {None, content}
    /\ file' = [file EXCEPT !["env"] = content]
    /\ edits' = edits + 1
    /\ UNCHANGED <<dirs, cert, stack, run, faults>>

(* What an operator can do about a reported failure, when nothing runs:    *)
(* give up a setup that never got its certificate, or remove a file that   *)
(* was left empty.  (Nothing can be restored that never was; an empty      *)
(* webhook is not reported.)                                               *)
Resting == \A p \in Runs : ~Active(p)
Discard ==
    /\ Resting
    /\ dirs # {} /\ ~CertificateWhole
    /\ dirs' = {} /\ cert' = "none"
    /\ file' = [f \in Files |-> IF f \in {"env", "rules"} THEN file[f] ELSE None]
    /\ UNCHANGED <<stack, run, edits, faults>>

RemoveEmpty(f) ==
    /\ Resting
    /\ "certs" \in dirs
    /\ f # "webhook" /\ file[f] = Empty
    /\ file' = [file EXCEPT ![f] = None]
    /\ UNCHANGED <<dirs, cert, stack, run, edits, faults>>

Work(p) ==
    \/ EnvFile(p) \/ RulesFile(p) \/ Create(p) \/ Fill(p) \/ Created(p)
    \/ ReadEnv(p) \/ LookAround(p) \/ SetupLook(p) \/ MakeSecrets(p)
    \/ MakeCerts(p) \/ Sign(p) \/ AddAlerts(p) \/ Check(p)
    \/ UpDatabase(p) \/ UpServices(p)
    \/ Post(p) \/ Unreachable(p) \/ Get(p) \/ Alerting(p)

Next ==
    \/ \E p \in Runs : Begin(p) \/ Work(p) \/ PostLost(p) \/ GetInVain(p) \/ CutOff(p)
    \/ \E s \in queued : Deliver(s)
    \/ \E content \in Backends \cup {"bad"} : EditEnv(content)
    \/ Discard
    \/ \E f \in Files : RemoveEmpty(f)

Spec == Init /\ [][Next]_vars

(* A run that began goes on, and what the broker has is delivered.         *)
FairSpec ==
    /\ Spec
    /\ \A p \in Runs : WF_vars(Work(p))
    /\ WF_vars(\E s \in queued : Deliver(s))
-----------------------------------------------------------------------------
Owners == Runs \cup {Old}
Stages == Ended \cup
    {"env", "create", "fill", "read", "look", "setup", "secrets", "certs", "sign",
     "alerts", "rules", "check", "up", "services", "post", "get", "alerting"}
Run == [stage : Stages, todo : Seq(Files), strict : BOOLEAN, next : Stages,
        values : Backends \cup {None}, compose : Backends \cup {"bad", None},
        tries : Nat, sample : (Runs \X Nat) \cup {None}]

(* Type correctness; secrets and certificates are inside their directories.*)
TypeOK ==
    /\ file \in [Files -> Owners \cup Backends \cup {"bad", "rules", Empty, None}]
    /\ dirs \subseteq {"secrets", "certs"}
    /\ cert \in {"none", "key", "signed", "ready"}
    /\ volume \in [{"core", "telegraf"} -> Owners \cup {None}]
    /\ backend \in Backends \cup {"bad", None}
    /\ stored \cup queued \subseteq Runs \X Nat
    /\ run \in [Runs -> Run]
    /\ edits \in 0..MaxEdits /\ faults \in 0..MaxFaults
    /\ "secrets" \notin dirs => \A f \in Secrets \cup {"operator"} : file[f] = None
    /\ "certs" \notin dirs => cert = "none"

(* The passwords on disk are those the database volume was made with, and  *)
(* services run only beside whole secrets, a signed certificate and whole  *)
(* rules, which an older run may still have been writing: a run            *)
(* refuses every state in which the operator may start over ("existing     *)
(* credentials were preserved", environment.py:281).                       *)
StackWhole ==
    /\ \A f \in {"core", "telegraf"} : volume[f] \in {None, file[f]}
    /\ backend # None => CertificateWhole /\ SecretsWhole /\ RulesWhole

BootstrapInv == TypeOK /\ StackWhole

(* Whoever runs services can log in to them: the passwords behind the      *)
(* hashes are in operator-credentials.json, complete and of the same       *)
(* generation, wherever the setup was cut off (environment.py:395).        *)
OperatorCanLogIn == backend # None => file["operator"] = file["hash"]

(* A run that reports success has put one sample into the database, and no *)
(* run ever two, whatever it had to repeat; and the backend it was         *)
(* configured for is the one that runs, unless another run has replaced it *)
(* since, although Compose reads .env for itself.                          *)
Samples(p) == {s \in stored \cup queued : s[1] = p}
SuccessTruthful ==
    \A p \in Runs :
        /\ \A s, t \in Samples(p) : s = t
        /\ At(p, "started") =>
             /\ Samples(p) \cap stored # {}
             /\ \/ backend = run[p].values
                \/ \E q \in Runs \ {p} : run[q].compose = backend

(* A written secret is never replaced; only a setup without a database may *)
(* be given up ("never rotate old ones", add-telegraf-secrets.mjs).        *)
CredentialsKept ==
    [][\A f \in Secrets \cup {"operator"} :
         file[f] \in Owners /\ file'[f] # file[f] => dirs' = {} /\ volume.core = None]_vars

(* With nothing half done on disk, a run that is left alone starts the     *)
(* stack: a first setup, an upgrade of an old installation, a rerun, or    *)
(* what follows a setup that was cut off anywhere and, where a check       *)
(* refuses it, tidied up (environment.py:277-295).  It is not left alone   *)
(* if a fault or an edit hits it or another run begins.                    *)
InOrder ==
    /\ file["env"] # "bad" /\ file["rules"] # Empty
    /\ \/ dirs = {}
       \/ cert = "ready" /\ \A f \in Secrets : f = "webhook" \/ file[f] # Empty
Disturbances == faults + edits
Alone(p) == \A q \in Runs \ {p} : ~Active(q)
QuietStart ==
    \A p \in Runs, n \in 0..MaxFaults + MaxEdits :
        (At(p, "env") /\ InOrder /\ Alone(p) /\ Disturbances = n)
            ~> At(p, "started") \/ ~Alone(p) \/ Disturbances > n
=============================================================================
