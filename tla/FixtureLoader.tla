--------------------------- MODULE FixtureLoader ---------------------------
(***************************************************************************)
(* `make dev-test-data`: dev_test_data.py, its HTTP client in e2e.py and   *)
(* reset_test_data.sql, among the writers they share the database with:    *)
(* the broker, the evaluator, requests that outlived their run, and an     *)
(* operator.  Runs follow one another; each may be killed or fail at any   *)
(* point, and its reset, a transaction of psql in the container, may go on *)
(* without it.                                                             *)
(*                                                                         *)
(* The reset runs under READ COMMITTED: a statement sees what is committed *)
(* when it starts, others see its deletions after its commit.              *)
(*                                                                         *)
(* One level and one rise scenario are modelled, of the severity chosen in *)
(* Init, which decides the route of their live readings; with --at, or     *)
(* within an hour, every run has the same history.  The store and the      *)
(* evaluator are as in ObservationStore and AlertEvaluator, in one step.   *)
(***************************************************************************)
EXTENDS Naturals, FiniteSets

CONSTANTS MaxRuns,    \* bound: runs of the loader
          MaxTouches, \* bound: writes of the operator
          MaxFaults   \* bound: kills, lost answers, failing statements

ASSUME FixtureAssumption == {MaxRuns, MaxTouches, MaxFaults} \subseteq Nat

Runs == 1..MaxRuns
Operator == 0
Sensors == {"level", "rise"}    \* the reserved ones

VARIABLES
    backend,   \* INGESTION_BACKEND: "api" or "mqtt"
    severity,  \* "warning" or "critical"
    rows,      \* committed observations
    flight,    \* observations in the broker or in abandoned requests,
    asked,     \* and rules in abandoned requests
    rule,      \* per reserved sensor, its rule: [owner, seen], or NoRule
    alert,     \* per reserved sensor, the observation that raised its alert
    lock,      \* run whose reset holds lock 7349203, or Nobody
    reset,     \* per run, its reset: [stage, rules, gone] and, as history,
               \* the operator's observations it `found` with the lock
    loader,    \* the latest run: [run, status, pc, sent]
    touches, faults

data == <<rows, flight, asked, rule, alert>>
vars == <<backend, severity, data, lock, reset, loader, touches, faults>>

(* An observation: what it is for, its sensor and the run that made it.    *)
(* Identities of the history are the same in every run (uuid5).            *)
Row(part, sensor, n) == [part |-> part, sensor |-> sensor, run |-> n]
History(s) == Row("history", s, Operator)
First(s, n) == Row("first", s, n)
Final(n) == Row("final", "rise", n)
OperatorRow(s) == Row("operator", s, Operator)
Live == {"first", "final"}

NoRule == [owner |-> MaxRuns + 1, seen |-> {}]
NoAlert == Row("none", "none", Operator)
Nobody == 0

(* What a run does after its reset: load(rows), four times a rule, and     *)
(* load(first), load(final), verify_alerts.                                *)
Load(row, route) == [op |-> "load", row |-> row, route |-> route]
Rule(s) == [op |-> "rule", row |-> Row("none", s, Operator), route |-> "api"]
Verify == [op |-> "verify", row |-> NoAlert, route |-> "api"]
LiveRoute == IF severity = "warning" THEN "api" ELSE "node-red"
Script(n) ==
    <<Load(History("level"), "api"), Load(History("rise"), "node-red"),
      Rule("level"), Rule("rise"),
      Load(First("level", n), LiveRoute), Load(First("rise", n), LiveRoute),
      Load(Final(n), LiveRoute),
      Verify>>

NoReset == [stage |-> "none", rules |-> {}, gone |-> {}, found |-> {}]

Init ==
    /\ backend \in {"api", "mqtt"} /\ severity \in {"warning", "critical"}
    /\ rows = {} /\ flight = {} /\ asked = {}
    /\ rule = [s \in Sensors |-> NoRule]
    /\ alert = [s \in Sensors |-> NoAlert]
    /\ lock = Nobody
    /\ reset = [n \in Runs |-> NoReset]
    /\ loader = [run |-> 0, status |-> "failed", pc |-> 0, sent |-> FALSE]
    /\ touches = 0 /\ faults = 0
-----------------------------------------------------------------------------
Running == loader.status = "running"
Failed == loader' = [loader EXCEPT !.status = "failed"]
Fault == faults < MaxFaults /\ faults' = faults + 1

(* What deletions that are not committed yet make an INSERT wait for.      *)
Doomed == UNION {reset[n].gone : n \in {m \in Runs : reset[m].stage = "deleted"}}

(* Another run, once the last one is over; its psql asks for the lock.     *)
Begin ==
    /\ ~Running /\ loader.run < MaxRuns
    /\ loader' = [run |-> loader.run + 1, status |-> "running", pc |-> 0, sent |-> FALSE]
    /\ reset' = [reset EXCEPT ![loader.run + 1].stage = "waiting"]
    /\ UNCHANGED <<backend, severity, data, lock, touches, faults>>

Reserved == {r \in rows : r.sensor \in Sensors}
Foreign == {r \in Reserved : r.part = "operator"}
Locked(n) ==
    reset' = [reset EXCEPT ![n].stage = "locked", ![n].found = Foreign]

(* Regression: the reset does not take the lock of evaluator and edits.    *)
TakeLockUnserialized(n) ==
    /\ reset[n].stage = "waiting"
    /\ Locked(n)
    /\ UNCHANGED <<backend, severity, data, lock, loader, touches, faults>>

(* Waiters are served in their order.                                      *)
TakeLock(n) ==
    /\ reset[n].stage = "waiting" /\ lock = Nobody
    /\ \A m \in Runs : m < n => reset[m].stage # "waiting"
    /\ lock' = n
    /\ Locked(n)
    /\ UNCHANGED <<backend, severity, data, loader, touches, faults>>

EndReset(n, stage) ==
    /\ lock' = IF lock = n THEN Nobody ELSE lock
    /\ reset' = [reset EXCEPT ![n] = [NoReset EXCEPT !.stage = stage]]

(* Regression: only rules are checked.                                     *)
CheckOwnersOfRules(n) ==
    /\ reset[n].stage = "locked"
    /\ IF \E s \in Sensors : rule[s].owner = Operator
       THEN EndReset(n, "aborted")
       ELSE reset' = [reset EXCEPT ![n].stage = "checked"] /\ UNCHANGED lock
    /\ UNCHANGED <<backend, severity, data, loader, touches, faults>>

(* Refuse a reserved sensor with an operator's observation or rule.        *)
CheckOwners(n) ==
    /\ reset[n].stage = "locked"
    /\ IF \/ Foreign # {}
          \/ \E s \in Sensors : rule[s].owner = Operator
       THEN EndReset(n, "aborted")
       ELSE reset' = [reset EXCEPT ![n].stage = "checked"] /\ UNCHANGED lock
    /\ UNCHANGED <<backend, severity, data, loader, touches, faults>>

(* Regression: the rules of an earlier run stay.                           *)
DeleteNoRules(n) ==
    /\ reset[n].stage = "checked"
    /\ reset' = [reset EXCEPT ![n].stage = "ruled"]
    /\ UNCHANGED <<backend, severity, data, lock, loader, touches, faults>>

(* fixture_rules, with the alerts, events, notifications and states of     *)
(* these rules.                                                            *)
DeleteRules(n) ==
    /\ reset[n].stage = "checked"
    /\ reset' = [reset EXCEPT ![n].stage = "ruled",
                              ![n].rules = {s \in Sensors : rule[s] # NoRule}]
    /\ UNCHANGED <<backend, severity, data, lock, loader, touches, faults>>

DeleteMeasurements(n) ==
    /\ reset[n].stage = "ruled"
    /\ reset' = [reset EXCEPT ![n].stage = "measured", ![n].gone = Reserved]
    /\ UNCHANGED <<backend, severity, data, lock, loader, touches, faults>>

(* An observation stored in between still has its measurement: its foreign *)
(* key forbids the deletion.                                               *)
DeleteEvents(n) ==
    /\ reset[n].stage = "measured"
    /\ IF Reserved \subseteq reset[n].gone
       THEN reset' = [reset EXCEPT ![n].stage = "deleted"] /\ UNCHANGED lock
       ELSE EndReset(n, "aborted")
    /\ UNCHANGED <<backend, severity, data, loader, touches, faults>>

CommitReset(n) ==
    /\ reset[n].stage = "deleted"
    /\ rows' = rows \ reset[n].gone
    /\ rule' = [s \in Sensors |-> IF s \in reset[n].rules THEN NoRule ELSE rule[s]]
    /\ alert' = [s \in Sensors |-> IF s \in reset[n].rules THEN NoAlert ELSE alert[s]]
    /\ EndReset(n, "done")
    /\ UNCHANGED <<backend, severity, flight, asked, loader, touches, faults>>

(* A statement fails (an acknowledgment of a deleted alert, a foreign key) *)
(* or the connection is lost.                                              *)
AbortReset(n) ==
    /\ reset[n].stage \in {"waiting", "locked", "checked", "ruled", "measured", "deleted"}
    /\ Fault
    /\ EndReset(n, "aborted")
    /\ UNCHANGED <<backend, severity, data, loader, touches>>

(* reset_fixture_data: psql has ended.                                     *)
ResetEnds ==
    /\ Running /\ loader.pc = 0
    /\ reset[loader.run].stage \in {"done", "aborted"}
    /\ IF reset[loader.run].stage = "done" THEN loader' = [loader EXCEPT !.pc = 1] ELSE Failed
    /\ UNCHANGED <<backend, severity, data, lock, reset, touches, faults>>
-----------------------------------------------------------------------------
Step == Script(loader.run)[loader.pc]
At(op) == Running /\ loader.pc > 0 /\ Step.op = op
Advance == loader' = [loader EXCEPT !.pc = @ + 1, !.sent = FALSE]
Queued == Step.route = "node-red" /\ backend = "mqtt"

(* Regression: 202 from the MQTT route is taken for persistence.           *)
PostTrusting ==
    /\ At("load") /\ ~loader.sent
    /\ IF Queued THEN flight' = flight \cup {Step.row} /\ UNCHANGED rows
       ELSE /\ Step.row \notin Doomed
            /\ rows' = rows \cup {Step.row} /\ UNCHANGED flight
    /\ Advance
    /\ UNCHANGED <<backend, severity, asked, rule, alert, lock, reset, touches, faults>>

(* load: 200 or 201, the observation is stored, or has been; or 202.       *)
Post ==
    /\ At("load") /\ ~loader.sent
    /\ IF Queued THEN flight' = flight \cup {Step.row} /\ UNCHANGED rows
       ELSE /\ Step.row \notin Doomed
            /\ rows' = rows \cup {Step.row} /\ UNCHANGED flight
    /\ loader' = [loader EXCEPT !.sent = TRUE]
    /\ UNCHANGED <<backend, severity, asked, rule, alert, lock, reset, touches, faults>>

(* read_event, through both endpoints.                                     *)
Read ==
    /\ At("load") /\ loader.sent
    /\ Step.row \in rows
    /\ Advance
    /\ UNCHANGED <<backend, severity, data, lock, reset, touches, faults>>

(* admin POST: 201, or 409 when the id or the sensor has a rule.  A new    *)
(* rule looks at no observation that is stored already.                    *)
NewRule(s, n) ==
    rule' = [rule EXCEPT ![s] = [owner |-> n, seen |-> {r \in rows : r.sensor = s}]]
SaveRule ==
    /\ At("rule") /\ lock = Nobody
    /\ LET s == Step.row.sensor
       IN  IF rule[s] = NoRule THEN NewRule(s, loader.run) /\ Advance
           ELSE Failed /\ UNCHANGED rule
    /\ UNCHANGED <<backend, severity, rows, flight, asked, alert, lock, reset, touches, faults>>

(* Curl.request: no answer within its timeout, or the run is killed while  *)
(* it waits; the server may still do what it was asked.                    *)
Abandon ==
    /\ Running /\ loader.pc > 0 /\ ~loader.sent
    /\ Fault
    /\ CASE Step.op = "load" -> flight' = flight \cup {Step.row} /\ UNCHANGED asked
         [] Step.op = "rule" -> asked' = asked \cup {<<Step.row.sensor, loader.run>>} /\ UNCHANGED flight
         [] OTHER -> UNCHANGED <<flight, asked>>
    /\ Failed
    /\ UNCHANGED <<backend, severity, rows, rule, alert, lock, reset, touches>>

(* The run is killed, a command fails, or its patience ends.               *)
Kill ==
    /\ Running
    /\ Fault
    /\ Failed
    /\ UNCHANGED <<backend, severity, data, lock, reset, touches>>

(* active_alerts: every expected condition is active.                      *)
Raised == \A s \in Sensors : alert[s] # NoAlert
Evidence(n) == [s \in Sensors |-> IF s = "level" THEN First(s, n) ELSE Final(n)]

(* verify_alerts: all alerts are active; their histories must name the     *)
(* observations of this run.                                               *)
VerifyAlerts ==
    /\ At("verify")
    /\ Raised
    /\ IF alert = Evidence(loader.run)
       THEN loader' = [loader EXCEPT !.status = "success"] ELSE Failed
    /\ UNCHANGED <<backend, severity, data, lock, reset, touches, faults>>
-----------------------------------------------------------------------------
(* The broker, Telegraf and the adapter, or the server an abandoned        *)
(* request reached; what is stored already is a replay.                    *)
Deliver(r) ==
    /\ r \in flight /\ r \notin Doomed
    /\ flight' = flight \ {r} /\ rows' = rows \cup {r}
    /\ UNCHANGED <<backend, severity, asked, rule, alert, lock, reset, loader, touches, faults>>

DeliverRule(ask) ==
    /\ ask \in asked /\ lock = Nobody
    /\ asked' = asked \ {ask}
    /\ IF rule[ask[1]] = NoRule THEN NewRule(ask[1], ask[2]) ELSE UNCHANGED rule
    /\ UNCHANGED <<backend, severity, rows, flight, alert, lock, reset, loader, touches, faults>>

(* A request that was cancelled with its client, or a crash of the broker. *)
Lose ==
    /\ Fault
    /\ \/ \E r \in flight : flight' = flight \ {r} /\ UNCHANGED asked
       \/ \E ask \in asked : asked' = asked \ {ask} /\ UNCHANGED flight
    /\ UNCHANGED <<backend, severity, rows, rule, alert, lock, reset, loader, touches>>

(* What raises the alert of sensor s, as far as it is the owner's doing:   *)
(* nothing older than the rule.  A rise needs its first reading as the     *)
(* oldest in the window; live readings of an earlier run may be `near`     *)
(* enough to replace it.                                                   *)
New(s) == {r \in rows \ rule[s].seen : r.sensor = s}
Eligible(s, near) ==
    LET n == rule[s].owner
    IN  IF s = "level" THEN New(s) \cap {First(s, n)}
        ELSE IF near \/ First(s, n) \notin rows THEN {} ELSE New(s) \cap {Final(n)}

OlderLive(s) ==
    {r \in rows : r.sensor = s /\ r.part \in Live /\ r.run < rule[s].owner}

(* Among the owner's readings one of the operator may raise the alert, be  *)
(* the baseline of another that does, or clear it; with a later time it    *)
(* lets the others pass for old.                                           *)
Mixed(s) ==
    {alert[s], NoAlert} \cup
    {r \in New(s) : r.part = "operator" \/ (r.part \in Live /\ r.run = rule[s].owner)}

(* An evaluation run, if the lock is free; an alert that is active stays,  *)
(* as long as all readings are the owner's.                                *)
Evaluate(s) ==
    /\ lock = Nobody
    /\ rule[s] # NoRule
    /\ {r \in rows : r.sensor = s} # rule[s].seen
    /\ rule' = [rule EXCEPT ![s].seen = {r \in rows : r.sensor = s}]
    /\ IF OperatorRow(s) \in rows
       THEN \E r \in Mixed(s) : alert' = [alert EXCEPT ![s] = r]
       ELSE \E near \in IF OlderLive(s) = {} THEN {FALSE} ELSE BOOLEAN :
              \/ /\ alert[s] = NoAlert
                 /\ \E r \in Eligible(s, near) : alert' = [alert EXCEPT ![s] = r]
              \/ /\ alert[s] # NoAlert \/ Eligible(s, near) = {}
                 /\ UNCHANGED alert
    /\ UNCHANGED <<backend, severity, rows, flight, asked, lock, reset, loader, touches, faults>>

(* The operator stores an observation, or a rule for a reserved sensor.    *)
OperatorStores(s) ==
    /\ touches < MaxTouches
    /\ OperatorRow(s) \notin rows \cup Doomed
    /\ rows' = rows \cup {OperatorRow(s)}
    /\ touches' = touches + 1
    /\ UNCHANGED <<backend, severity, flight, asked, rule, alert, lock, reset, loader, faults>>

OperatorSaves(s) ==
    /\ touches < MaxTouches /\ lock = Nobody
    /\ rule[s] = NoRule
    /\ NewRule(s, Operator)
    /\ touches' = touches + 1
    /\ UNCHANGED <<backend, severity, rows, flight, asked, alert, lock, reset, loader, faults>>

ResetStep(n) ==
    \/ TakeLock(n) \/ CheckOwners(n) \/ DeleteRules(n)
    \/ DeleteMeasurements(n) \/ DeleteEvents(n) \/ CommitReset(n)

LoaderStep == ResetEnds \/ Post \/ Read \/ SaveRule \/ VerifyAlerts

Next ==
    \/ Begin \/ LoaderStep \/ Abandon \/ Kill \/ Lose
    \/ \E n \in Runs : ResetStep(n) \/ AbortReset(n)
    \/ \E r \in flight : Deliver(r)
    \/ \E ask \in asked : DeliverRule(ask)
    \/ \E s \in Sensors : Evaluate(s) \/ OperatorSaves(s)
    \/ \E s \in Sensors \cup {"other"} : OperatorStores(s)

Spec == Init /\ [][Next]_vars

(* The loader and psql go on, the evaluator is scheduled, the broker       *)
(* delivers.  Kills, failures and new runs are nobody's duty.              *)
FairSpec ==
    /\ Spec
    /\ WF_vars(LoaderStep)
    /\ \A n \in Runs : WF_vars(ResetStep(n))
    /\ \A s \in Sensors : WF_vars(Evaluate(s))
    /\ WF_vars(\E r \in flight : Deliver(r))
    /\ WF_vars(\E ask \in asked : DeliverRule(ask))
-----------------------------------------------------------------------------
Rows == [part : Live \cup {"history", "operator", "none"},
         sensor : Sensors \cup {"other", "none"}, run : 0..MaxRuns]

(* Type correctness.                                                       *)
TypeOK ==
    /\ backend \in {"api", "mqtt"} /\ severity \in {"warning", "critical"}
    /\ rows \cup flight \subseteq Rows
    /\ asked \subseteq Sensors \X Runs
    /\ rule \in [Sensors -> [owner : 0..MaxRuns + 1, seen : SUBSET Rows]]
    /\ alert \in [Sensors -> Rows]
    /\ lock \in 0..MaxRuns
    /\ \A n \in Runs : reset[n].rules \subseteq Sensors /\ reset[n].gone \subseteq rows
    /\ loader.run \in 0..MaxRuns /\ loader.pc \in 0..8
    /\ touches \in 0..MaxTouches /\ faults \in 0..MaxFaults

(* A run that reported success (alerts-<run>.json) told the truth, and it  *)
(* stays true until the next run: its history and live readings are        *)
(* stored, the rules are its own, and so is the evidence of their alerts,  *)
(* unless the operator mixes his readings with them; whatever earlier runs *)
(* left on its way (docs/test-data.md:50-95).                              *)
ReportTruthful ==
    loader.status = "success" =>
        /\ \A i \in {1, 2, 5, 6, 7} : Script(loader.run)[i].row \in rows
        /\ \A s \in Sensors : rule[s].owner = loader.run
        /\ \A s \in Sensors : OperatorRow(s) \notin rows => alert[s] = Evidence(loader.run)[s]

FixtureInv == TypeOK /\ ReportTruthful

(* The reset never removes an operator's rule, nor an observation on a     *)
(* sensor that is not reserved, nor one that was on a reserved sensor when *)
(* the reset got its lock (reset_test_data.sql:13-27).                     *)
OperatorKept ==
    [][/\ \A s \in Sensors : rule[s].owner = Operator => rule'[s].owner = Operator
       /\ \A r \in rows \ rows' :
            r.part = "operator" =>
                r \in Foreign /\ \A n \in Runs : r \notin reset[n].found]_vars

(* What the script and docs/test-data.md:62 say outright: it "refuses to   *)
(* proceed if reserved sensor IDs contain non-fixture observations".       *)
OperatorRetained ==
    [][\A r \in rows : r.part = "operator" => r \in rows']_vars

(* A run that starts when nothing is on its way and nothing foreign is on  *)
(* the reserved sensors, and is left alone, succeeds, whatever state the   *)
(* earlier runs were killed in, and though the reset of one may still be   *)
(* at work (docs/test-data.md:69).                                         *)
Disturbances == touches + faults
QuietReload ==
    \A n \in Runs, k \in 0..MaxTouches + MaxFaults :
        (/\ loader.run = n /\ Running /\ reset[n].stage = "waiting"
         /\ flight = {} /\ asked = {}
         /\ Foreign = {}
         /\ \A s \in Sensors : rule[s].owner # Operator
         /\ Disturbances = k)
            ~> (loader.run = n /\ loader.status = "success") \/ Disturbances > k
=============================================================================
