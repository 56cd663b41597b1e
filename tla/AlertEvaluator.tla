--------------------------- MODULE AlertEvaluator ---------------------------
(***************************************************************************)
(* The alerting schema of DanuBaaS (migrations/004 and 006): the scheduled *)
(* evaluator, rule edits through Store.SaveRule and its triggers, and      *)
(* acknowledgments, as concurrent transactions.                            *)
(*                                                                         *)
(* The evaluator and rule edits exclude each other with advisory lock      *)
(* 7349203 (the evaluator gives up when it is busy); acknowledgments take  *)
(* only the row lock of their alert.  The evaluator works on a private     *)
(* copy until it commits.  Observations arrive in sequence order, which is *)
(* what ObservationStore establishes.  Times are whole seconds.            *)
(***************************************************************************)
EXTENDS Integers, Sequences, FiniteSets

CONSTANTS Rules,       \* rule identifiers; each rule has a sensor of its own
          Params,      \* parameter sets a rule may be given (see ParamType)
          Readings,    \* water levels in metres that sensors report, and
          Other,       \* possibly a reading of another type or unit
          Offsets,     \* observation time minus arrival time, in seconds
          Savers,      \* clients of PUT/POST on rules, and the seeding job
          Ackers,      \* clients of POST .../acknowledgments
          BatchLimit,  \* arrivals per rule and run (1000 in the code)
          MaxTime,     \* bound: the clock stops here
          MaxLog,      \* bound: observations
          MaxVersion,  \* bound: edits of one rule
          MaxEvent,    \* bound: event ids of what is rolled back
          Evaluator,   \* the scheduled job as a lock holder
          None         \* nobody, or a NULL column

Levels == Readings \ {Other}
Kinds == {"level", "rise", "stale"}
ParamType ==
    [enabled : BOOLEAN, warning : Int, critical : Int, hysteresis : Nat,
     riseWarning : Nat, riseCritical : Nat, riseHysteresis : Nat, period : Nat,
     window : Nat, minimum : Nat, hold : Nat, stale : Nat]

(* The CHECK constraints of configuration.alert_rules.                     *)
ValidParams(p) ==
    /\ p \in ParamType
    /\ p.warning < p.critical /\ p.hysteresis < p.critical - p.warning
    /\ p.riseWarning > 0 /\ p.riseWarning < p.riseCritical
    /\ p.riseHysteresis < p.riseCritical - p.riseWarning
    /\ p.period >= 1 /\ p.window >= 2
    /\ p.minimum >= 1 /\ p.minimum < p.window
    /\ p.hold <= p.stale /\ p.minimum <= p.stale

ASSUME AlertAssumption ==
    /\ \A p \in Params : ValidParams(p)
    /\ Levels \subseteq Int
    /\ Offsets \subseteq Int
    /\ None \notin Savers \cup {Evaluator} /\ Evaluator \notin Savers
    /\ None \notin {"warning", "critical"}
    /\ {BatchLimit, MaxTime, MaxLog, MaxVersion, MaxEvent} \subseteq Nat
    /\ BatchLimit > 0

VARIABLES
    now,         \* the database clock
    log,         \* committed observations, in sequence order
    rule,        \* configuration.alert_rules; version 0 is "no such rule"
    db,          \* committed rule_state, condition_state, alerts and events
    acked,       \* numbers of the alerts with acknowledged_at set
    nextEvent,   \* identity of alerting.events
    lock,        \* holder of advisory lock 7349203
    job,         \* the evaluator: its run and its uncommitted copy of db
    saving,      \* per saver, the edit it is about to make
    acking,      \* per acker, the alert it has updated and its event id
    lastSuccess  \* evaluator_status.last_success_at

vars == <<now, log, rule, db, acked, nextEvent, lock, job, saving, acking, lastSuccess>>

Never == -1      \* a NULL timestamp
Calm == [severity |-> "normal", pending |-> None, since |-> Never]

(* rule_state at the start of a rule version: position, latest accepted    *)
(* reading; and, as history, where the position started and which arrivals *)
(* have been looked at, and which of them used, since.                     *)
Unseen(last) == [last |-> last, at |-> Never, value |-> None,
                 from |-> last, handled |-> {}, used |-> {}]
Resting == [phase |-> "idle", time |-> 0, high |-> 0, todo |-> {}, rule |-> None,
            batch |-> {}, work |-> None]

Init ==
    /\ now = 0
    /\ log = <<>>
    /\ rule = [r \in Rules |-> [version |-> 0, params |-> None, updated |-> 0]]
    /\ db = [track |-> [r \in Rules |-> Unseen(0)],
             cond |-> [r \in Rules |-> [k \in Kinds |-> Calm]],
             alerts |-> <<>>,
             events |-> {}]
    /\ acked = {}
    /\ nextEvent = 1
    /\ lock = None
    /\ job = Resting
    /\ saving = [c \in Savers |-> None]
    /\ acking = [c \in Ackers |-> None]
    /\ lastSuccess = Never
-----------------------------------------------------------------------------
Max(a, b) == IF a >= b THEN a ELSE b

(* Regression: the hysteresis band is also used to enter a severity.       *)
ClassifyInBand(v, warning, critical, hysteresis, previous) ==
    IF v >= critical - hysteresis THEN "critical"
    ELSE IF v >= warning - hysteresis THEN "warning" ELSE "normal"

(* alerting.classify: thresholds with hysteresis around the present        *)
(* severity.                                                               *)
Classify(v, warning, critical, hysteresis, previous) ==
    IF v >= critical \/ (previous = "critical" /\ v >= critical - hysteresis)
    THEN "critical"
    ELSE IF \/ v >= warning
            \/ previous \in {"warning", "critical"} /\ v >= warning - hysteresis
         THEN "warning"
         ELSE "normal"

Active(d, r, k) ==
    {a \in DOMAIN d.alerts : /\ d.alerts[a].rule = r
                             /\ d.alerts[a].kind = k
                             /\ d.alerts[a].active}

(* alerting.record_event on a copy d of the tables; the identity value is  *)
(* the next one not used by d itself.                                      *)
Fresh(d, base) == base + Cardinality(d.events)
RecordEvent(d, base, aid, type) ==
    [d EXCEPT !.events = @ \cup {[id |-> Fresh(d, base), alert |-> aid, type |-> type]}]

(* Pending hold of one condition, or of all of them.                       *)
ClearPending(d, r, ks) ==
    [d EXCEPT !.cond[r] = [k \in Kinds |->
        IF k \in ks THEN [@[k] EXCEPT !.pending = None, !.since = Never] ELSE @[k]]]

(* The row an alert gets when its condition is entered.                    *)
Opened(r, k, target) ==
    [rule |-> r, version |-> rule[r].version, kind |-> k, severity |-> target, active |-> TRUE]

(* Regression: resolving closes nothing.                                   *)
StillActive(alert) == alert

(* UPDATE alerting.alerts SET resolved_at=...                              *)
Resolved(alert) == [alert EXCEPT !.active = FALSE]

(* The part of alerting.transition after the hold: resolve, open, or       *)
(* change the severity of the active alert.                                *)
Enter(d, base, r, k, target) ==
    LET active == Active(d, r, k)
        aid == CHOOSE a \in active : TRUE
        moved ==
          IF target = "normal"
          THEN IF active = {} THEN d
               ELSE RecordEvent([d EXCEPT !.alerts[aid] = Resolved(@)],
                                base, aid, "resolved")
          ELSE IF active = {}
               THEN RecordEvent([d EXCEPT !.alerts = Append(@, Opened(r, k, target))],
                                base, Len(d.alerts) + 1, "opened")
               ELSE RecordEvent([d EXCEPT !.alerts[aid].severity = target], base, aid,
                                IF target = "critical" THEN "escalated" ELSE "downgraded")
    IN  [moved EXCEPT !.cond[r][k] = [Calm EXCEPT !.severity = target]]

(* Regression: a hold goes on when the pending severity changes.           *)
HeldSinceFirst(c, target, at) == IF c.pending # None THEN c.since ELSE at

(* The start of the hold for target: a change of target restarts it.       *)
HeldSince(c, target, at) == IF c.pending = target THEN c.since ELSE at

(* alerting.transition: the hold applies to opening and escalating, never  *)
(* to recovery, downgrade or missing data.                                 *)
Transition(d, base, r, k, target, at) ==
    LET c == d.cond[r][k]
        held == /\ target # "normal"
                /\ k # "stale"
                /\ ~(c.severity = "critical" /\ target = "warning")
        since == HeldSince(c, target, at)
    IN  CASE target = c.severity -> ClearPending(d, r, {k})
          [] target # c.severity /\ held /\ at - since < rule[r].params.hold ->
               [d EXCEPT !.cond[r][k] = [@ EXCEPT !.pending = target, !.since = since]]
          [] OTHER -> Enter(d, base, r, k, target)
-----------------------------------------------------------------------------
(* Row locks on alerting.alerts: the evaluator holds those of the rows it  *)
(* updated, each of which has an uncommitted event of the run, even one    *)
(* that was set back; an acknowledgment holds the one it updated.          *)
EvaluatorLocked ==
    IF job.phase \in {"rules", "items"}
    THEN {e.alert : e \in job.work.events \ db.events} ELSE {}

(* Regression: acknowledgments lock no row.                                *)
NoRowLocked == {}

AckLocked == {acking[c].alert : c \in {c \in Ackers : acking[c] # None}}

(* A new copy d of the evaluator's tables: event ids are consumed, and no  *)
(* row an acknowledgment has locked may be among those it changes.         *)
Rewrite(d) ==
    /\ {e.alert : e \in d.events \ job.work.events} \cap AckLocked = {}
    /\ nextEvent' = nextEvent + Cardinality(d.events) - Cardinality(job.work.events)

Base == nextEvent - Cardinality(job.work.events)

(* Time passes; observations are committed, possibly late or with a clock  *)
(* ahead of the server's.                                                  *)
Tick ==
    /\ now < MaxTime
    /\ now' = now + 1
    /\ UNCHANGED <<log, rule, db, acked, nextEvent, lock, job, saving, acking, lastSuccess>>

Observe(r, at, value) ==
    /\ Len(log) < MaxLog
    /\ at >= 0
    /\ log' = Append(log, [rule |-> r, at |-> at, value |-> value])
    /\ UNCHANGED <<now, rule, db, acked, nextEvent, lock, job, saving, acking, lastSuccess>>
-----------------------------------------------------------------------------
(* evaluate_rules: the clock is read before the lock is tried.             *)
Schedule ==
    /\ job.phase = "idle"
    /\ job' = [Resting EXCEPT !.phase = "start", !.time = now]
    /\ UNCHANGED <<now, log, rule, db, acked, nextEvent, lock, saving, acking, lastSuccess>>

(* pg_try_advisory_xact_lock fails: RETURN, and no success is recorded.    *)
Busy ==
    /\ job.phase = "start"
    /\ lock # None
    /\ job' = Resting
    /\ UNCHANGED <<now, log, rule, db, acked, nextEvent, lock, saving, acking, lastSuccess>>

EnabledRules == {r \in Rules : rule[r].version > 0 /\ rule[r].params.enabled}

Start ==
    /\ job.phase = "start"
    /\ lock = None
    /\ lock' = Evaluator
    /\ job' = [job EXCEPT !.phase = "rules", !.high = Len(log),
                          !.todo = EnabledRules, !.work = db]
    /\ UNCHANGED <<now, log, rule, db, acked, nextEvent, saving, acking, lastSuccess>>

(* Regression: the batch is cut in the order it is processed in.           *)
EarliestArrivals(r, last, high) ==
    LET new == {q \in 1..high : q > last /\ log[q].rule = r}
    IN  {q \in new : Cardinality({p \in new : log[p].at < log[q].at}) < BatchLimit}

(* The arrivals of rule r above its position: the first ones by sequence.  *)
Arrivals(r, last, high) ==
    LET new == {q \in 1..high : q > last /\ log[q].rule = r}
    IN  {q \in new : Cardinality({p \in new : p < q}) < BatchLimit}

NextRule(r) ==
    /\ job.phase = "rules"
    /\ r \in job.todo
    /\ job' = [job EXCEPT !.phase = "items", !.rule = r,
                          !.batch = Arrivals(r, job.work.track[r].last, job.high)]
    /\ UNCHANGED <<now, log, rule, db, acked, nextEvent, lock, saving, acking, lastSuccess>>

(* The filter on one arrival: other readings, the future, the time before  *)
(* this rule version, stale data, and anything that would rewind.          *)
Ignored(r, m, track) ==
    \/ m.value = Other
    \/ m.at > job.time
    \/ m.at < rule[r].updated
    \/ m.at < job.time - rule[r].params.stale
    \/ track.at # Never /\ m.at <= track.at

(* The earliest committed readings inside the rise window of m.            *)
Baselines(r, m) ==
    LET p == rule[r].params
        inside == {q \in DOMAIN log : /\ log[q].rule = r
                                      /\ log[q].value # Other
                                      /\ log[q].at >= m.at - p.window
                                      /\ log[q].at <= m.at - p.minimum}
    IN  {log[q] : q \in {q \in inside : \A o \in inside : log[q].at <= log[o].at}}

(* rate >= threshold, both multiplied by the (positive) time difference.   *)
RiseTarget(r, m, b, previous) ==
    LET p == rule[r].params
        dt == m.at - b.at
    IN  Classify((m.value - b.value) * p.period, p.riseWarning * dt,
                 p.riseCritical * dt, p.riseHysteresis * dt, previous)

(* One accepted arrival: gap handling, level, rise, and the new position.  *)
Accept(d, r, q, b) ==
    LET p == rule[r].params
        m == log[q]
        t == d.track[r]
        d1 == IF t.at = Never \/ m.at - t.at > p.stale
              THEN ClearPending(d, r, Kinds) ELSE d
        d2 == Transition(d1, Base, r, "level",
                         Classify(m.value, p.warning, p.critical, p.hysteresis,
                                  d1.cond[r]["level"].severity), m.at)
        d3 == IF b = None
              THEN ClearPending(d2, r, {"rise"})
              ELSE Transition(d2, Base, r, "rise",
                              RiseTarget(r, m, b, d2.cond[r]["rise"].severity), m.at)
    IN  [d3 EXCEPT !.track[r].at = m.at, !.track[r].value = m.value,
                   !.track[r].used = @ \cup {q}]

(* One turn of the loop over the batch, ordered by observation time; rows  *)
(* of the same time come in the order of their UUIDs, which is any.        *)
EvaluateItem(q) ==
    /\ job.phase = "items"
    /\ q \in job.batch
    /\ \A o \in job.batch : log[q].at <= log[o].at
    /\ LET r == job.rule
           m == log[q]
           seen == [job.work EXCEPT !.track[r].last = Max(@, q),
                                    !.track[r].handled = @ \cup {q}]
       IN  \E b \in IF Baselines(r, m) = {} THEN {None} ELSE Baselines(r, m) :
             LET d == IF Ignored(r, m, job.work.track[r]) THEN seen ELSE Accept(seen, r, q, b)
             IN  /\ Rewrite(d)
                 /\ job' = [job EXCEPT !.batch = @ \ {q}, !.work = d]
    /\ UNCHANGED <<now, log, rule, db, acked, lock, saving, acking, lastSuccess>>

(* coalesce(last_observed_at, updated_at).                                 *)
SilentSince(r, track) == IF track.at = Never THEN rule[r].updated ELSE track.at

(* After the loop: the missing-data condition, and its effect on holds.    *)
FinishRule ==
    /\ job.phase = "items"
    /\ job.batch = {}
    /\ LET r == job.rule
           late == job.time - SilentSince(r, job.work.track[r]) >= rule[r].params.stale
           d1 == Transition(job.work, Base, r, "stale",
                            IF late THEN "warning" ELSE "normal", job.time)
           d == IF late THEN ClearPending(d1, r, Kinds) ELSE d1
       IN  /\ Rewrite(d)
           /\ job' = [job EXCEPT !.phase = "rules", !.rule = None,
                                 !.todo = @ \ {r}, !.work = d]
    /\ UNCHANGED <<now, log, rule, db, acked, lock, saving, acking, lastSuccess>>

(* Commit: the copy replaces the tables; acknowledgment events that were   *)
(* committed meanwhile stay.                                               *)
CommitJob ==
    /\ job.phase = "rules"
    /\ job.todo = {}
    /\ db' = [job.work EXCEPT !.events = @ \cup db.events]
    /\ lastSuccess' = job.time
    /\ lock' = None
    /\ job' = Resting
    /\ UNCHANGED <<now, log, rule, acked, nextEvent, saving, acking>>

(* max_runtime, a crash or a storage error: nothing of the run remains     *)
(* but the identity values it used.                                        *)
AbortJob ==
    /\ job.phase \in {"rules", "items"}
    /\ nextEvent < MaxEvent
    /\ lock' = None
    /\ job' = Resting
    /\ UNCHANGED <<now, log, rule, db, acked, nextEvent, saving, acking, lastSuccess>>
-----------------------------------------------------------------------------
(* SaveRule waits for the lock, then reads the version.                    *)
BeginSave(c, r, params, version, seed) ==
    /\ saving[c] = None
    /\ lock = None
    /\ rule[r].version < MaxVersion
    /\ seed => version = 0
    /\ lock' = c
    /\ saving' = [saving EXCEPT ![c] = [rule |-> r, params |-> params,
                                        version |-> version, seed |-> seed]]
    /\ UNCHANGED <<now, log, rule, db, acked, nextEvent, job, acking, lastSuccess>>

(* Regression: the lock is the session's and survives the transaction.     *)
EndSaveKeepingLock(c) ==
    /\ lock' = lock
    /\ saving' = [saving EXCEPT ![c] = None]

(* Rollback or commit: the advisory lock goes with the transaction.        *)
EndSave(c) ==
    /\ lock' = None
    /\ saving' = [saving EXCEPT ![c] = None]

(* A seed of an existing rule, or a version that is not the stored one     *)
(* (0 for a new rule): nothing changes.                                    *)
RejectSave(c) ==
    /\ saving[c] # None
    /\ LET v == rule[saving[c].rule].version
       IN  (saving[c].seed /\ v > 0) \/ saving[c].version # v
    /\ EndSave(c)
    /\ UNCHANGED <<now, log, rule, db, acked, nextEvent, job, acking, lastSuccess>>

(* Regression: only alerts of a rule that is switched off are retired.     *)
RetiredWhenDisabled(r, params) ==
    {a \in DOMAIN db.alerts : db.alerts[a].rule = r /\ db.alerts[a].active /\ ~params.enabled}

(* The alerts an edit of rule r retires.                                   *)
Retired(r, params) ==
    {a \in DOMAIN db.alerts : db.alerts[a].rule = r /\ db.alerts[a].active}

(* INSERT or UPDATE with its triggers audit_rule and rule_changed: a new   *)
(* version, every active alert retired with an event, and a fresh start    *)
(* above the observations committed so far.                                *)
ApplySave(c) ==
    /\ saving[c] # None
    /\ LET r == saving[c].rule
           v == rule[r].version
           active == Retired(r, saving[c].params)
       IN  /\ saving[c].version = v
           /\ ~(saving[c].seed /\ v > 0)
           /\ active \cap AckLocked = {}
           /\ rule' = [rule EXCEPT ![r] = [version |-> v + 1, updated |-> now,
                                           params |-> saving[c].params]]
           /\ nextEvent' = nextEvent + Cardinality(active)
           /\ \E order \in [active -> 0..(Cardinality(active) - 1)] :
                /\ \A a, b \in active : order[a] = order[b] => a = b
                /\ db' = [track |-> [db.track EXCEPT ![r] = Unseen(Len(log))],
                          cond |-> [db.cond EXCEPT ![r] = [k \in Kinds |-> Calm]],
                          alerts |-> [a \in DOMAIN db.alerts |->
                            IF a \in active THEN Resolved(db.alerts[a])
                            ELSE db.alerts[a]],
                          events |-> db.events \cup
                            {[id |-> nextEvent + order[a], alert |-> a,
                              type |-> "configuration_changed"] : a \in active}]
    /\ EndSave(c)
    /\ UNCHANGED <<now, log, acked, job, acking, lastSuccess>>

(* A storage error or a request that ran out of time.                      *)
AbortSave(c) ==
    /\ saving[c] # None
    /\ EndSave(c)
    /\ UNCHANGED <<now, log, rule, db, acked, nextEvent, job, acking, lastSuccess>>
-----------------------------------------------------------------------------
(* WHERE id=... AND acknowledged_at IS NULL, and no one holds the row.     *)
Acknowledgeable(a) == a \notin acked \cup AckLocked \cup EvaluatorLocked

(* alerting.acknowledge: UPDATE ... WHERE acknowledged_at IS NULL locks    *)
(* the row and the event gets its id; the commit follows.  The function    *)
(* does not take lock 7349203.  A second acknowledgment waits for the row  *)
(* and then finds nothing to update.                                       *)
BeginAck(c, a) ==
    /\ acking[c] = None
    /\ Acknowledgeable(a)
    /\ acking' = [acking EXCEPT ![c] = [alert |-> a, id |-> nextEvent]]
    /\ nextEvent' = nextEvent + 1
    /\ UNCHANGED <<now, log, rule, db, acked, lock, job, saving, lastSuccess>>

CommitAck(c) ==
    /\ acking[c] # None
    /\ acked' = acked \cup {acking[c].alert}
    /\ db' = [db EXCEPT !.events = @ \cup {[id |-> acking[c].id, alert |-> acking[c].alert,
                                            type |-> "acknowledged"]}]
    /\ acking' = [acking EXCEPT ![c] = None]
    /\ UNCHANGED <<now, log, rule, nextEvent, lock, job, saving, lastSuccess>>

AbortAck(c) ==
    /\ acking[c] # None
    /\ acking[c].id <= MaxEvent
    /\ acking' = [acking EXCEPT ![c] = None]
    /\ UNCHANGED <<now, log, rule, db, acked, nextEvent, lock, job, saving, lastSuccess>>

JobStep == \/ Start
           \/ Busy
           \/ \E r \in Rules : NextRule(r)
           \/ \E q \in DOMAIN log : EvaluateItem(q)
           \/ FinishRule
           \/ CommitJob

SaveStep(c) == RejectSave(c) \/ ApplySave(c)

Next ==
    \/ Tick
    \/ \E r \in Rules, offset \in Offsets, value \in Readings :
         Observe(r, now + offset, value)
    \/ Schedule
    \/ JobStep
    \/ AbortJob
    \/ \E c \in Savers :
         \/ \E r \in Rules, p \in Params, v \in 0..MaxVersion, seed \in BOOLEAN :
              BeginSave(c, r, p, v, seed)
         \/ SaveStep(c)
         \/ AbortSave(c)
    \/ \E c \in Ackers :
         \/ \E a \in DOMAIN db.alerts : BeginAck(c, a)
         \/ CommitAck(c)
         \/ AbortAck(c)

Spec == Init /\ [][Next]_vars

(* The scheduler keeps running the job, and a run, an edit and an          *)
(* acknowledgment that have begun go on.  The try-lock has no queue, so an *)
(* endless stream of edits could meet every run; edits are made by people  *)
(* and by setup, and runs are not cut short for ever, so that in the end   *)
(* neither happens any more.                                               *)
EditBegins == \E c \in Savers : saving[c] = None /\ saving'[c] # None
FairSpec ==
    /\ Spec
    /\ WF_vars(Schedule)
    /\ WF_vars(JobStep)
    /\ \A c \in Savers : WF_vars(SaveStep(c))
    /\ \A c \in Ackers : WF_vars(CommitAck(c))
    /\ <>[][~AbortJob /\ ~EditBegins]_vars
-----------------------------------------------------------------------------
Severities == {"normal", "warning", "critical"}
Alert == [rule : Rules, version : Nat, kind : Kinds,
          severity : Severities \ {"normal"}, active : BOOLEAN]
Event == [id : Nat, alert : Nat, type : {"opened", "escalated", "downgraded", "resolved",
                                         "configuration_changed", "acknowledged"}]
Track == [last : Nat, at : Int, value : Levels \cup {None}, from : Nat,
          handled : SUBSET Nat, used : SUBSET Nat]
Condition == [severity : Severities, pending : {None, "warning", "critical"}, since : Int]
Tables ==
    [track : [Rules -> Track], cond : [Rules -> [Kinds -> Condition]],
     alerts : Seq(Alert), events : SUBSET Event]

(* Type correctness of the alerting tables and of the running job's copy.  *)
TypeOK ==
    /\ now \in Nat
    /\ log \in Seq([rule : Rules, at : Nat, value : Readings])
    /\ rule \in [Rules -> [version : Nat, params : Params \cup {None}, updated : Nat]]
    /\ db \in Tables
    /\ acked \subseteq DOMAIN db.alerts
    /\ nextEvent \in Nat
    /\ lock \in Savers \cup {Evaluator, None}
    /\ job.phase \in {"idle", "start", "rules", "items"}
    /\ job.time \in 0..now
    /\ job.work = None \/ job.work \in Tables

(* The state machine and the alerts agree: a condition is abnormal exactly *)
(* when one alert of that rule and kind is active, with that severity      *)
(* (condition_state against alerting.alerts, transition and rule_changed). *)
ConditionsMatchAlerts ==
    \A r \in Rules, k \in Kinds :
        LET active == Active(db, r, k)
            severity == db.cond[r][k].severity
        IN  IF severity = "normal" THEN active = {}
            ELSE \E a \in active : active = {a} /\ db.alerts[a].severity = severity

(* An active alert was raised by the current version of an enabled rule:   *)
(* an edit leaves nothing firing, even one that lands between the clock    *)
(* reading and the lock of a run.                                          *)
ActiveIsCurrent ==
    \A a \in DOMAIN db.alerts : db.alerts[a].active =>
        LET r == rule[db.alerts[a].rule]
        IN  r.params.enabled /\ r.version = db.alerts[a].version

EventsOf(a) == {e \in db.events : e.alert = a}
Closing == {"resolved", "configuration_changed"}

(* The event history tells the story of its alert: it begins with one      *)
(* "opened", its last severity change gives the severity, it is closed     *)
(* once, last, exactly when the alert is inactive, and it has one          *)
(* acknowledgment exactly when the alert is acknowledged.                  *)
HistoryWellFormed ==
    \A a \in DOMAIN db.alerts :
        LET story == {e \in EventsOf(a) : e.type # "acknowledged"}
            Last(S) == {e \in S : \A f \in S : f.id <= e.id}
            changes == {e \in story : e.type \in {"escalated", "downgraded"}}
        IN  /\ \E o \in story : /\ o.type = "opened"
                                /\ \A e \in EventsOf(a) : e = o \/ (e.id > o.id /\ e.type # "opened")
            /\ \A e \in Last(changes) :
                 db.alerts[a].severity = (IF e.type = "escalated" THEN "critical" ELSE "warning")
            /\ \A e \in story : e.type \in Closing => e \in Last(story)
            /\ db.alerts[a].active <=> \A e \in Last(story) : e.type \notin Closing
            /\ Cardinality(EventsOf(a) \ story) = IF a \in acked THEN 1 ELSE 0

(* The position of a rule passes no arrival that was not looked at, and    *)
(* counts none twice, although a batch is cut by sequence and processed in *)
(* observation time.                                                       *)
PositionExact ==
    \A r \in Rules :
        LET t == db.track[r]
        IN  t.handled = {q \in (t.from + 1)..t.last : log[q].rule = r}

(* The level severity is what thresholds and hysteresis say of the whole   *)
(* sequence of readings used: abnormal only if some reading reached the    *)
(* threshold and none since fell below it by more than the hysteresis;     *)
(* with no hold also conversely (classify called through transition, over  *)
(* several batches and runs; docs/alerting.md:70-76).                      *)
Reached(r, threshold) ==
    LET used == db.track[r].used
    IN  \E q \in used :
          /\ log[q].value >= threshold
          /\ \A o \in used : log[o].at > log[q].at =>
               log[o].value >= threshold - rule[r].params.hysteresis
LevelTruthful ==
    \A r \in {r \in Rules : rule[r].version > 0} :
        LET p == rule[r].params
            severity == db.cond[r]["level"].severity
        IN  /\ severity = "critical" => Reached(r, p.critical)
            /\ severity # "normal" => Reached(r, p.warning)
            /\ p.hold = 0 =>
                 /\ Reached(r, p.critical) => severity = "critical"
                 /\ Reached(r, p.warning) => severity # "normal"

(* No level alert on too short an episode: behind a severity lie readings  *)
(* that span the hold time, the rule used no reading in between that was   *)
(* below the threshold, and this however batches, gaps, edits and          *)
(* escalations fell (the hold in alerting.transition).                     *)
HoldRespected ==
    \A r \in Rules :
        LET severity == db.cond[r]["level"].severity
            p == rule[r].params
            threshold == IF severity = "critical" THEN p.critical ELSE p.warning
            used == db.track[r].used
        IN  severity # "normal" =>
              \E first, last \in used :
                 /\ log[last].at - log[first].at >= p.hold
                 /\ \A q \in used : log[q].at \in log[first].at..log[last].at =>
                      log[q].value >= threshold

(* The missing-data condition is what the last successful run and the      *)
(* stored position say, across edits, aborted runs and unlucky clocks.     *)
StaleExact ==
    \A r \in EnabledRules :
        LET t == db.track[r]
            since == IF t.at = Never THEN rule[r].updated ELSE t.at
        IN  (db.cond[r]["stale"].severity = "warning") <=>
                lastSuccess # Never /\ lastSuccess - since >= rule[r].params.stale

(* Conditions, alerts, histories and missing data tell one story, whatever *)
(* runs, edits, acknowledgments and rollbacks did in between.              *)
AlertInv == TypeOK /\ ConditionsMatchAlerts /\ HistoryWellFormed /\ StaleExact

(* Events of one alert become visible in the order of their ids, so paging *)
(* through /alerts/{id}/events with a cursor skips none; across alerts ids *)
(* may become visible out of order.                                        *)
EventsInOrder ==
    [][\A n \in db'.events \ db.events, e \in db.events :
         n.alert = e.alert => n.id > e.id]_vars

(* Every arrival for an enabled rule is eventually looked at, although the *)
(* evaluator gives up whenever an edit holds the lock.                     *)
ArrivalsEvaluated ==
    \A r \in Rules : \A q \in 1..MaxLog :
        (q <= Len(log) /\ log[q].rule = r /\ r \in EnabledRules)
            ~> (db.track[r].last >= q \/ r \notin EnabledRules)
=============================================================================
