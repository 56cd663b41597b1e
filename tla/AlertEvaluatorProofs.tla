------------------------ MODULE AlertEvaluatorProofs ------------------------
(***************************************************************************)
(* Proofs about AlertEvaluator: what its operators do to a copy of the     *)
(* alerting tables, the inductive invariant, and the safety properties,    *)
(* for every set of rules, parameters, readings, clients and bounds.       *)
(***************************************************************************)
EXTENDS AlertEvaluator, FiniteSetTheorems, SequenceTheorems, TLAPS

Running == job.phase \in {"rules", "items"}

(* A copy of the tables, with finitely many events.                        *)
Sound(d) == d \in Tables /\ IsFiniteSet(d.events)

Aid(d, r, k) == CHOOSE a \in Active(d, r, k) : TRUE

(* The case of Transition in which the hold goes on.                       *)
Holding(c, r, k, target, at) ==
    /\ target # c.severity
    /\ target # "normal"
    /\ k # "stale"
    /\ ~(c.severity = "critical" /\ target = "warning")
    /\ at - HeldSince(c, target, at) < rule[r].params.hold

(* The three values a condition may be given.                              *)
Cleared(c) == [c EXCEPT !.pending = None, !.since = Never]
Pended(c, target, at) == [c EXCEPT !.pending = target, !.since = HeldSince(c, target, at)]
Entered(target) == [Calm EXCEPT !.severity = target]
-----------------------------------------------------------------------------
(* Calm and Entered conditions and cleared ones are conditions.            *)
LEMMA ConditionTypes ==
    /\ Calm \in Condition
    /\ \A t \in Severities : Entered(t) \in Condition
    /\ \A c \in Condition : Cleared(c) \in Condition
    /\ \A c \in Condition, t \in {"warning", "critical"}, at \in Int :
         Pended(c, t, at) \in Condition
<1>1. Calm \in Condition
  BY DEF Calm, Condition, Severities, Never
<1>2. \A t \in Severities : Entered(t) \in Condition
  BY DEF Entered, Condition, Never, Severities, Calm
<1>3. ASSUME NEW c \in Condition
      PROVE  Cleared(c) \in Condition
  <2>1. \A n \in Int : [c EXCEPT !.pending = None, !.since = n] \in Condition
    BY DEF Condition
  <2>2. Never \in Int
    BY DEF Never
  <2> QED BY <2>1, <2>2, Zenon DEF Cleared
<1>4. ASSUME NEW c \in Condition, NEW t \in {"warning", "critical"}, NEW at \in Int
      PROVE  Pended(c, t, at) \in Condition
  BY DEF Pended, HeldSince, Condition
<1> QED BY <1>1, <1>2, <1>3, <1>4

(* What they hold.                                                         *)
LEMMA ConditionFields ==
    ASSUME NEW c \in Condition
    PROVE  /\ Cleared(c).severity = c.severity /\ Cleared(c).pending = None
           /\ \A t, at : /\ Pended(c, t, at).severity = c.severity
                         /\ Pended(c, t, at).pending = t
                         /\ Pended(c, t, at).since = HeldSince(c, t, at)
           /\ \A t : Entered(t).severity = t /\ Entered(t).pending = None
<1>1. \A t : Entered(t).severity = t /\ Entered(t).pending = None
  BY DEF Entered, Calm
<1>2. \A n : LET z == [c EXCEPT !.pending = None, !.since = n]
             IN  z.severity = c.severity /\ z.pending = None
  BY DEF Condition
<1>3. \A t, at : /\ Pended(c, t, at).severity = c.severity
                 /\ Pended(c, t, at).pending = t
                 /\ Pended(c, t, at).since = HeldSince(c, t, at)
  BY DEF Pended, Condition
<1> QED BY <1>1, <1>2, <1>3 DEF Cleared

(* Clearing the holds of some conditions of r leaves everything else.      *)
LEMMA ClearShape ==
    ASSUME NEW d, Sound(d), NEW r \in Rules, NEW ks \in SUBSET Kinds
    PROVE  LET c == ClearPending(d, r, ks)
           IN  /\ Sound(c)
               /\ c.track = d.track /\ c.alerts = d.alerts /\ c.events = d.events
               /\ \A o \in Rules \ {r} : c.cond[o] = d.cond[o]
               /\ \A k \in Kinds :
                    c.cond[r][k] = IF k \in ks THEN Cleared(d.cond[r][k]) ELSE d.cond[r][k]
<1> DEFINE c == ClearPending(d, r, ks)
           row == [k \in Kinds |-> IF k \in ks THEN Cleared(d.cond[r][k]) ELSE d.cond[r][k]]
<1>1. c = [d EXCEPT !.cond = [d.cond EXCEPT ![r] = row]]
  BY DEF ClearPending, Cleared, Sound, Tables
<1>2. row \in [Kinds -> Condition]
  BY ConditionTypes DEF Sound, Tables
<1> HIDE DEF row, c
<1>3. [d.cond EXCEPT ![r] = row] \in [Rules -> [Kinds -> Condition]]
  BY <1>2 DEF Sound, Tables
<1>4. /\ c.track = d.track /\ c.alerts = d.alerts /\ c.events = d.events
      /\ c.cond = [d.cond EXCEPT ![r] = row]
  BY <1>1 DEF Sound, Tables
<1>5. Sound(c)
  BY <1>1, <1>3 DEF Sound, Tables
<1>6. c.cond[r] = row /\ \A o \in Rules \ {r} : c.cond[o] = d.cond[o]
  BY <1>4 DEF Sound, Tables
<1>7. \A k \in Kinds : row[k] = IF k \in ks THEN Cleared(d.cond[r][k]) ELSE d.cond[r][k]
  BY DEF row
<1> QED BY <1>4, <1>5, <1>6, <1>7 DEF c

NewEvent(d, base, aid, type) ==
    [id |-> base + Cardinality(d.events), alert |-> aid, type |-> type]

(* What entering a severity does to the alerts and the events.             *)
Entering(d, e, base, r, k, target) ==
    LET aid == Aid(d, r, k)
    IN  \/ /\ target = "normal"
           /\ Active(d, r, k) = {}
           /\ e.alerts = d.alerts
           /\ e.events = d.events
        \/ /\ target = "normal"
           /\ aid \in Active(d, r, k)
           /\ e.alerts = [d.alerts EXCEPT ![aid] = [@ EXCEPT !.active = FALSE]]
           /\ e.events = d.events \cup {NewEvent(d, base, aid, "resolved")}
        \/ /\ target # "normal"
           /\ Active(d, r, k) = {}
           /\ e.alerts = Append(d.alerts, Opened(r, k, target))
           /\ e.events = d.events \cup {NewEvent(d, base, Len(d.alerts) + 1, "opened")}
        \/ /\ target # "normal"
           /\ aid \in Active(d, r, k)
           /\ e.alerts = [d.alerts EXCEPT ![aid] = [@ EXCEPT !.severity = target]]
           /\ e.events = d.events \cup
                {NewEvent(d, base, aid, IF target = "critical" THEN "escalated" ELSE "downgraded")}

(* The condition of r and k changes to c, every other one stays.           *)
Rewritten(d, e, r, k, c) ==
    /\ e.track = d.track
    /\ e.cond[r][k] = c
    /\ \A j \in Kinds \ {k} : e.cond[r][j] = d.cond[r][j]
    /\ \A o \in Rules \ {r} : e.cond[o] = d.cond[o]

WithCond(d, r, k, c) == [d EXCEPT !.cond[r][k] = c]
WithAlerts(d, alerts) == [d EXCEPT !.alerts = alerts]

(* Setting one condition.                                                  *)
LEMMA CondShape ==
    ASSUME NEW d, Sound(d), NEW r \in Rules, NEW k \in Kinds, NEW c \in Condition
    PROVE  LET e == WithCond(d, r, k, c)
           IN  /\ Sound(e) /\ e.alerts = d.alerts /\ e.events = d.events
               /\ Rewritten(d, e, r, k, c)
<1> DEFINE e == WithCond(d, r, k, c)
           row == [d.cond[r] EXCEPT ![k] = c]
<1>1. e = [d EXCEPT !.cond = [d.cond EXCEPT ![r] = row]]
  BY DEF Sound, Tables, WithCond
<1>2. /\ row \in [Kinds -> Condition]
      /\ row[k] = c
      /\ \A j \in Kinds \ {k} : row[j] = d.cond[r][j]
  BY DEF Sound, Tables
<1> HIDE DEF row, e
<1>3. /\ [d.cond EXCEPT ![r] = row] \in [Rules -> [Kinds -> Condition]]
      /\ [d.cond EXCEPT ![r] = row][r] = row
      /\ \A o \in Rules \ {r} : [d.cond EXCEPT ![r] = row][o] = d.cond[o]
  BY <1>2 DEF Sound, Tables
<1>4. /\ Sound(e) /\ e.alerts = d.alerts /\ e.events = d.events
      /\ e.track = d.track /\ e.cond = [d.cond EXCEPT ![r] = row]
  BY <1>1, <1>3 DEF Sound, Tables
<1>5. Rewritten(d, e, r, k, c)
  BY <1>2, <1>3, <1>4 DEF Rewritten
<1> QED BY <1>4, <1>5 DEF e

(* Changing the alerts and recording an event.                             *)
LEMMA RecordShape ==
    ASSUME NEW d, Sound(d), NEW alerts \in Seq(Alert), NEW aid \in Nat, NEW base \in Int,
           base + Cardinality(d.events) \in Nat,
           NEW type \in {"opened", "escalated", "downgraded", "resolved"}
    PROVE  LET e == RecordEvent(WithAlerts(d, alerts), base, aid, type)
           IN  /\ Sound(e)
               /\ e.track = d.track /\ e.cond = d.cond /\ e.alerts = alerts
               /\ e.events = d.events \cup {NewEvent(d, base, aid, type)}
<1> DEFINE c == WithAlerts(d, alerts)
           new == NewEvent(d, base, aid, type)
<1>1. /\ c \in Tables /\ c.track = d.track /\ c.cond = d.cond
      /\ c.alerts = alerts /\ c.events = d.events
  BY DEF Sound, Tables, WithAlerts
<1> HIDE DEF c
<1>2. RecordEvent(c, base, aid, type) = [c EXCEPT !.events = c.events \cup {new}]
  BY <1>1 DEF RecordEvent, Fresh, NewEvent
<1>3. new \in Event
  BY DEF Event, NewEvent
<1> HIDE DEF new
<1>4. IsFiniteSet(d.events \cup {new})
  BY FS_AddElement DEF Sound
<1>5. d.events \cup {new} \in SUBSET Event
  BY <1>3 DEF Sound, Tables
<1> QED BY <1>1, <1>2, <1>4, <1>5 DEF Sound, Tables, c, new

(* Entering a severity sets the condition, and resolves, opens or changes  *)
(* the active alert (alerting.transition after the hold).                  *)
LEMMA EnterShape ==
    ASSUME NEW d, Sound(d), NEW r \in Rules, NEW k \in Kinds, NEW target \in Severities,
           NEW base \in Int, base + Cardinality(d.events) \in Nat, rule[r].version \in Nat
    PROVE  LET e == Enter(d, base, r, k, target)
           IN  /\ Sound(e)
               /\ Rewritten(d, e, r, k, Entered(target))
               /\ Entering(d, e, base, r, k, target)
<1> DEFINE active == Active(d, r, k)
           aid == Aid(d, r, k)
           e == Enter(d, base, r, k, target)
           c == Entered(target)
<1>1. /\ active \subseteq DOMAIN d.alerts
      /\ active # {} => aid \in active
      /\ d.alerts \in Seq(Alert)
  BY DEF Active, Aid, Sound, Tables
<1>2. c \in Condition
  BY ConditionTypes
<1>3. CASE target = "normal" /\ active = {}
  <2>1. e = WithCond(d, r, k, c)
    BY <1>3 DEF Enter, Entered, WithCond, WithAlerts
  <2> QED BY <1>2, <1>3, <2>1, CondShape DEF Entering
<1>4. CASE target = "normal" /\ active # {}
  <2> DEFINE alerts == [d.alerts EXCEPT ![aid] = [@ EXCEPT !.active = FALSE]]
             m == RecordEvent(WithAlerts(d, alerts), base, aid, "resolved")
  <2>1. e = WithCond(m, r, k, c)
    BY <1>4 DEF Enter, Entered, Aid, Resolved, WithCond, WithAlerts
  <2>1a. d.alerts[aid] \in Alert
    BY <1>1, <1>4
  <2>2. [d.alerts[aid] EXCEPT !.active = FALSE] \in Alert
    BY <2>1a DEF Alert
  <2>3. alerts \in Seq(Alert) /\ aid \in Nat
    BY <1>1, <1>4, <2>2
  <2>4. /\ Sound(m) /\ m.track = d.track /\ m.cond = d.cond /\ m.alerts = alerts
        /\ m.events = d.events \cup {NewEvent(d, base, aid, "resolved")}
    <3> HIDE DEF alerts
    <3> QED BY <2>3, RecordShape
  <2> HIDE DEF m, e, c
  <2>5. /\ Sound(e) /\ e.alerts = alerts /\ e.events = m.events
        /\ Rewritten(m, e, r, k, c)
    BY <1>2, <2>1, <2>4, CondShape
  <2> QED BY <1>1, <1>4, <2>4, <2>5 DEF Entering, Rewritten, e, c
<1>5. CASE target # "normal" /\ active = {}
  <2> DEFINE alerts == Append(d.alerts, Opened(r, k, target))
             m == RecordEvent(WithAlerts(d, alerts), base, Len(d.alerts) + 1, "opened")
  <2>1. e = WithCond(m, r, k, c)
    BY <1>5 DEF Enter, Entered, WithCond, WithAlerts
  <2>2. Opened(r, k, target) \in Alert
    BY <1>5 DEF Alert, Opened
  <2>3. alerts \in Seq(Alert) /\ Len(d.alerts) + 1 \in Nat
    BY <1>1, <2>2
  <2>4. /\ Sound(m) /\ m.track = d.track /\ m.cond = d.cond /\ m.alerts = alerts
        /\ m.events = d.events \cup {NewEvent(d, base, Len(d.alerts) + 1, "opened")}
    <3> HIDE DEF alerts
    <3> QED BY <2>3, RecordShape
  <2> HIDE DEF m, e, c
  <2>5. /\ Sound(e) /\ e.alerts = alerts /\ e.events = m.events
        /\ Rewritten(m, e, r, k, c)
    BY <1>2, <2>1, <2>4, CondShape
  <2> QED BY <1>5, <2>4, <2>5 DEF Entering, Rewritten, e, c
<1>6. CASE target # "normal" /\ active # {}
  <2> DEFINE type == IF target = "critical" THEN "escalated" ELSE "downgraded"
             alerts == [d.alerts EXCEPT ![aid] = [@ EXCEPT !.severity = target]]
             m == RecordEvent(WithAlerts(d, alerts), base, aid, type)
  <2>1. e = WithCond(m, r, k, c)
    BY <1>6 DEF Enter, Entered, Aid, WithCond, WithAlerts
  <2>2. d.alerts[aid] \in Alert
    BY <1>1, <1>6
  <2>3. [d.alerts[aid] EXCEPT !.severity = target] \in Alert
    BY <1>6, <2>2 DEF Alert
  <2>4. alerts \in Seq(Alert) /\ aid \in Nat
    BY <1>1, <1>6, <2>2, <2>3
  <2>5. type \in {"opened", "escalated", "downgraded", "resolved"}
    OBVIOUS
  <2> HIDE DEF type, alerts
  <2>6. /\ Sound(m) /\ m.track = d.track /\ m.cond = d.cond /\ m.alerts = alerts
        /\ m.events = d.events \cup {NewEvent(d, base, aid, type)}
    BY <2>4, <2>5, RecordShape
  <2> HIDE DEF m, e, c
  <2>7. /\ Sound(e) /\ e.alerts = alerts /\ e.events = m.events
        /\ Rewritten(m, e, r, k, c)
    BY <1>2, <2>1, <2>6, CondShape
  <2> QED BY <1>1, <1>6, <2>6, <2>7 DEF Entering, Rewritten, e, c, type, alerts
<1> QED BY <1>3, <1>4, <1>5, <1>6

(* The three outcomes of alerting.transition.                              *)
LEMMA TransitionShape ==
    ASSUME NEW d, Sound(d), NEW r \in Rules, NEW k \in Kinds, NEW target \in Severities,
           NEW base \in Int, base + Cardinality(d.events) \in Nat, NEW at \in Int,
           rule[r].version \in Nat
    PROVE  LET e == Transition(d, base, r, k, target, at)
               c == d.cond[r][k]
           IN  /\ Sound(e)
               /\ \/ /\ target = c.severity
                     /\ e.alerts = d.alerts /\ e.events = d.events
                     /\ Rewritten(d, e, r, k, Cleared(c))
                  \/ /\ Holding(c, r, k, target, at)
                     /\ e.alerts = d.alerts /\ e.events = d.events
                     /\ Rewritten(d, e, r, k, Pended(c, target, at))
                  \/ /\ target # c.severity
                     /\ ~Holding(c, r, k, target, at)
                     /\ Entering(d, e, base, r, k, target)
                     /\ Rewritten(d, e, r, k, Entered(target))
<1> DEFINE e == Transition(d, base, r, k, target, at)
           c == d.cond[r][k]
<1>0. c \in Condition
  BY DEF Sound, Tables
<1>1. CASE target = c.severity
  <2>1. e = ClearPending(d, r, {k})
    BY <1>1 DEF Transition
  <2>2. {k} \in SUBSET Kinds
    OBVIOUS
  <2>3. /\ Sound(e) /\ e.track = d.track /\ e.alerts = d.alerts /\ e.events = d.events
        /\ \A o \in Rules \ {r} : e.cond[o] = d.cond[o]
        /\ \A j \in Kinds :
             e.cond[r][j] = IF j \in {k} THEN Cleared(d.cond[r][j]) ELSE d.cond[r][j]
    BY <2>1, <2>2, ClearShape
  <2>4. Rewritten(d, e, r, k, Cleared(c))
    BY <2>3 DEF Rewritten
  <2> QED BY <1>1, <2>3, <2>4
<1>2. CASE Holding(c, r, k, target, at)
  <2>1. e = WithCond(d, r, k, Pended(c, target, at))
    BY <1>2 DEF Transition, Holding, Pended, WithCond
  <2>2. Pended(c, target, at) \in Condition
    BY <1>0, <1>2, ConditionTypes DEF Holding, Severities
  <2> QED BY <1>2, <2>1, <2>2, CondShape
<1>3. CASE target # c.severity /\ ~Holding(c, r, k, target, at)
  <2>1. e = Enter(d, base, r, k, target)
    BY <1>3 DEF Transition, Holding
  <2> QED BY <1>3, <2>1, EnterShape
<1> QED BY <1>1, <1>2, <1>3
-----------------------------------------------------------------------------
(* An active alert was raised by the current version of an enabled rule.   *)
Current(d, rules) ==
    \A a \in DOMAIN d.alerts : d.alerts[a].active =>
        LET r == rules[d.alerts[a].rule]
        IN  r.params.enabled /\ r.version = d.alerts[a].version /\ r.version > 0

(* A condition is abnormal exactly when one alert of it is active.         *)
Matched(d) ==
    \A r \in Rules, k \in Kinds :
        LET active == Active(d, r, k)
            severity == d.cond[r][k].severity
        IN  IF severity = "normal" THEN active = {}
            ELSE \E a \in active : active = {a} /\ d.alerts[a].severity = severity

(* The story of one alert a with severity and active flag, in events all.  *)
Story(all, a, severity, active) ==
    /\ \E o \in all :
         /\ o.alert = a /\ o.type = "opened"
         /\ \A e \in all : e.alert = a =>
              e = o \/ (e.id > o.id /\ e.type # "opened")
    /\ \A e \in all :
         /\ e.alert = a
         /\ e.type \in {"escalated", "downgraded"}
         /\ \A f \in all : /\ f.alert = a
                           /\ f.type \in {"escalated", "downgraded"}
                           => f.id <= e.id
         => severity = (IF e.type = "escalated" THEN "critical" ELSE "warning")
    /\ \A e, f \in all :
         e.alert = a /\ f.alert = a /\ e.type \in Closing /\ f.type # "acknowledged"
         => f.id <= e.id
    /\ active <=> \A e \in all : e.alert = a => e.type \notin Closing

(* The history in d and in the events committed since it was copied.       *)
Told(d, committed) ==
    /\ \A e \in d.events \cup committed : e.alert \in DOMAIN d.alerts
    /\ \A a \in DOMAIN d.alerts :
         Story(d.events \cup committed, a, d.alerts[a].severity, d.alerts[a].active)

(* What a copy satisfies, by itself and with the events committed since;   *)
(* all their ids are below bound.                                          *)
Good(d, committed, bound, rules) ==
    /\ Sound(d)
    /\ Current(d, rules)
    /\ Matched(d)
    /\ Told(d, committed)
    /\ \A e \in d.events \cup committed : e.id < bound

(* e is d with more alerts and more events, of ids not below bound.        *)
Grows(d, e, bound) ==
    /\ Len(d.alerts) <= Len(e.alerts)
    /\ d.events \subseteq e.events
    /\ \A x \in e.events \ d.events : x.id >= bound /\ x.type # "acknowledged"

(* The same alerts, events and severities: nothing is lost.                *)
LEMMA GoodSame ==
    ASSUME NEW d, NEW committed, NEW bound \in Int, Good(d, committed, bound, rule),
           NEW e, Sound(e), e.alerts = d.alerts, e.events = d.events,
           \A r \in Rules, k \in Kinds : e.cond[r][k].severity = d.cond[r][k].severity
    PROVE  Good(e, committed, bound, rule) /\ Grows(d, e, bound)
<1>1. Current(e, rule) /\ Told(e, committed)
  BY DEF Good, Current, Told
<1>2. \A r \in Rules, k \in Kinds : Active(e, r, k) = Active(d, r, k)
  BY DEF Active
<1>3. Matched(e)
  BY <1>2 DEF Good, Matched
<1>4. Grows(d, e, bound)
  BY DEF Grows, Good, Sound, Tables
<1> QED BY <1>1, <1>3, <1>4 DEF Good

(* Entering another severity keeps conditions and alerts in step.          *)
LEMMA EnteringMatches ==
    ASSUME NEW d, Sound(d), Matched(d), NEW e, Sound(e), NEW base,
           NEW r \in Rules, NEW k \in Kinds, NEW target \in Severities,
           target # d.cond[r][k].severity,
           Entering(d, e, base, r, k, target), Rewritten(d, e, r, k, Entered(target))
    PROVE  Matched(e)
<1> DEFINE aid == Aid(d, r, k)
<1>1. /\ Calm \in Condition /\ e.cond[r][k].severity = target
      /\ \A o \in Rules, j \in Kinds :
           o # r \/ j # k => e.cond[o][j].severity = d.cond[o][j].severity
  BY ConditionTypes, ConditionFields DEF Rewritten
<1>2. d.alerts \in Seq(Alert)
  BY DEF Sound, Tables
<1>3. SUFFICES /\ \A o \in Rules, j \in Kinds :
                    o # r \/ j # k =>
                      /\ Active(e, o, j) = Active(d, o, j)
                      /\ \A a \in Active(d, o, j) : e.alerts[a].severity = d.alerts[a].severity
               /\ IF target = "normal" THEN Active(e, r, k) = {}
                  ELSE \E a \in Active(e, r, k) :
                         Active(e, r, k) = {a} /\ e.alerts[a].severity = target
  BY <1>1 DEF Matched
<1>4. d.cond[r][k].severity = "normal" => Active(d, r, k) = {}
  BY DEF Matched
<1>5. d.cond[r][k].severity # "normal" => Active(d, r, k) # {}
  BY DEF Matched
<1>6. Active(d, r, k) # {} => Active(d, r, k) = {aid}
  BY DEF Matched, Aid
<1>7. CASE target = "normal"
  <2>1. aid \in DOMAIN d.alerts /\ d.alerts[aid] \in Alert
    BY <1>2, <1>5, <1>6, <1>7 DEF Active
  <2>2. e.alerts = [d.alerts EXCEPT ![aid] = [@ EXCEPT !.active = FALSE]]
    BY <1>5, <1>7 DEF Entering
  <2>3. /\ DOMAIN e.alerts = DOMAIN d.alerts
        /\ \A a \in DOMAIN d.alerts \ {aid} : e.alerts[a] = d.alerts[a]
        /\ ~e.alerts[aid].active
    BY <1>2, <2>1, <2>2 DEF Alert
  <2> QED BY <1>5, <1>6, <1>7, <2>1, <2>3 DEF Active
<1>8. CASE target # "normal" /\ Active(d, r, k) = {}
  <2> DEFINE n == Len(d.alerts) + 1
  <2>1. e.alerts = Append(d.alerts, Opened(r, k, target))
    BY <1>8 DEF Entering
  <2>2. /\ DOMAIN e.alerts = DOMAIN d.alerts \cup {n} /\ n \notin DOMAIN d.alerts
        /\ \A a \in DOMAIN d.alerts : e.alerts[a] = d.alerts[a]
        /\ e.alerts[n] = Opened(r, k, target)
    BY <1>2, <2>1
  <2>3. /\ e.alerts[n].rule = r /\ e.alerts[n].kind = k /\ e.alerts[n].active
        /\ e.alerts[n].severity = target
    BY <2>2 DEF Opened
  <2>4. Active(e, r, k) = {n}
    BY <1>8, <2>2, <2>3 DEF Active
  <2> QED BY <1>8, <2>2, <2>3, <2>4 DEF Active
<1>9. CASE target # "normal" /\ Active(d, r, k) # {}
  <2>1. aid \in DOMAIN d.alerts /\ d.alerts[aid] \in Alert
    BY <1>2, <1>6, <1>9 DEF Active
  <2>2. e.alerts = [d.alerts EXCEPT ![aid] = [@ EXCEPT !.severity = target]]
    BY <1>9 DEF Entering
  <2>3. /\ DOMAIN e.alerts = DOMAIN d.alerts
        /\ \A a \in DOMAIN d.alerts \ {aid} : e.alerts[a] = d.alerts[a]
        /\ e.alerts[aid].severity = target
        /\ e.alerts[aid].rule = d.alerts[aid].rule /\ e.alerts[aid].kind = d.alerts[aid].kind
        /\ e.alerts[aid].active = d.alerts[aid].active
    BY <1>2, <2>1, <2>2 DEF Alert
  <2>4. \A o \in Rules, j \in Kinds : Active(e, o, j) = Active(d, o, j)
    BY <2>3 DEF Active
  <2>5. aid \in Active(d, r, k)
    BY <1>6, <1>9
  <2> QED BY <1>6, <1>9, <2>3, <2>4, <2>5 DEF Active
<1> QED BY <1>7, <1>8, <1>9

(* It raises an alert only for the present version of an enabled rule.     *)
LEMMA EnteringCurrent ==
    ASSUME NEW d, Sound(d), Current(d, rule), NEW e, NEW base,
           NEW r \in EnabledRules, NEW k \in Kinds, NEW target \in Severities,
           Entering(d, e, base, r, k, target)
    PROVE  Current(e, rule)
<1> DEFINE aid == Aid(d, r, k)
<1>1. d.alerts \in Seq(Alert) /\ \A a \in DOMAIN d.alerts : d.alerts[a] \in Alert
  BY DEF Sound, Tables
<1>2. CASE e.alerts = d.alerts
  BY <1>2 DEF Current
<1>3. CASE /\ aid \in DOMAIN d.alerts
           /\ \/ e.alerts = [d.alerts EXCEPT ![aid] = [@ EXCEPT !.active = FALSE]]
              \/ e.alerts = [d.alerts EXCEPT ![aid] = [@ EXCEPT !.severity = target]]
  <2>1. /\ DOMAIN e.alerts = DOMAIN d.alerts
        /\ \A a \in DOMAIN d.alerts \ {aid} : e.alerts[a] = d.alerts[a]
        /\ e.alerts[aid].rule = d.alerts[aid].rule
        /\ e.alerts[aid].version = d.alerts[aid].version
        /\ e.alerts[aid].active => d.alerts[aid].active
    BY <1>1, <1>3 DEF Alert
  <2> QED BY <2>1 DEF Current
<1>4. CASE e.alerts = Append(d.alerts, Opened(r, k, target))
  <2> DEFINE n == Len(d.alerts) + 1
  <2>1. /\ DOMAIN e.alerts = DOMAIN d.alerts \cup {n}
        /\ \A a \in DOMAIN d.alerts : e.alerts[a] = d.alerts[a]
        /\ e.alerts[n] = Opened(r, k, target)
    BY <1>1, <1>4
  <2>2. e.alerts[n].rule = r /\ e.alerts[n].version = rule[r].version
    BY <2>1 DEF Opened
  <2> QED BY <2>1, <2>2 DEF Current, EnabledRules
<1> QED BY <1>2, <1>3, <1>4 DEF Entering, Active

(* What a new event, of a higher id, makes of a story.                     *)
LEMMA StoryGoesOn ==
    ASSUME NEW all, NEW a, NEW severity, NEW active, Story(all, a, severity, active),
           NEW new, new.id \in Int, \A x \in all : x.id \in Int /\ x.id < new.id
    PROVE  /\ new.alert # a => Story(all \cup {new}, a, severity, active)
           /\ new.alert = a /\ new.type = "acknowledged"
                => Story(all \cup {new}, a, severity, active)
           /\ new.alert = a /\ active /\ new.type \in Closing
                => Story(all \cup {new}, a, severity, FALSE)
           /\ new.alert = a /\ active /\ new.type = "escalated"
                => Story(all \cup {new}, a, "critical", TRUE)
           /\ new.alert = a /\ active /\ new.type = "downgraded"
                => Story(all \cup {new}, a, "warning", TRUE)
<1> DEFINE next == all \cup {new}
<1>1. CASE new.alert # a
  BY <1>1 DEF Story
<1>2. CASE new.alert = a /\ new.type = "acknowledged"
  BY <1>2 DEF Story, Closing
<1>3. CASE new.alert = a /\ active /\ new.type \in Closing
  BY <1>3 DEF Story, Closing
<1>4. CASE new.alert = a /\ active /\ new.type = "escalated"
  BY <1>4 DEF Story, Closing
<1>5. CASE new.alert = a /\ active /\ new.type = "downgraded"
  BY <1>5 DEF Story, Closing
<1> QED BY <1>1, <1>2, <1>3, <1>4, <1>5

(* A story begins with the opening of its alert.                           *)
LEMMA StoryBegins ==
    ASSUME NEW all, NEW new, new.type = "opened", NEW severity,
           \A x \in all : x.alert # new.alert
    PROVE  Story(all \cup {new}, new.alert, severity, TRUE)
BY DEF Story, Closing

(* Entering a severity tells it: one event, of the next id.                *)
LEMMA EnteringTold ==
    ASSUME NEW d, Sound(d), NEW committed \in SUBSET Event, Told(d, committed),
           NEW base \in Int, base + Cardinality(d.events) \in Nat,
           \A x \in d.events \cup committed : x.id < base + Cardinality(d.events),
           NEW e, Sound(e), NEW r \in Rules, NEW k \in Kinds, NEW target \in Severities,
           Entering(d, e, base, r, k, target)
    PROVE  /\ Told(e, committed)
           /\ Grows(d, e, base + Cardinality(d.events))
           /\ \A x \in e.events \cup committed : x.id < base + Cardinality(e.events)
<1> DEFINE aid == Aid(d, r, k)
           all == d.events \cup committed
           id == base + Cardinality(d.events)
<1>1. /\ d.alerts \in Seq(Alert) /\ \A a \in DOMAIN d.alerts : d.alerts[a] \in Alert
      /\ all \in SUBSET Event /\ \A x \in all : x.id \in Int
      /\ IsFiniteSet(d.events) /\ Cardinality(d.events) \in Nat
  BY FS_CardinalityType DEF Sound, Tables, Event
<1>1a. id \in Int /\ \A x \in all : x.id \in Int /\ x.id < id
  BY <1>1
<1>2. CASE e.alerts = d.alerts /\ e.events = d.events
  <2>1. Told(e, committed)
    BY <1>2 DEF Told
  <2>2. Grows(d, e, id)
    BY <1>1, <1>2 DEF Grows
  <2> QED BY <1>2, <2>1, <2>2
<1>3. ASSUME NEW new, new.id = id, new.type # "acknowledged",
             e.events = d.events \cup {new}, Len(d.alerts) <= Len(e.alerts)
      PROVE  /\ Grows(d, e, id)
             /\ \A x \in e.events \cup committed : x.id < base + Cardinality(e.events)
  <2>1. new \notin d.events
    BY <1>3
  <2>2. Cardinality(e.events) = Cardinality(d.events) + 1
    BY <1>1, <1>3, <2>1, FS_AddElement
  <2>3. \A x \in all : x.id < id /\ x.id \in Int
    BY <1>1
  <2> QED BY <1>1, <1>3, <2>2, <2>3 DEF Grows
<1>4. ASSUME NEW type \in {"resolved", "escalated", "downgraded"}, aid \in DOMAIN d.alerts,
             NEW next, e.alerts = [d.alerts EXCEPT ![aid] = next],
             e.events = d.events \cup {NewEvent(d, base, aid, type)},
             Story(all \cup {NewEvent(d, base, aid, type)}, aid, next.severity, next.active)
      PROVE  /\ Told(e, committed)
             /\ Grows(d, e, id)
             /\ \A x \in e.events \cup committed : x.id < base + Cardinality(e.events)
  <2> DEFINE new == NewEvent(d, base, aid, type)
  <2>1. new.id = id /\ new.type = type /\ new.alert = aid
    BY DEF NewEvent
  <2> HIDE DEF new
  <2>2. /\ DOMAIN e.alerts = DOMAIN d.alerts /\ Len(e.alerts) = Len(d.alerts)
        /\ \A a \in DOMAIN d.alerts \ {aid} : e.alerts[a] = d.alerts[a]
        /\ e.alerts[aid] = next
    BY <1>1, <1>4
  <2>3. e.events \cup committed = all \cup {new}
    BY <1>4 DEF new
  <2>4. ASSUME NEW a \in DOMAIN d.alerts \ {aid}
        PROVE  Story(all \cup {new}, a, d.alerts[a].severity, d.alerts[a].active)
    <3>1. Story(all, a, d.alerts[a].severity, d.alerts[a].active)
      BY DEF Told
    <3> HIDE DEF all, id
    <3> QED BY <1>1a, <2>1, <2>4, <3>1, StoryGoesOn
  <2>5. Told(e, committed)
    BY <1>4, <2>1, <2>2, <2>3, <2>4 DEF Told, new
  <2>6. Len(d.alerts) <= Len(e.alerts)
    BY <1>1, <2>2
  <2> QED BY <1>3, <1>4, <2>1, <2>5, <2>6 DEF new
<1>5. ASSUME aid \in Active(d, r, k)
      PROVE  /\ aid \in DOMAIN d.alerts /\ d.alerts[aid] \in Alert
             /\ Story(all, aid, d.alerts[aid].severity, TRUE)
             /\ \A type : LET new == NewEvent(d, base, aid, type)
                          IN  new.id = id /\ new.type = type /\ new.alert = aid
  <2>1. aid \in DOMAIN d.alerts /\ d.alerts[aid].active
    BY <1>5 DEF Active
  <2>2. d.alerts[aid].active = TRUE
    BY <1>1, <2>1 DEF Alert
  <2>3. Story(all, aid, d.alerts[aid].severity, d.alerts[aid].active)
    BY <2>1 DEF Told
  <2> QED BY <1>1, <2>1, <2>2, <2>3 DEF NewEvent
<1>6. CASE /\ aid \in Active(d, r, k)
           /\ e.alerts = [d.alerts EXCEPT ![aid] = [@ EXCEPT !.active = FALSE]]
           /\ e.events = d.events \cup {NewEvent(d, base, aid, "resolved")}
  <2> DEFINE new == NewEvent(d, base, aid, "resolved")
             next == [d.alerts[aid] EXCEPT !.active = FALSE]
  <2>1. next.severity = d.alerts[aid].severity /\ next.active = FALSE
    BY <1>5, <1>6 DEF Alert
  <2>2. new.id = id /\ new.type \in Closing /\ new.alert = aid
    BY <1>5, <1>6 DEF Closing
  <2>3. Story(all \cup {new}, aid, d.alerts[aid].severity, FALSE)
    <3> HIDE DEF all, new, next, id
    <3> QED BY <1>1a, <1>5, <1>6, <2>2, StoryGoesOn
  <2> QED BY <1>4, <1>5, <1>6, <2>1, <2>3 DEF new, next
<1>7. CASE /\ aid \in Active(d, r, k) /\ target # "normal"
           /\ e.alerts = [d.alerts EXCEPT ![aid] = [@ EXCEPT !.severity = target]]
           /\ e.events = d.events \cup
                {NewEvent(d, base, aid, IF target = "critical" THEN "escalated" ELSE "downgraded")}
  <2> DEFINE next == [d.alerts[aid] EXCEPT !.severity = target]
  <2>1. next.severity = target /\ next.active = d.alerts[aid].active
    BY <1>5, <1>7 DEF Alert
  <2>2. next.active = TRUE
    BY <1>1, <1>5, <1>7, <2>1 DEF Alert, Active
  <2>3. PICK type \in {"escalated", "downgraded"} :
          /\ type = "escalated" => target = "critical"
          /\ type = "downgraded" => target = "warning"
          /\ e.events = d.events \cup {NewEvent(d, base, aid, type)}
    BY <1>7 DEF Severities
  <2> DEFINE new == NewEvent(d, base, aid, type)
  <2>4. new.id = id /\ new.type = type /\ new.alert = aid
    BY <1>5, <1>7
  <2>5. Story(all \cup {new}, aid, target, TRUE)
    <3> HIDE DEF all, new, next, id
    <3>0. /\ new.id \in Int /\ \A x \in all : x.id \in Int /\ x.id < new.id
          /\ Story(all, aid, d.alerts[aid].severity, TRUE)
      BY <1>1a, <1>5, <1>7, <2>4
    <3>1. CASE type = "escalated"
      <4>1. Story(all \cup {new}, aid, "critical", TRUE)
        BY <2>4, <3>0, <3>1, StoryGoesOn
      <4> QED BY <2>3, <3>1, <4>1
    <3>2. CASE type = "downgraded"
      <4>1. Story(all \cup {new}, aid, "warning", TRUE)
        BY <2>4, <3>0, <3>2, StoryGoesOn
      <4> QED BY <2>3, <3>2, <4>1
    <3> QED BY <3>1, <3>2
  <2>6. Story(all \cup {new}, aid, next.severity, next.active)
    BY <2>1, <2>2, <2>5
  <2> HIDE DEF all, next, id
  <2> QED BY <1>4, <1>5, <1>7, <2>3, <2>6 DEF next, id
<1>8. CASE /\ e.alerts = Append(d.alerts, Opened(r, k, target))
           /\ e.events = d.events \cup {NewEvent(d, base, Len(d.alerts) + 1, "opened")}
  <2> DEFINE n == Len(d.alerts) + 1
             new == NewEvent(d, base, n, "opened")
  <2>1. new.id = id /\ new.type = "opened" /\ new.alert = n
    BY DEF NewEvent
  <2> HIDE DEF new
  <2>2. /\ DOMAIN e.alerts = DOMAIN d.alerts \cup {n} /\ n \notin DOMAIN d.alerts
        /\ Len(e.alerts) = Len(d.alerts) + 1 /\ Len(d.alerts) \in Nat
        /\ \A a \in DOMAIN d.alerts : e.alerts[a] = d.alerts[a]
        /\ e.alerts[n] = Opened(r, k, target)
    BY <1>1, <1>8
  <2>3. e.events \cup committed = all \cup {new}
    BY <1>8 DEF new
  <2>4. ASSUME NEW a \in DOMAIN d.alerts
        PROVE  Story(all \cup {new}, a, d.alerts[a].severity, d.alerts[a].active)
    <3>1. Story(all, a, d.alerts[a].severity, d.alerts[a].active)
      BY DEF Told
    <3>2. new.alert # a
      BY <2>1, <2>2
    <3> HIDE DEF all, id
    <3> QED BY <1>1a, <2>1, <3>1, <3>2, StoryGoesOn
  <2>5. Story(all \cup {new}, n, target, TRUE)
    <3>1. \A x \in all : x.alert # n
      BY <2>2 DEF Told
    <3> HIDE DEF all
    <3> QED BY <2>1, <3>1, StoryBegins
  <2>6. e.alerts[n].severity = target /\ e.alerts[n].active = TRUE
    BY <2>2 DEF Opened
  <2>7. Told(e, committed)
    BY <2>1, <2>2, <2>3, <2>4, <2>5, <2>6 DEF Told
  <2>8. new.type # "acknowledged" /\ Len(d.alerts) <= Len(e.alerts)
    BY <2>1, <2>2
  <2> QED BY <1>3, <1>8, <2>1, <2>7, <2>8 DEF new
<1> QED BY <1>2, <1>6, <1>7, <1>8 DEF Entering
-----------------------------------------------------------------------------
(* Copy d is good, and its events and the committed ones have used ids     *)
(* below the next one of a run that works on it.                           *)
Ready(d, committed, base) ==
    /\ base \in Int /\ Fresh(d, base) \in Nat
    /\ committed \in SUBSET Event
    /\ Good(d, committed, Fresh(d, base), rule)

(* e is a copy reached from d in the same run.                             *)
Advances(d, e, committed, base) ==
    /\ Ready(e, committed, base)
    /\ Fresh(d, base) <= Fresh(e, base)
    /\ Grows(d, e, Fresh(d, base))

(* What transition makes of the condition c it is called for.              *)
Outcome(c, n, r, k, target, at) ==
    \/ target = c.severity /\ n = Cleared(c)
    \/ Holding(c, r, k, target, at) /\ n = Pended(c, target, at)
    \/ target # c.severity /\ ~Holding(c, r, k, target, at) /\ n = Entered(target)

LEMMA AdvancesOn ==
    ASSUME NEW c, NEW d, NEW e, NEW committed, NEW base, Sound(c), Sound(d),
           Fresh(c, base) \in Nat, Advances(c, d, committed, base), Advances(d, e, committed, base)
    PROVE  Advances(c, e, committed, base)
<1>1. /\ Fresh(c, base) \in Nat /\ Fresh(d, base) \in Nat /\ Fresh(e, base) \in Nat
      /\ Fresh(c, base) <= Fresh(d, base) /\ Fresh(d, base) <= Fresh(e, base)
  BY DEF Advances, Ready
<1>2. /\ c.alerts \in Seq(Alert) /\ d.alerts \in Seq(Alert) /\ e.alerts \in Seq(Alert)
      /\ \A x \in e.events : x.id \in Int
  BY DEF Sound, Tables, Advances, Ready, Good, Event
<1>3. Grows(c, e, Fresh(c, base))
  BY <1>1, <1>2 DEF Advances, Grows
<1> QED BY <1>1, <1>3 DEF Advances

(* A copy with the same alerts, events and severities is as good.          *)
LEMMA SameAdvances ==
    ASSUME NEW d, NEW committed, NEW base, Ready(d, committed, base),
           NEW e, Sound(e), e.alerts = d.alerts, e.events = d.events,
           \A r \in Rules, k \in Kinds : e.cond[r][k].severity = d.cond[r][k].severity
    PROVE  Advances(d, e, committed, base)
<1>1. Fresh(e, base) = Fresh(d, base)
  BY DEF Fresh
<1> QED BY <1>1, GoodSame DEF Ready, Advances

(* Clearing holds is a step forward.                                       *)
LEMMA ClearAdvances ==
    ASSUME NEW d, NEW committed, NEW base, Ready(d, committed, base),
           NEW r \in Rules, NEW ks \in SUBSET Kinds
    PROVE  Advances(d, ClearPending(d, r, ks), committed, base)
<1> DEFINE e == ClearPending(d, r, ks)
<1>1. Sound(d)
  BY DEF Ready, Good
<1>2. /\ Sound(e) /\ e.alerts = d.alerts /\ e.events = d.events
      /\ \A o \in Rules \ {r} : e.cond[o] = d.cond[o]
      /\ \A k \in Kinds :
           e.cond[r][k] = IF k \in ks THEN Cleared(d.cond[r][k]) ELSE d.cond[r][k]
  BY <1>1, ClearShape
<1> HIDE DEF e
<1>3. ASSUME NEW k \in Kinds PROVE e.cond[r][k].severity = d.cond[r][k].severity
  <2>1. d.cond[r][k] \in Condition
    BY <1>1 DEF Sound, Tables
  <2>2. Cleared(d.cond[r][k]).severity = d.cond[r][k].severity
    BY <2>1, ConditionFields
  <2> QED BY <1>2, <2>2
<1> QED BY <1>2, <1>3, SameAdvances DEF e

(* So is a transition of a condition of an enabled rule.                   *)
LEMMA TransitionAdvances ==
    ASSUME NEW d, NEW committed, NEW base, Ready(d, committed, base),
           NEW r \in EnabledRules, rule[r].version \in Nat, NEW k \in Kinds,
           NEW target \in Severities, NEW at \in Int
    PROVE  LET e == Transition(d, base, r, k, target, at)
           IN  /\ Advances(d, e, committed, base)
               /\ Outcome(d.cond[r][k], e.cond[r][k], r, k, target, at)
               /\ Rewritten(d, e, r, k, e.cond[r][k])
<1> DEFINE e == Transition(d, base, r, k, target, at)
           c == d.cond[r][k]
<1>1. /\ Sound(d) /\ Matched(d) /\ Told(d, committed) /\ Current(d, rule)
      /\ committed \in SUBSET Event /\ base \in Int /\ base + Cardinality(d.events) \in Nat
      /\ \A x \in d.events \cup committed : x.id < base + Cardinality(d.events)
      /\ r \in Rules
  BY DEF Ready, Good, Fresh, EnabledRules
<1>2. c \in Condition
  BY <1>1 DEF Sound, Tables
<1>3. /\ Sound(e)
      /\ \/ /\ target = c.severity
            /\ e.alerts = d.alerts /\ e.events = d.events
            /\ Rewritten(d, e, r, k, Cleared(c))
         \/ /\ Holding(c, r, k, target, at)
            /\ e.alerts = d.alerts /\ e.events = d.events
            /\ Rewritten(d, e, r, k, Pended(c, target, at))
         \/ /\ target # c.severity
            /\ ~Holding(c, r, k, target, at)
            /\ Entering(d, e, base, r, k, target)
            /\ Rewritten(d, e, r, k, Entered(target))
  BY <1>1, TransitionShape
<1> HIDE DEF e
<1>4. CASE /\ e.alerts = d.alerts /\ e.events = d.events
           /\ \E n \in {Cleared(c), Pended(c, target, at)} :
                /\ Rewritten(d, e, r, k, n)
                /\ Outcome(c, n, r, k, target, at)
  <2>1. PICK n \in {Cleared(c), Pended(c, target, at)} :
          Rewritten(d, e, r, k, n) /\ Outcome(c, n, r, k, target, at)
    BY <1>4
  <2>2. n.severity = c.severity
    BY <1>2, <2>1, ConditionFields
  <2>3. \A o \in Rules, j \in Kinds : e.cond[o][j].severity = d.cond[o][j].severity
    BY <2>1, <2>2 DEF Rewritten
  <2>4. Advances(d, e, committed, base)
    BY <1>3, <1>4, <2>3, SameAdvances
  <2>5. e.cond[r][k] = n
    BY <2>1 DEF Rewritten
  <2> QED BY <2>1, <2>4, <2>5 DEF e
<1>5. CASE /\ target # c.severity /\ ~Holding(c, r, k, target, at)
           /\ Entering(d, e, base, r, k, target)
           /\ Rewritten(d, e, r, k, Entered(target))
  <2>1. Matched(e)
    BY <1>1, <1>3, <1>5, EnteringMatches
  <2>2. Current(e, rule)
    BY <1>1, <1>3, <1>5, EnteringCurrent
  <2>3. /\ Told(e, committed)
        /\ Grows(d, e, Fresh(d, base))
        /\ \A x \in e.events \cup committed : x.id < Fresh(e, base)
    BY <1>1, <1>3, <1>5, EnteringTold DEF Fresh
  <2>4. Cardinality(d.events) <= Cardinality(e.events)
    BY <1>3, <2>3, FS_Subset DEF Sound, Grows
  <2>5. Fresh(d, base) <= Fresh(e, base) /\ Fresh(e, base) \in Nat
    BY <1>1, <1>3, <2>4, FS_CardinalityType DEF Fresh, Sound
  <2>6. Advances(d, e, committed, base)
    BY <1>1, <1>3, <2>1, <2>2, <2>3, <2>5 DEF Advances, Ready, Good
  <2>7. e.cond[r][k] = Entered(target)
    BY <1>5 DEF Rewritten
  <2> QED BY <1>5, <2>6, <2>7 DEF Outcome, e
<1> QED BY <1>3, <1>4, <1>5 DEF Outcome

WithTrack(d, r, t) == [d EXCEPT !.track[r] = t]

(* Moving the position of one rule.                                        *)
LEMMA TrackShape ==
    ASSUME NEW d, Sound(d), NEW r \in Rules, NEW t \in Track
    PROVE  LET e == WithTrack(d, r, t)
           IN  /\ Sound(e)
               /\ e.cond = d.cond /\ e.alerts = d.alerts /\ e.events = d.events
               /\ e.track[r] = t
               /\ \A o \in Rules \ {r} : e.track[o] = d.track[o]
<1>1. WithTrack(d, r, t) = [d EXCEPT !.track = [d.track EXCEPT ![r] = t]]
  BY DEF WithTrack, Sound, Tables
<1>2. /\ [d.track EXCEPT ![r] = t] \in [Rules -> Track]
      /\ [d.track EXCEPT ![r] = t][r] = t
      /\ \A o \in Rules \ {r} : [d.track EXCEPT ![r] = t][o] = d.track[o]
  BY DEF Sound, Tables
<1> QED BY <1>1, <1>2 DEF Sound, Tables

LEMMA TrackAdvances ==
    ASSUME NEW d, NEW committed, NEW base, Ready(d, committed, base),
           NEW r \in Rules, NEW t \in Track
    PROVE  Advances(d, WithTrack(d, r, t), committed, base)
BY TrackShape, SameAdvances DEF Ready, Good

LEMMA ClassifyType ==
    \A v, w, c, h, p : Classify(v, w, c, h, p) \in Severities
BY DEF Classify, Severities

Readable == log \in Seq([rule : Rules, at : Nat, value : Readings])

LEMMA LogEntry ==
    ASSUME Readable, NEW q \in DOMAIN log
    PROVE  /\ log[q] \in [rule : Rules, at : Nat, value : Readings]
           /\ q \in Nat /\ q \in 1..Len(log) /\ Len(log) \in Nat
<1> DEFINE S == [rule : Rules, at : Nat, value : Readings]
<1>1. log \in Seq(S)
  BY DEF Readable
<1> HIDE DEF S
<1>2. DOMAIN log = 1..Len(log) /\ Len(log) \in Nat /\ log[q] \in S
  BY <1>1
<1> QED BY <1>2 DEF S

(* The position and the conditions of r change, the level as transition    *)
(* says, with its hold cleared or not.                                     *)
Accepted(d, e, r, q) ==
    LET m == log[q]
        p == rule[r].params
        c == d.cond[r]["level"]
    IN  /\ \A o \in Rules \ {r} : e.track[o] = d.track[o] /\ e.cond[o] = d.cond[o]
        /\ e.track[r] = [d.track[r] EXCEPT !.at = m.at, !.value = m.value, !.used = @ \cup {q}]
        /\ \E n \in {c, Cleared(c)} :
             Outcome(n, e.cond[r]["level"], r, "level",
                     Classify(m.value, p.warning, p.critical, p.hysteresis, n.severity), m.at)

(* One accepted arrival is a step of the run.                              *)
LEMMA AcceptShape ==
    ASSUME NEW d, NEW committed, Ready(d, committed, Base), Readable,
           NEW r \in EnabledRules, rule[r].version \in Nat,
           NEW q \in DOMAIN log, log[q].value # Other, NEW b
    PROVE  /\ Advances(d, Accept(d, r, q, b), committed, Base)
           /\ Accepted(d, Accept(d, r, q, b), r, q)
<1> DEFINE m == log[q]
           p == rule[r].params
           t == d.track[r]
           d1 == IF t.at = Never \/ m.at - t.at > p.stale THEN ClearPending(d, r, Kinds) ELSE d
           level == Classify(m.value, p.warning, p.critical, p.hysteresis,
                             d1.cond[r]["level"].severity)
           d2 == Transition(d1, Base, r, "level", level, m.at)
           rise == RiseTarget(r, m, b, d2.cond[r]["rise"].severity)
           d3 == IF b = None THEN ClearPending(d2, r, {"rise"})
                 ELSE Transition(d2, Base, r, "rise", rise, m.at)
           t3 == [d3.track[r] EXCEPT !.at = m.at, !.value = m.value, !.used = @ \cup {q}]
           e == WithTrack(d3, r, t3)
<1>1. r \in Rules /\ m.at \in Int /\ m.value \in Levels /\ q \in Nat
  <2>1. log[q] \in [rule : Rules, at : Nat, value : Readings] /\ q \in Nat
    BY LogEntry
  <2>2. r \in Rules
    BY DEF EnabledRules
  <2> QED BY <2>1, <2>2 DEF Levels
<1>2. Sound(d) /\ d.track[r] \in Track /\ Fresh(d, Base) \in Nat
  BY <1>1, SMTT(20) DEF Ready, Good, Sound, Tables
<1>3. level \in Severities /\ rise \in Severities
  BY ClassifyType DEF RiseTarget
<1>4. /\ Advances(d, d1, committed, Base)
      /\ d1.track = d.track
      /\ \A o \in Rules \ {r} : d1.cond[o] = d.cond[o]
      /\ d1.cond[r]["level"] \in {d.cond[r]["level"], Cleared(d.cond[r]["level"])}
  <2>1. CASE d1 = d
    <3>1. Advances(d, d, committed, Base)
      BY <1>2, SameAdvances
    <3> QED BY <2>1, <3>1
  <2>2. CASE d1 = ClearPending(d, r, Kinds)
    <3>1. Advances(d, ClearPending(d, r, Kinds), committed, Base)
      BY <1>1, ClearAdvances
    <3>2. LET f == ClearPending(d, r, Kinds)
          IN  /\ f.track = d.track
              /\ \A o \in Rules \ {r} : f.cond[o] = d.cond[o]
              /\ f.cond[r]["level"] = Cleared(d.cond[r]["level"])
      BY <1>1, <1>2, ClearShape DEF Kinds
    <3> QED BY <2>2, <3>1, <3>2
  <2> QED BY <2>1, <2>2
<1> HIDE DEF d1, level
<1>5. /\ Advances(d1, d2, committed, Base)
      /\ Outcome(d1.cond[r]["level"], d2.cond[r]["level"], r, "level", level, m.at)
      /\ Rewritten(d1, d2, r, "level", d2.cond[r]["level"])
  BY <1>1, <1>3, <1>4, TransitionAdvances DEF Advances, Kinds
<1> HIDE DEF d2, rise
<1>6. /\ Advances(d2, d3, committed, Base)
      /\ d3.track = d2.track
      /\ \A o \in Rules \ {r} : d3.cond[o] = d2.cond[o]
      /\ d3.cond[r]["level"] = d2.cond[r]["level"]
  <2>0. Ready(d2, committed, Base) /\ Sound(d2)
    BY <1>5 DEF Advances, Ready, Good
  <2>1. CASE b = None
    <3>1. Advances(d2, ClearPending(d2, r, {"rise"}), committed, Base)
      BY <1>1, <2>0, ClearAdvances DEF Kinds
    <3>2. LET f == ClearPending(d2, r, {"rise"})
          IN  /\ f.track = d2.track
              /\ \A o \in Rules \ {r} : f.cond[o] = d2.cond[o]
              /\ f.cond[r]["level"] = d2.cond[r]["level"]
      BY <1>1, <2>0, ClearShape DEF Kinds
    <3> QED BY <2>1, <3>1, <3>2
  <2>2. CASE b # None
    <3>1. d3 = Transition(d2, Base, r, "rise", rise, m.at)
      BY <2>2
    <3> HIDE DEF d3
    <3>2. /\ Advances(d2, d3, committed, Base)
          /\ Rewritten(d2, d3, r, "rise", d3.cond[r]["rise"])
      BY <1>1, <1>3, <2>0, <3>1, TransitionAdvances DEF Kinds
    <3> QED BY <3>2 DEF Rewritten, Kinds
  <2> QED BY <2>1, <2>2
<1> HIDE DEF d3
<1>7. d3.track[r] = t
  BY <1>4, <1>5, <1>6 DEF Rewritten
<1>8. t3 \in Track
  <2>1. t.used \cup {q} \in SUBSET Nat
    BY <1>1, <1>2 DEF Track
  <2> QED BY <1>1, <1>2, <1>7, <2>1 DEF Track
<1>9. Ready(d3, committed, Base) /\ Sound(d1) /\ Sound(d2) /\ Sound(d3)
  BY <1>4, <1>5, <1>6 DEF Advances, Ready, Good
<1>10. Fresh(d1, Base) \in Nat /\ Fresh(d2, Base) \in Nat /\ Fresh(d3, Base) \in Nat
  BY <1>4, <1>5, <1>6 DEF Advances, Ready
<1>11. e = Accept(d, r, q, b)
  <2>1. Accept(d, r, q, b) = [d3 EXCEPT !.track[r].at = m.at, !.track[r].value = m.value,
                                        !.track[r].used = @ \cup {q}]
    BY DEF Accept, d1, d2, d3, level, rise
  <2>2. d3.track \in [Rules -> Track]
    BY <1>9 DEF Sound, Tables
  <2> QED BY <1>1, <1>9, <2>1, <2>2, ZenonT(40) DEF WithTrack, Sound, Tables, Track
<1> HIDE DEF e, t3
<1>12. /\ Sound(e) /\ e.cond = d3.cond /\ e.track[r] = t3
       /\ \A o \in Rules \ {r} : e.track[o] = d3.track[o]
       /\ Advances(d3, e, committed, Base)
  BY <1>1, <1>8, <1>9, TrackShape, TrackAdvances DEF e
<1>13. Advances(d, e, committed, Base)
  BY <1>2, <1>4, <1>5, <1>6, <1>9, <1>10, <1>12, AdvancesOn
<1>14. \A o \in Rules \ {r} : e.track[o] = d.track[o] /\ e.cond[o] = d.cond[o]
  BY <1>4, <1>5, <1>6, <1>12 DEF Rewritten
<1>15. e.track[r] = [t EXCEPT !.at = m.at, !.value = m.value, !.used = @ \cup {q}]
  BY <1>7, <1>12 DEF t3
<1>16. Outcome(d1.cond[r]["level"], e.cond[r]["level"], r, "level", level, m.at)
  BY <1>5, <1>6, <1>12
<1> QED BY <1>4, <1>11, <1>13, <1>14, <1>15, <1>16 DEF level, Accepted

(* The end of a rule: the missing-data condition follows its target, the   *)
(* hold of the level may be cleared, and positions stay.                   *)
LEMMA FinishShape ==
    ASSUME NEW d, NEW committed, Ready(d, committed, Base),
           NEW r \in EnabledRules, rule[r].version \in Nat, NEW late \in BOOLEAN,
           NEW at \in Int
    PROVE  LET target == IF late THEN "warning" ELSE "normal"
               d1 == Transition(d, Base, r, "stale", target, at)
               e == IF late THEN ClearPending(d1, r, Kinds) ELSE d1
               c == d.cond[r]["level"]
           IN  /\ Advances(d, e, committed, Base)
               /\ e.track = d.track
               /\ \A o \in Rules \ {r} : e.cond[o] = d.cond[o]
               /\ e.cond[r]["stale"].severity = target
               /\ e.cond[r]["level"] \in {c, Cleared(c)}
<1> DEFINE target == IF late THEN "warning" ELSE "normal"
           d1 == Transition(d, Base, r, "stale", target, at)
           e == IF late THEN ClearPending(d1, r, Kinds) ELSE d1
<1>1. r \in Rules /\ target \in Severities /\ "stale" \in Kinds /\ "level" \in Kinds \ {"stale"}
  BY DEF EnabledRules, Severities, Kinds
<1>2. Sound(d) /\ Fresh(d, Base) \in Nat /\ d.cond[r]["stale"] \in Condition
  BY <1>1 DEF Ready, Good, Sound, Tables
<1> HIDE DEF target
<1>3. /\ Advances(d, d1, committed, Base)
      /\ Outcome(d.cond[r]["stale"], d1.cond[r]["stale"], r, "stale", target, at)
      /\ Rewritten(d, d1, r, "stale", d1.cond[r]["stale"])
  BY <1>1, TransitionAdvances
<1> HIDE DEF d1
<1>4. d1.cond[r]["stale"].severity = target
  BY <1>2, <1>3, ConditionFields DEF Outcome, Holding
<1>5. /\ Ready(d1, committed, Base) /\ Sound(d1) /\ d1.cond[r]["stale"] \in Condition
      /\ d1.track = d.track
      /\ \A o \in Rules \ {r} : d1.cond[o] = d.cond[o]
      /\ d1.cond[r]["level"] = d.cond[r]["level"]
  BY <1>1, <1>3 DEF Advances, Ready, Good, Rewritten, Sound, Tables
<1>6. CASE late
  <2> DEFINE f == ClearPending(d1, r, Kinds)
  <2>1. Advances(d1, f, committed, Base)
    BY <1>1, <1>5, ClearAdvances
  <2>2. /\ f.track = d1.track
        /\ \A o \in Rules \ {r} : f.cond[o] = d1.cond[o]
        /\ \A k \in Kinds : f.cond[r][k] = Cleared(d1.cond[r][k])
    BY <1>1, <1>5, ClearShape
  <2> HIDE DEF f
  <2>3. Advances(d, f, committed, Base)
    BY <1>2, <1>3, <1>5, <2>1, AdvancesOn
  <2>4. f.cond[r]["stale"].severity = target
    BY <1>1, <1>4, <1>5, <2>2, ConditionFields
  <2> QED BY <1>1, <1>5, <1>6, <2>2, <2>3, <2>4 DEF f, d1, target
<1>7. CASE ~late
  BY <1>3, <1>4, <1>5, <1>7 DEF d1, target
<1> QED BY <1>6, <1>7
-----------------------------------------------------------------------------
Job == [phase : {"idle", "start", "rules", "items"}, time : Nat, high : Nat,
        todo : SUBSET Rules, rule : Rules \cup {None}, batch : SUBSET Nat,
        work : Tables \cup {None}]
Edit == [rule : Rules, params : Params, version : Nat, seed : BOOLEAN]

(* The types of the variables, with those of what runs, edits and          *)
(* acknowledgments keep.                                                   *)
Typed ==
    /\ TypeOK
    /\ job \in Job
    /\ saving \in [Savers -> {None} \cup Edit]
    /\ acking \in [Ackers -> {None} \cup [alert : Nat, id : Nat]]
    /\ lastSuccess \in {Never} \cup 0..now

(* The advisory lock: a run holds it, an edit holds it, and so no rule     *)
(* changes under a run.                                                    *)
LockInv ==
    /\ Running <=> lock = Evaluator
    /\ \A c \in Savers : saving[c] # None => lock = c
    /\ \A r \in Rules : rule[r].version > 0 => rule[r].params \in Params
    /\ \A r \in Rules : rule[r].updated <= now
    /\ Running => job.todo \subseteq EnabledRules /\ job.high <= Len(log)
    /\ job.phase = "items" =>
         /\ job.rule \in job.todo
         /\ \A q \in job.batch : q \in 1..job.high /\ log[q].rule = job.rule

(* The tables are good, and so is the copy of a run.                       *)
CopiesInv ==
    /\ Good(db, db.events, nextEvent, rule)
    /\ Running => /\ Good(job.work, db.events, nextEvent, rule)
                  /\ Len(db.alerts) <= Len(job.work.alerts)

LEMMA RunReady ==
    ASSUME Typed, CopiesInv, Running
    PROVE  /\ Ready(job.work, db.events, Base)
           /\ Fresh(job.work, Base) = nextEvent
           /\ Sound(job.work) /\ Cardinality(job.work.events) \in Nat
<1>1. Sound(job.work) /\ Good(job.work, db.events, nextEvent, rule)
  BY DEF CopiesInv, Good
<1>2. Cardinality(job.work.events) \in Nat
  BY <1>1, FS_CardinalityType DEF Sound
<1>3. nextEvent \in Nat /\ db.events \in SUBSET Event
  BY DEF Typed, TypeOK, Tables
<1>4. Base \in Int /\ Fresh(job.work, Base) = nextEvent
  BY <1>2, <1>3 DEF Base, Fresh
<1> QED BY <1>1, <1>2, <1>3, <1>4 DEF Ready

(* What one turn of the loop does to the copy of the run.                  *)
ItemDone(n, q) ==
    LET r == job.rule
        w == job.work
        t == w.track[r]
        m == log[q]
        p == rule[r].params
        c == w.cond[r]["level"]
    IN  /\ n.track[r] \in Track
        /\ n.track[r].last = Max(t.last, q)
        /\ n.track[r].from = t.from
        /\ n.track[r].handled = t.handled \cup {q}
        /\ \A o \in Rules \ {r} : n.track[o] = w.track[o] /\ n.cond[o] = w.cond[o]
        /\ \/ /\ n.track[r].at = t.at /\ n.track[r].used = t.used
              /\ n.cond = w.cond
           \/ /\ ~Ignored(r, m, t)
              /\ n.track[r].at = m.at /\ n.track[r].used = t.used \cup {q}
              /\ \E i \in {c, Cleared(c)} :
                   Outcome(i, n.cond[r]["level"], r, "level",
                           Classify(m.value, p.warning, p.critical, p.hysteresis, i.severity),
                           m.at)

LEMMA ItemShape ==
    ASSUME Typed, LockInv, CopiesInv, NEW q \in DOMAIN log, EvaluateItem(q)
    PROVE  /\ Running /\ job.rule \in EnabledRules /\ q \in job.batch
           /\ \E n : /\ Advances(job.work, n, db.events, Base)
                     /\ Rewrite(n)
                     /\ job' = [job EXCEPT !.batch = @ \ {q}, !.work = n]
                     /\ ItemDone(n, q)
<1> DEFINE r == job.rule
           w == job.work
           t == w.track[r]
           m == log[q]
           s == [t EXCEPT !.last = Max(@, q), !.handled = @ \cup {q}]
           seen == [job.work EXCEPT !.track[r].last = Max(@, q),
                                    !.track[r].handled = @ \cup {q}]
<1>1. Running /\ job.rule \in EnabledRules /\ job.rule \in Rules /\ q \in job.batch
  BY Zenon DEF EvaluateItem, Running, LockInv, EnabledRules
<1>2. Ready(w, db.events, Base) /\ Sound(w) /\ Fresh(w, Base) \in Nat
  BY <1>1, RunReady DEF Ready
<1>3. w.track \in [Rules -> Track] /\ t \in Track /\ q \in Nat
  BY <1>1, <1>2, LogEntry DEF Sound, Tables, Typed, TypeOK, Readable
<1>4. Max(t.last, q) \in Nat
  BY <1>3 DEF Max, Track
<1>5. /\ s \in Track /\ s.last = Max(t.last, q) /\ s.handled = t.handled \cup {q}
      /\ s.from = t.from /\ s.at = t.at /\ s.used = t.used
  <2>1. t.handled \cup {q} \in SUBSET Nat
    BY <1>3 DEF Track
  <2> QED BY <1>3, <1>4, <2>1 DEF Track
<1>6. PICK b : LET d == IF Ignored(r, m, t) THEN seen ELSE Accept(seen, r, q, b)
               IN  Rewrite(d) /\ job' = [job EXCEPT !.batch = @ \ {q}, !.work = d]
  BY Zenon DEF EvaluateItem
<1>6a. seen = WithTrack(w, r, s)
  BY <1>1, <1>2, <1>3 DEF WithTrack, Sound, Tables, Track
<1> HIDE DEF s, seen
<1>7. PICK n : /\ n = IF Ignored(r, m, t) THEN seen ELSE Accept(seen, r, q, b)
               /\ Rewrite(n)
               /\ job' = [job EXCEPT !.batch = @ \ {q}, !.work = n]
  BY <1>6, Zenon
<1>8. /\ Advances(w, seen, db.events, Base) /\ Sound(seen) /\ seen.cond = w.cond
      /\ seen.track[r] = s /\ \A o \in Rules \ {r} : seen.track[o] = w.track[o]
  BY <1>1, <1>2, <1>5, <1>6a, TrackShape, TrackAdvances
<1>9. CASE Ignored(r, m, t)
  <2>1. n = seen
    BY <1>7, <1>9
  <2>2. ItemDone(n, q)
    BY <1>5, <1>8, <2>1 DEF ItemDone
  <2> QED BY <1>1, <1>7, <1>8, <2>1, <2>2, Zenon
<1>10. CASE ~Ignored(r, m, t)
  <2> DEFINE e == Accept(seen, r, q, b)
             p == rule[r].params
             c == seen.cond[r]["level"]
  <2>1. n = e
    BY <1>7, <1>10
  <2>2. Readable /\ rule[r].version \in Nat /\ log[q].value # Other
    BY <1>1, <1>10 DEF Typed, TypeOK, Readable, Ignored
  <2>3. Advances(seen, e, db.events, Base) /\ Accepted(seen, e, r, q)
    <3>1. Ready(seen, db.events, Base)
      BY <1>8 DEF Advances
    <3> QED BY <1>1, <2>2, <3>1, AcceptShape
  <2> HIDE DEF e
  <2>4. Advances(w, e, db.events, Base)
    BY <1>2, <1>8, <2>3, AdvancesOn
  <2>5. /\ e.track[r].last = s.last /\ e.track[r].from = s.from
        /\ e.track[r].handled = s.handled /\ e.track[r].at = m.at
        /\ e.track[r].used = t.used \cup {q}
    BY <1>5, <1>8, <2>3 DEF Track, Accepted
  <2>6. e.track[r] \in Track
    BY <1>1, <2>3 DEF Advances, Ready, Good, Sound, Tables
  <2>7. \A o \in Rules \ {r} : e.track[o] = w.track[o] /\ e.cond[o] = w.cond[o]
    BY <1>8, <2>3 DEF Accepted
  <2>8. \E i \in {w.cond[r]["level"], Cleared(w.cond[r]["level"])} :
          Outcome(i, e.cond[r]["level"], r, "level",
                  Classify(m.value, p.warning, p.critical, p.hysteresis, i.severity), m.at)
    BY <1>8, <2>3 DEF Accepted
  <2>9. ItemDone(e, q)
    BY <1>5, <1>10, <2>5, <2>6, <2>7, <2>8, Zenon DEF ItemDone
  <2> QED BY <1>1, <1>7, <2>1, <2>4, <2>9, Zenon
<1> QED BY <1>9, <1>10, Zenon

(* What the end of a rule does to the copy of the run.                     *)
RuleDone(n) ==
    LET r == job.rule
        w == job.work
        c == w.cond[r]["level"]
        late == job.time - SilentSince(r, w.track[r]) >= rule[r].params.stale
    IN  /\ n.track = w.track
        /\ \A o \in Rules \ {r} : n.cond[o] = w.cond[o]
        /\ n.cond[r]["stale"].severity = (IF late THEN "warning" ELSE "normal")
        /\ n.cond[r]["level"] \in {c, Cleared(c)}

LEMMA RuleShape ==
    ASSUME Typed, LockInv, CopiesInv, FinishRule
    PROVE  /\ Running /\ job.rule \in EnabledRules /\ job.batch = {}
           /\ \E n : /\ Advances(job.work, n, db.events, Base)
                     /\ Rewrite(n)
                     /\ job' = [job EXCEPT !.phase = "rules", !.rule = None,
                                           !.todo = @ \ {job.rule}, !.work = n]
                     /\ RuleDone(n)
<1> DEFINE r == job.rule
           w == job.work
           late == job.time - SilentSince(r, w.track[r]) >= rule[r].params.stale
           target == IF late THEN "warning" ELSE "normal"
           d1 == Transition(w, Base, r, "stale", target, job.time)
           d == IF late THEN ClearPending(d1, r, Kinds) ELSE d1
<1>1. Running /\ job.rule \in EnabledRules /\ job.rule \in Rules /\ job.batch = {}
  BY DEF FinishRule, Running, LockInv, EnabledRules
<1>2. Ready(w, db.events, Base)
  BY <1>1, RunReady
<1>3. /\ Rewrite(d)
      /\ job' = [job EXCEPT !.phase = "rules", !.rule = None,
                            !.todo = @ \ {job.rule}, !.work = d]
  BY DEF FinishRule
<1>4. rule[r].version \in Nat /\ job.time \in Int /\ late \in BOOLEAN
  BY <1>1 DEF Typed, TypeOK
<1>5. /\ Advances(w, d, db.events, Base)
      /\ d.track = w.track
      /\ \A o \in Rules \ {r} : d.cond[o] = w.cond[o]
      /\ d.cond[r]["stale"].severity = target
      /\ d.cond[r]["level"] \in {w.cond[r]["level"], Cleared(w.cond[r]["level"])}
  <2> HIDE DEF late, w, r
  <2> QED BY <1>1, <1>2, <1>4, FinishShape DEF r
<1>6. RuleDone(d)
  BY <1>5, Zenon DEF RuleDone
<1> QED BY <1>1, <1>3, <1>5, <1>6, Zenon
-----------------------------------------------------------------------------
(* A story depends on the events of its alert only.                        *)
LEMMA StoryLocal ==
    ASSUME NEW all, NEW other, NEW a, NEW severity, NEW active, Story(all, a, severity, active),
           \A e : e.alert = a => (e \in all <=> e \in other)
    PROVE  Story(other, a, severity, active)
BY DEF Story

(* An accepted edit keeps the tables good: its rule starts again, with     *)
(* none of its alerts active.                                              *)
LEMMA ApplyShape ==
    ASSUME Typed, LockInv, CopiesInv, NEW c \in Savers, ApplySave(c)
    PROVE  LET r == saving[c].rule
           IN  /\ ~Running /\ r \in Rules /\ lock = c /\ lock' = None
               /\ rule' = [rule EXCEPT ![r] = [version |-> rule[r].version + 1, updated |-> now,
                                              params |-> saving[c].params]]
               /\ saving[c].params \in Params
               /\ db'.track = [db.track EXCEPT ![r] = Unseen(Len(log))]
               /\ db'.cond = [db.cond EXCEPT ![r] = [k \in Kinds |-> Calm]]
               /\ db' \in Tables /\ DOMAIN db'.alerts = DOMAIN db.alerts
               /\ db.events \subseteq db'.events
               /\ \A e \in db'.events \ db.events :
                    /\ e.id >= nextEvent /\ e.type = "configuration_changed"
                    /\ e.alert \in DOMAIN db.alerts \ AckLocked
               /\ nextEvent' \in Nat /\ nextEvent' >= nextEvent
               /\ Good(db', db'.events, nextEvent', rule')
<1> DEFINE r == saving[c].rule
           active == Retired(r, saving[c].params)
           size == Cardinality(active)
<1>1. /\ saving[c] \in Edit /\ lock = c /\ ~Running /\ r \in Rules /\ saving[c].params \in Params
      /\ lock' = None
  BY AlertAssumption DEF ApplySave, Typed, LockInv, Edit, EndSave
<1>2. /\ db.alerts \in Seq(Alert) /\ \A a \in DOMAIN db.alerts : db.alerts[a] \in Alert
      /\ db.events \in SUBSET Event /\ IsFiniteSet(db.events) /\ nextEvent \in Nat
      /\ DOMAIN db.alerts = 1..Len(db.alerts) /\ Len(db.alerts) \in Nat
      /\ \A e \in db.events : e.id \in Nat /\ e.id < nextEvent
      /\ db.track \in [Rules -> Track] /\ db.cond \in [Rules -> [Kinds -> Condition]]
  BY DEF Typed, TypeOK, Tables, CopiesInv, Good, Sound, Event
<1>3. /\ active \subseteq DOMAIN db.alerts
      /\ \A a \in DOMAIN db.alerts :
           a \in active <=> db.alerts[a].rule = r /\ db.alerts[a].active
  BY DEF Retired
<1>4. IsFiniteSet(active) /\ size \in Nat
  <2>1. IsFiniteSet(1..Len(db.alerts))
    BY <1>2, FS_Interval
  <2> QED BY <1>2, <1>3, <2>1, FS_Subset, FS_CardinalityType
<1>5. PICK order \in [active -> 0..(Cardinality(active) - 1)] :
        /\ \A a, b \in active : order[a] = order[b] => a = b
        /\ db' = [track |-> [db.track EXCEPT ![r] = Unseen(Len(log))],
                  cond |-> [db.cond EXCEPT ![r] = [k \in Kinds |-> Calm]],
                  alerts |-> [a \in DOMAIN db.alerts |->
                    IF a \in active THEN Resolved(db.alerts[a]) ELSE db.alerts[a]],
                  events |-> db.events \cup
                    {[id |-> nextEvent + order[a], alert |-> a,
                      type |-> "configuration_changed"] : a \in active}]
  BY Zenon DEF ApplySave
<1>6. /\ rule' = [rule EXCEPT ![r] = [version |-> rule[r].version + 1, updated |-> now,
                                     params |-> saving[c].params]]
      /\ nextEvent' = nextEvent + size
      /\ active \cap AckLocked = {}
  BY DEF ApplySave
<1> HIDE DEF active, size, r
<1> DEFINE New(a) == [id |-> nextEvent + order[a], alert |-> a, type |-> "configuration_changed"]
           new == {New(a) : a \in active}
           alerts == [a \in DOMAIN db.alerts |->
                        IF a \in active THEN Resolved(db.alerts[a]) ELSE db.alerts[a]]
<1>7. \A a \in active : order[a] \in Nat /\ order[a] < size
  BY <1>4, <1>5 DEF size
<1>8. /\ db'.track = [db.track EXCEPT ![r] = Unseen(Len(log))]
      /\ db'.cond = [db.cond EXCEPT ![r] = [k \in Kinds |-> Calm]]
      /\ db'.alerts = alerts
      /\ db'.events = db.events \cup new
      /\ db' = [track |-> db'.track, cond |-> db'.cond, alerts |-> db'.alerts,
                events |-> db'.events]
  BY <1>5
<1>9. \A a \in active : /\ New(a) \in Event /\ New(a).id >= nextEvent
                         /\ New(a).id < nextEvent + size
                         /\ New(a).alert = a /\ New(a).type = "configuration_changed"
  BY <1>2, <1>3, <1>4, <1>7 DEF Event
<1>10. /\ DOMAIN alerts = DOMAIN db.alerts
       /\ \A a \in DOMAIN db.alerts :
            /\ a \notin active => alerts[a] = db.alerts[a]
            /\ a \in active => /\ alerts[a].active = FALSE
                               /\ alerts[a].severity = db.alerts[a].severity
                               /\ alerts[a].rule = db.alerts[a].rule
                               /\ alerts[a] \in Alert
            /\ alerts[a].kind = db.alerts[a].kind
  BY <1>2 DEF Resolved, Alert
<1>11. alerts \in Seq(Alert) /\ Len(alerts) = Len(db.alerts)
  <2>1. alerts \in [1..Len(db.alerts) -> Alert]
    BY <1>2, <1>10
  <2> HIDE DEF alerts
  <2>2. alerts \in Seq(Alert)
    BY <1>2, <2>1, SeqDef
  <2> QED BY <1>2, <2>1, <2>2
<1> HIDE DEF New, alerts
<1>12. Unseen(Len(log)) \in Track
  BY DEF Unseen, Track, Never, Typed, TypeOK
<1>13. /\ db'.track \in [Rules -> Track] /\ db'.cond \in [Rules -> [Kinds -> Condition]]
       /\ db'.events \in SUBSET Event
  <2>1. [k \in Kinds |-> Calm] \in [Kinds -> Condition]
    BY ConditionTypes
  <2>2. db'.cond \in [Rules -> [Kinds -> Condition]]
    BY <1>1, <1>2, <1>8, <2>1
  <2>3. db'.track \in [Rules -> Track]
    BY <1>1, <1>2, <1>8, <1>12
  <2> QED BY <1>2, <1>8, <1>9, <2>2, <2>3
<1>14. IsFiniteSet(db'.events)
  <2>1. IsFiniteSet(new)
    <3> DEFINE f == [a \in active |-> New(a)]
    <3>1. f \in Surjection(active, new)
      BY DEF Surjection
    <3> HIDE DEF f, new
    <3> QED BY <1>4, <3>1, FS_Surjection
  <2>2. db'.events = db.events \cup new
    BY <1>8
  <2> HIDE DEF new
  <2>3. IsFiniteSet(db.events \cup new)
    BY <1>2, <2>1, FS_Union
  <2> QED BY <2>2, <2>3
<1>15. db' \in Tables /\ Sound(db')
  <2>1. db' \in Tables
    BY <1>8, <1>11, <1>13 DEF Tables
  <2> QED BY <1>14, <2>1 DEF Sound
<1>16. Current(db', rule')
  <2>1. ASSUME NEW a \in DOMAIN db.alerts, alerts[a].active
        PROVE  /\ rule'[alerts[a].rule].params.enabled
               /\ rule'[alerts[a].rule].version = alerts[a].version
               /\ rule'[alerts[a].rule].version > 0
    <3>1. a \notin active /\ alerts[a] = db.alerts[a]
      BY <1>10, <2>1
    <3>2. db.alerts[a].rule # r
      BY <1>3, <2>1, <3>1
    <3>3. rule'[db.alerts[a].rule] = rule[db.alerts[a].rule]
      BY <1>2, <1>6, <3>2 DEF Alert, Typed, TypeOK
    <3> QED BY <2>1, <3>1, <3>3 DEF CopiesInv, Good, Current
  <2> QED BY <1>8, <1>10, <2>1 DEF Current
<1>17. Matched(db')
  <2> SUFFICES ASSUME NEW o \in Rules, NEW k \in Kinds
               PROVE  IF db'.cond[o][k].severity = "normal" THEN Active(db', o, k) = {}
                      ELSE \E a \in Active(db', o, k) :
                             /\ Active(db', o, k) = {a}
                             /\ db'.alerts[a].severity = db'.cond[o][k].severity
    BY DEF Matched
  <2>1. CASE o = r
    <3>1. db'.cond[o][k] = Calm
      BY <1>1, <1>2, <1>8, <2>1
    <3>2. Active(db', o, k) = {}
      BY <1>3, <1>8, <1>10, <2>1 DEF Active
    <3> QED BY <3>1, <3>2 DEF Calm
  <2>2. CASE o # r
    <3>1. db'.cond[o][k] = db.cond[o][k]
      BY <1>1, <1>2, <1>8, <2>2
    <3>2. Active(db', o, k) = Active(db, o, k)
      BY <1>3, <1>8, <1>10, <2>2 DEF Active
    <3>3. \A a \in Active(db, o, k) : alerts[a].severity = db.alerts[a].severity
      BY <1>10 DEF Active
    <3> QED BY <1>8, <3>1, <3>2, <3>3 DEF CopiesInv, Good, Matched
  <2> QED BY <2>1, <2>2
<1>18. Told(db', db'.events)
  <2>0. Told(db, db.events)
    BY DEF CopiesInv, Good
  <2>1. \A e \in db'.events : e.alert \in DOMAIN db.alerts
    BY <1>3, <1>8, <1>9, <2>0 DEF Told
  <2>2. ASSUME NEW a \in DOMAIN db.alerts
        PROVE  Story(db'.events, a, alerts[a].severity, alerts[a].active)
    <3>0. Story(db.events \cup db.events, a, db.alerts[a].severity, db.alerts[a].active)
      BY <2>0 DEF Told
    <3>1. Story(db.events, a, db.alerts[a].severity, db.alerts[a].active)
      BY <3>0, StoryLocal
    <3>2. CASE a \in active
      <4>1. db.alerts[a].active = TRUE
        BY <1>2, <1>3, <3>2 DEF Alert
      <4>2. /\ New(a).id \in Int /\ \A x \in db.events : x.id \in Int /\ x.id < New(a).id
            /\ New(a).alert = a /\ New(a).type \in Closing
        BY <1>2, <1>9, <3>2 DEF Event, Closing
      <4>3. Story(db.events \cup {New(a)}, a, db.alerts[a].severity, FALSE)
        BY <3>1, <4>1, <4>2, StoryGoesOn
      <4>4. \A e : e.alert = a => (e \in db.events \cup {New(a)} <=> e \in db'.events)
        BY <1>8, <1>9, <3>2
      <4>5. Story(db'.events, a, db.alerts[a].severity, FALSE)
        BY <4>3, <4>4, StoryLocal
      <4> QED BY <1>10, <3>2, <4>5
    <3>3. CASE a \notin active
      <4>1. \A e : e.alert = a => (e \in db.events <=> e \in db'.events)
        BY <1>8, <1>9, <3>3
      <4>2. Story(db'.events, a, db.alerts[a].severity, db.alerts[a].active)
        BY <3>1, <4>1, StoryLocal
      <4> QED BY <1>10, <3>3, <4>2
    <3> QED BY <3>2, <3>3
  <2>3. db'.events \cup db'.events = db'.events
    OBVIOUS
  <2> QED BY <1>8, <1>10, <2>1, <2>2, <2>3 DEF Told
<1>19. \A e \in db'.events : e.id < nextEvent'
  BY <1>2, <1>4, <1>6, <1>8, <1>9
<1>20. Good(db', db'.events, nextEvent', rule')
  BY <1>15, <1>16, <1>17, <1>18, <1>19 DEF Good
<1>21. \A e \in db'.events \ db.events :
         /\ e.id >= nextEvent /\ e.type = "configuration_changed"
         /\ e.alert \in DOMAIN db.alerts \ AckLocked
  BY <1>3, <1>6, <1>8, <1>9
<1> QED
  <2>1. nextEvent' \in Nat /\ nextEvent' >= nextEvent
    BY <1>2, <1>4, <1>6
  <2>2. DOMAIN db'.alerts = DOMAIN db.alerts /\ db.events \subseteq db'.events
    BY <1>8, <1>10
  <2> QED BY <1>1, <1>6, <1>8, <1>15, <1>20, <1>21, <2>1, <2>2 DEF r
-----------------------------------------------------------------------------
(* A pending acknowledgment has an alert of its own, not acknowledged yet, *)
(* and an id above those of all committed events of this alert.            *)
AckInv ==
    /\ \A c \in Ackers : acking[c] # None =>
         /\ acking[c].alert \in DOMAIN db.alerts \ acked
         /\ acking[c].id < nextEvent
         /\ \A e \in db.events : e.alert = acking[c].alert => e.id < acking[c].id
    /\ \A b, c \in Ackers :
         acking[b] # None /\ acking[c] # None /\ acking[b].alert = acking[c].alert => b = c
    /\ \A a \in DOMAIN db.alerts :
         a \in acked <=> \E e \in db.events : e.alert = a /\ e.type = "acknowledged"
    /\ \A e, f \in db.events :
         /\ e.type = "acknowledged" /\ f.type = "acknowledged" /\ e.alert = f.alert
         => e = f

(* An uncommitted event of a run belongs to a row the run has locked, and  *)
(* its id is above those of all committed events of its alert.             *)
OrderInv ==
    Running => \A n \in job.work.events \ db.events :
        /\ n.type # "acknowledged" /\ n.alert \notin AckLocked
        /\ \A e \in db.events : e.alert = n.alert => n.id > e.id

Core == Typed /\ LockInv /\ CopiesInv /\ AckInv /\ OrderInv

(* After a step of the run, the next id is the one the copy expects.       *)
LEMMA NextId ==
    ASSUME Typed, CopiesInv, Running, NEW n, Advances(job.work, n, db.events, Base), Rewrite(n)
    PROVE  /\ nextEvent' = Fresh(n, Base) /\ nextEvent' \in Nat /\ nextEvent' >= nextEvent
           /\ Sound(n)
           /\ {e.alert : e \in n.events \ job.work.events} \cap AckLocked = {}
<1>1. nextEvent \in Int /\ Cardinality(job.work.events) \in Nat /\ Fresh(job.work, Base) = nextEvent
  BY RunReady DEF Typed, TypeOK
<1>2. Sound(n) /\ Fresh(n, Base) \in Nat /\ nextEvent <= Fresh(n, Base)
  BY <1>1 DEF Advances, Ready, Good
<1>3. Cardinality(n.events) \in Nat
  BY <1>2, FS_CardinalityType DEF Sound
<1>4. nextEvent' = Fresh(n, Base)
  BY <1>1, <1>3 DEF Rewrite, Fresh, Base
<1> QED BY <1>1, <1>2, <1>4 DEF Rewrite

LEMMA TypedInit ==
    Init => Typed
<1> SUFFICES ASSUME Init PROVE Typed
  OBVIOUS
<1>1. Unseen(0) \in Track
  BY DEF Unseen, Track, Never
<1>2. db \in Tables
  <2>1. [k \in Kinds |-> Calm] \in [Kinds -> Condition]
    BY ConditionTypes
  <2>2. <<>> \in Seq(Alert)
    OBVIOUS
  <2> QED BY <1>1, <2>1, <2>2 DEF Init, Tables
<1>3. log \in Seq([rule : Rules, at : Nat, value : Readings])
  BY DEF Init
<1>4. /\ rule \in [Rules -> [version : Nat, params : Params \cup {None}, updated : Nat]]
      /\ acked \subseteq DOMAIN db.alerts
  BY DEF Init
<1>5. job \in Job /\ job.phase \in {"idle", "start", "rules", "items"} /\ job.work = None
      /\ job.time \in 0..now
  BY DEF Init, Job, Resting
<1>6. /\ saving \in [Savers -> {None} \cup Edit]
      /\ acking \in [Ackers -> {None} \cup [alert : Nat, id : Nat]]
      /\ lastSuccess \in {Never} \cup 0..now /\ now \in Nat /\ nextEvent \in Nat
      /\ lock \in Savers \cup {Evaluator, None}
  BY DEF Init
<1> QED BY <1>2, <1>3, <1>4, <1>5, <1>6 DEF Typed, TypeOK

(* Changing the run alone keeps the types.                                 *)
LEMMA TypedJob ==
    ASSUME Typed, job' \in Job, job'.time \in 0..now, lock' \in Savers \cup {Evaluator, None},
           nextEvent' \in Nat,
           UNCHANGED <<now, log, rule, db, acked, saving, acking, lastSuccess>>
    PROVE  Typed'
<1>1. job'.phase \in {"idle", "start", "rules", "items"} /\ (job'.work = None \/ job'.work \in Tables)
  BY DEF Job
<1> QED BY <1>1 DEF Typed, TypeOK

LEMMA RestingType ==
    Resting \in Job /\ Resting.time = 0 /\ Resting.phase = "idle" /\ Resting.work = None
BY DEF Resting, Job

LEMMA StartedType ==
    ASSUME NEW t \in Nat, NEW j, j = [Resting EXCEPT !.phase = "start", !.time = t]
    PROVE  /\ j \in Job /\ j.time = t /\ j.phase = "start" /\ j.todo = {} /\ j.batch = {}
BY DEF Resting, Job

LEMMA TypedStep ==
    Core /\ [Next]_vars => Typed'
<1> SUFFICES ASSUME Core, [Next]_vars PROVE Typed'
  OBVIOUS
<1> USE DEF Core
<1>0. /\ now \in Nat /\ nextEvent \in Nat /\ job \in Job /\ job.time \in 0..now
      /\ lock \in Savers \cup {Evaluator, None} /\ db \in Tables
  BY DEF Typed, TypeOK
<1>1. CASE Tick
  BY <1>1 DEF Tick, Typed, TypeOK
<1>2. ASSUME NEW r \in Rules, NEW offset \in Offsets, NEW value \in Readings,
             Observe(r, now + offset, value)
      PROVE  Typed'
  <2>1. now + offset \in Nat
    BY <1>0, <1>2, AlertAssumption DEF Observe
  <2>2. [rule |-> r, at |-> now + offset, value |-> value] \in
          [rule : Rules, at : Nat, value : Readings]
    BY <2>1
  <2>3. log' \in Seq([rule : Rules, at : Nat, value : Readings])
    <3> DEFINE S == [rule : Rules, at : Nat, value : Readings]
    <3>1. log \in Seq(S)
      BY DEF Typed, TypeOK
    <3> HIDE DEF S
    <3>2. log' \in Seq(S)
      BY <1>2, <2>2, <3>1 DEF Observe, S
    <3> QED BY <3>2 DEF S
  <2> QED BY <1>2, <2>3 DEF Observe, Typed, TypeOK
<1>3. CASE Schedule
  <2>1. job' = [Resting EXCEPT !.phase = "start", !.time = now]
    BY <1>3 DEF Schedule
  <2>2. job' \in Job /\ job'.time \in 0..now
    <3>1. job' \in Job /\ job'.time = now
      BY <1>0, <2>1, StartedType, Zenon DEF Resting
    <3> QED BY <1>0, <3>1
  <2> QED BY <1>0, <1>3, <2>2, TypedJob DEF Schedule
<1>4. CASE Busy
  <2>1. job' = Resting
    BY <1>4 DEF Busy
  <2>2. job' \in Job /\ job'.time \in 0..now
    BY <1>0, <2>1, RestingType
  <2> QED BY <1>0, <1>4, <2>2, TypedJob DEF Busy
<1>5. CASE Start
  <2>1. job' = [job EXCEPT !.phase = "rules", !.high = Len(log), !.todo = EnabledRules,
                           !.work = db]
    BY <1>5 DEF Start
  <2>2. Len(log) \in Nat /\ EnabledRules \in SUBSET Rules
    BY DEF Typed, TypeOK, EnabledRules
  <2>3. job' \in Job /\ job'.time = job.time
    BY <1>0, <2>1, <2>2 DEF Job
  <2> QED BY <1>0, <1>5, <2>3, TypedJob DEF Start
<1>6. ASSUME NEW r \in Rules, NextRule(r)
      PROVE  Typed'
  <2> DEFINE batch == Arrivals(r, job.work.track[r].last, job.high)
  <2>1. batch \in SUBSET Nat
    BY DEF Arrivals
  <2> HIDE DEF batch
  <2>2. job' = [job EXCEPT !.phase = "items", !.rule = r, !.batch = batch]
    BY <1>6 DEF NextRule, batch
  <2>3. job' \in Job /\ job'.time = job.time
    BY <1>0, <2>1, <2>2, Zenon DEF Job
  <2> QED BY <1>0, <1>6, <2>3, TypedJob DEF NextRule
<1>7. ASSUME NEW q \in DOMAIN log, EvaluateItem(q)
      PROVE  Typed'
  <2>1. PICK n : /\ Advances(job.work, n, db.events, Base) /\ Rewrite(n)
                 /\ job' = [job EXCEPT !.batch = @ \ {q}, !.work = n]
    BY <1>7, ItemShape, Zenon
  <2>2. Running
    BY <1>7, ItemShape, Zenon
  <2>3. nextEvent' \in Nat /\ n \in Tables
    BY <2>1, <2>2, NextId DEF Sound
  <2>4. job' \in Job /\ job'.time = job.time
    BY <1>0, <2>1, <2>3 DEF Job
  <2> QED BY <1>0, <1>7, <2>3, <2>4, TypedJob, Zenon DEF EvaluateItem
<1>8. CASE FinishRule
  <2>1. PICK n : /\ Advances(job.work, n, db.events, Base) /\ Rewrite(n)
                 /\ job' = [job EXCEPT !.phase = "rules", !.rule = None,
                                       !.todo = @ \ {job.rule}, !.work = n]
    BY <1>8, RuleShape, Zenon
  <2>2. Running
    BY <1>8, RuleShape, Zenon
  <2>3. nextEvent' \in Nat /\ n \in Tables
    BY <2>1, <2>2, NextId DEF Sound
  <2>4. job' \in Job /\ job'.time = job.time
    BY <1>0, <2>1, <2>3 DEF Job
  <2> QED BY <1>0, <1>8, <2>3, <2>4, TypedJob DEF FinishRule
<1>9. CASE CommitJob
  <2>1. Running /\ job.work \in Tables /\ Len(db.alerts) <= Len(job.work.alerts)
    BY <1>9 DEF CommitJob, Running, CopiesInv, Good, Sound
  <2>2. db' = [job.work EXCEPT !.events = job.work.events \cup db.events]
    BY <1>9 DEF CommitJob
  <2>3. job.work.events \cup db.events \in SUBSET Event
    BY <1>0, <2>1 DEF Tables
  <2>4. db' \in Tables /\ db'.alerts = job.work.alerts
    BY <2>1, <2>2, <2>3 DEF Tables
  <2>5. DOMAIN db.alerts \subseteq DOMAIN db'.alerts
    BY <1>0, <2>1, <2>4 DEF Tables
  <2>6. job' = Resting /\ lastSuccess' = job.time /\ lock' = None
    BY <1>9 DEF CommitJob
  <2>7. /\ job' \in Job /\ job'.time = 0 /\ job'.phase = "idle" /\ job'.work = None
    BY <1>0, <2>6, RestingType
  <2> QED BY <1>0, <1>9, <2>4, <2>5, <2>6, <2>7 DEF CommitJob, Typed, TypeOK
<1>10. CASE AbortJob
  <2>1. job' = Resting
    BY <1>10 DEF AbortJob
  <2>2. job' \in Job /\ job'.time \in 0..now
    BY <1>0, <2>1, RestingType
  <2> QED BY <1>0, <1>10, <2>2, TypedJob DEF AbortJob
<1>11. ASSUME NEW c \in Savers, NEW r \in Rules, NEW p \in Params, NEW v \in 0..MaxVersion,
              NEW seed \in BOOLEAN, BeginSave(c, r, p, v, seed)
       PROVE  Typed'
  <2>1. v \in Nat
    BY AlertAssumption
  <2>2. saving' \in [Savers -> {None} \cup Edit]
    BY <1>11, <2>1 DEF BeginSave, Typed, Edit
  <2> QED BY <1>11, <2>2 DEF BeginSave, Typed, TypeOK
<1>12. ASSUME NEW c \in Savers, RejectSave(c)
       PROVE  Typed'
  BY <1>12 DEF RejectSave, EndSave, Typed, TypeOK
<1>13. ASSUME NEW c \in Savers, ApplySave(c)
       PROVE  Typed'
  <2>1. /\ db' \in Tables /\ DOMAIN db'.alerts = DOMAIN db.alerts /\ nextEvent' \in Nat
        /\ saving[c].rule \in Rules /\ saving[c].params \in Params
        /\ rule' = [rule EXCEPT ![saving[c].rule] =
                      [version |-> rule[saving[c].rule].version + 1, updated |-> now,
                       params |-> saving[c].params]]
    BY <1>13, ApplyShape
  <2>2. rule' \in [Rules -> [version : Nat, params : Params \cup {None}, updated : Nat]]
    BY <1>0, <2>1 DEF Typed, TypeOK
  <2>3. saving' = [saving EXCEPT ![c] = None] /\ lock' = None
    BY <1>13 DEF ApplySave, EndSave
  <2>4. UNCHANGED <<now, log, acked, job, acking, lastSuccess>>
    BY <1>13 DEF ApplySave
  <2> QED BY <2>1, <2>2, <2>3, <2>4 DEF Typed, TypeOK
<1>14. ASSUME NEW c \in Savers, AbortSave(c)
       PROVE  Typed'
  BY <1>14 DEF AbortSave, EndSave, Typed, TypeOK
<1>15. ASSUME NEW c \in Ackers, NEW a \in DOMAIN db.alerts, BeginAck(c, a)
       PROVE  Typed'
  <2>1. a \in Nat
    BY <1>0 DEF Tables
  <2>2. acking' \in [Ackers -> {None} \cup [alert : Nat, id : Nat]] /\ nextEvent' \in Nat
    BY <1>0, <1>15, <2>1 DEF BeginAck, Typed
  <2> QED BY <1>15, <2>2 DEF BeginAck, Typed, TypeOK
<1>16. ASSUME NEW c \in Ackers, CommitAck(c)
       PROVE  Typed'
  <2> DEFINE e == [id |-> acking[c].id, alert |-> acking[c].alert, type |-> "acknowledged"]
  <2>1. acking[c] \in [alert : Nat, id : Nat] /\ acking[c].alert \in DOMAIN db.alerts
    BY <1>16 DEF CommitAck, Typed, AckInv
  <2>2. e \in Event
    BY <2>1 DEF Event
  <2>3. db' = [db EXCEPT !.events = db.events \cup {e}]
    BY <1>16 DEF CommitAck
  <2> HIDE DEF e
  <2>4. db' \in Tables /\ db'.alerts = db.alerts
    BY <1>0, <2>2, <2>3 DEF Tables
  <2>5. acking' \in [Ackers -> {None} \cup [alert : Nat, id : Nat]]
    BY <1>16 DEF CommitAck, Typed
  <2> QED BY <1>16, <2>1, <2>4, <2>5 DEF CommitAck, Typed, TypeOK
<1>17. ASSUME NEW c \in Ackers, AbortAck(c)
       PROVE  Typed'
  BY <1>17 DEF AbortAck, Typed, TypeOK
<1>18. CASE UNCHANGED vars
  BY <1>18 DEF vars, Typed, TypeOK
<1> QED BY <1>1, <1>2, <1>3, <1>4, <1>5, <1>6, <1>7, <1>8, <1>9, <1>10, <1>11, <1>12, <1>13,
           <1>14, <1>15, <1>16, <1>17, <1>18 DEF Next, JobStep, SaveStep
-----------------------------------------------------------------------------
(* An arrival leaves the earlier ones.                                     *)
LEMMA LogGrows ==
    ASSUME Readable, NEW r, NEW at, NEW value, Observe(r, at, value)
    PROVE  /\ Len(log) \in Nat /\ Len(log') = Len(log) + 1
           /\ DOMAIN log = 1..Len(log) /\ DOMAIN log' = 1..(Len(log) + 1)
           /\ \A q \in 1..Len(log) : log'[q] = log[q]
           /\ log'[Len(log) + 1] = [rule |-> r, at |-> at, value |-> value]
<1> DEFINE S == [rule : Rules, at : Nat, value : Readings]
           x == [rule |-> r, at |-> at, value |-> value]
<1>1. log \in Seq(S) /\ log' = Append(log, x)
  BY DEF Readable, Observe
<1> HIDE DEF S, x
<1>2. /\ Len(log) \in Nat /\ DOMAIN log = 1..Len(log) /\ Len(log') = Len(log) + 1
      /\ DOMAIN log' = 1..(Len(log) + 1)
      /\ \A q \in 1..Len(log) : log'[q] = log[q]
      /\ log'[Len(log) + 1] = x
  BY <1>1
<1> QED BY <1>2 DEF x

(* What a step of the run, its start and its end do to the lock.           *)
LEMMA LockStep ==
    Core /\ [Next]_vars => LockInv'
<1> SUFFICES ASSUME Core, [Next]_vars PROVE LockInv'
  OBVIOUS
<1> USE DEF Core
<1>0. /\ now \in Nat /\ job \in Job /\ Readable /\ None \notin Savers /\ Evaluator # None
      /\ Evaluator \notin Savers /\ Len(log) \in Nat
      /\ rule \in [Rules -> [version : Nat, params : Params \cup {None}, updated : Nat]]
      /\ saving \in [Savers -> {None} \cup Edit]
  BY AlertAssumption DEF Typed, TypeOK, Readable
<1>1. CASE Tick
  BY <1>0, <1>1 DEF Tick, LockInv, Running, EnabledRules
<1>2. ASSUME NEW r \in Rules, NEW offset \in Offsets, NEW value \in Readings,
             Observe(r, now + offset, value)
      PROVE  LockInv'
  <2>1. /\ Len(log') = Len(log) + 1
        /\ \A q \in 1..Len(log) : log'[q] = log[q]
    BY <1>0, <1>2, LogGrows
  <2>2. UNCHANGED <<now, rule, lock, job, saving>>
    BY <1>2 DEF Observe
  <2>3. Running => job.high <= Len(log')
    BY <1>0, <2>1 DEF LockInv, Job
  <2>4. job.phase = "items" => \A q \in job.batch : q \in 1..job.high /\ log'[q].rule = job.rule
    BY <1>0, <2>1 DEF LockInv, Job, Running
  <2> QED BY <2>2, <2>3, <2>4 DEF LockInv, Running, EnabledRules
<1>3. CASE Schedule
  <2>1. job'.phase = "start"
    BY <1>0, <1>3, StartedType, Zenon DEF Schedule
  <2> QED BY <1>3, <2>1 DEF Schedule, LockInv, Running, EnabledRules
<1>4. CASE Busy
  BY <1>4, RestingType DEF Busy, LockInv, Running, EnabledRules
<1>5. CASE Start
  <2>1. job' = [job EXCEPT !.phase = "rules", !.high = Len(log), !.todo = EnabledRules,
                           !.work = db]
    BY <1>5 DEF Start
  <2>2. job'.phase = "rules" /\ job'.todo = EnabledRules /\ job'.high = Len(log)
    BY <1>0, <2>1 DEF Job
  <2>3. lock = None /\ lock' = Evaluator /\ UNCHANGED <<now, log, rule, saving>>
    BY <1>5 DEF Start
  <2> QED BY <1>0, <2>2, <2>3 DEF LockInv, Running, EnabledRules
<1>6. ASSUME NEW r \in Rules, NextRule(r)
      PROVE  LockInv'
  <2> DEFINE batch == Arrivals(r, job.work.track[r].last, job.high)
  <2>1. \A q \in batch : q \in 1..job.high /\ log[q].rule = r
    BY DEF Arrivals
  <2> HIDE DEF batch
  <2>2. job' = [job EXCEPT !.phase = "items", !.rule = r, !.batch = batch]
    BY <1>6 DEF NextRule, batch
  <2>3. /\ job'.phase = "items" /\ job'.rule = r /\ job'.batch = batch
        /\ job'.todo = job.todo /\ job'.high = job.high
    BY <1>0, <2>2 DEF Job
  <2>4. job.phase = "rules" /\ r \in job.todo /\ UNCHANGED <<now, log, rule, lock, saving>>
    BY <1>6 DEF NextRule
  <2> QED BY <2>1, <2>3, <2>4 DEF LockInv, Running, EnabledRules
<1>7. ASSUME NEW q \in DOMAIN log, EvaluateItem(q)
      PROVE  LockInv'
  <2>1. PICK n : job' = [job EXCEPT !.batch = @ \ {q}, !.work = n]
    BY <1>7, ItemShape, Zenon
  <2>2. /\ job'.phase = job.phase /\ job'.rule = job.rule /\ job'.batch = job.batch \ {q}
        /\ job'.todo = job.todo /\ job'.high = job.high
    BY <1>0, <2>1, SMTT(20) DEF Job
  <2>3. UNCHANGED <<now, log, rule, lock, saving>>
    BY <1>7 DEF EvaluateItem
  <2> QED BY <2>2, <2>3 DEF LockInv, Running, EnabledRules
<1>8. CASE FinishRule
  <2>1. Running /\ \E n : job' = [job EXCEPT !.phase = "rules", !.rule = None,
                                             !.todo = @ \ {job.rule}, !.work = n]
    BY <1>8, RuleShape, Zenon
  <2>2. job'.phase = "rules" /\ job'.todo = job.todo \ {job.rule} /\ job'.high = job.high
    BY <1>0, <2>1 DEF Job
  <2>3. UNCHANGED <<now, log, rule, lock, saving>>
    BY <1>8 DEF FinishRule
  <2> QED BY <2>1, <2>2, <2>3 DEF LockInv, Running, EnabledRules
<1>9. CASE CommitJob
  BY <1>0, <1>9, RestingType DEF CommitJob, LockInv, Running, EnabledRules
<1>10. CASE AbortJob
  BY <1>0, <1>10, RestingType DEF AbortJob, LockInv, Running, EnabledRules
<1>11. ASSUME NEW c \in Savers, NEW r \in Rules, NEW p \in Params, NEW v \in 0..MaxVersion,
              NEW seed \in BOOLEAN, BeginSave(c, r, p, v, seed)
       PROVE  LockInv'
  <2>1. /\ lock = None /\ lock' = c
        /\ \A d \in Savers \ {c} : saving'[d] = saving[d]
        /\ UNCHANGED <<now, log, rule, job>>
    BY <1>0, <1>11 DEF BeginSave
  <2>2. ~Running /\ c # Evaluator /\ \A d \in Savers : saving[d] = None
    BY <1>0, <2>1 DEF LockInv
  <2> QED BY <1>0, <2>1, <2>2 DEF LockInv, Running, EnabledRules
<1>12. ASSUME NEW c \in Savers, saving[c] # None, EndSave(c), UNCHANGED <<now, log, job>>,
              \A r \in Rules : rule'[r].version > 0 => rule'[r].params \in Params,
              \A r \in Rules : rule'[r].updated <= now
       PROVE  LockInv'
  <2>1. lock = c /\ lock' = None /\ ~Running
    BY <1>0, <1>12 DEF LockInv, EndSave
  <2>2. \A d \in Savers : saving'[d] = None
    BY <1>0, <1>12, <2>1 DEF LockInv, EndSave
  <2> QED BY <1>0, <1>12, <2>1, <2>2 DEF LockInv, Running
<1>13. ASSUME NEW c \in Savers, RejectSave(c)
       PROVE  LockInv'
  BY <1>12, <1>13 DEF RejectSave, LockInv
<1>14. ASSUME NEW c \in Savers, AbortSave(c)
       PROVE  LockInv'
  BY <1>12, <1>14 DEF AbortSave, LockInv
<1>15. ASSUME NEW c \in Savers, ApplySave(c)
       PROVE  LockInv'
  <2> DEFINE r == saving[c].rule
  <2>1. /\ r \in Rules /\ saving[c].params \in Params
        /\ rule' = [rule EXCEPT ![r] = [version |-> rule[r].version + 1, updated |-> now,
                                       params |-> saving[c].params]]
    BY <1>15, ApplyShape
  <2> HIDE DEF r
  <2>2. \A o \in Rules : IF o = r THEN rule'[o].params \in Params /\ rule'[o].updated = now
                         ELSE rule'[o] = rule[o]
    BY <1>0, <2>1
  <2>3. /\ \A o \in Rules : rule'[o].version > 0 => rule'[o].params \in Params
        /\ \A o \in Rules : rule'[o].updated <= now
    BY <1>0, <2>2 DEF LockInv
  <2>4. saving[c] # None /\ EndSave(c) /\ UNCHANGED <<now, log, job>>
    BY <1>15 DEF ApplySave
  <2> QED BY <1>12, <2>3, <2>4
<1>16. ASSUME NEW c \in Ackers, NEW a \in DOMAIN db.alerts, BeginAck(c, a)
       PROVE  LockInv'
  BY <1>16 DEF BeginAck, LockInv, Running, EnabledRules
<1>17. ASSUME NEW c \in Ackers, CommitAck(c) \/ AbortAck(c)
       PROVE  LockInv'
  BY <1>17 DEF CommitAck, AbortAck, LockInv, Running, EnabledRules
<1>18. CASE UNCHANGED vars
  BY <1>18 DEF vars, LockInv, Running, EnabledRules
<1> QED BY <1>1, <1>2, <1>3, <1>4, <1>5, <1>6, <1>7, <1>8, <1>9, <1>10, <1>11, <1>13,
           <1>14, <1>15, <1>16, <1>17, <1>18 DEF Next, JobStep, SaveStep

(* The tables stay good, those of the run too: an acknowledgment commits   *)
(* between the copy and the commit of a run, an edit cannot.               *)
LEMMA GoodBound ==
    ASSUME NEW d, NEW committed, NEW bound \in Int, NEW higher \in Int, higher >= bound,
           Good(d, committed, bound, rule), committed \in SUBSET Event
    PROVE  Good(d, committed, higher, rule)
<1>1. \A e \in d.events \cup committed : e.id \in Int
  BY DEF Good, Sound, Tables, Event
<1> QED BY <1>1 DEF Good

LEMMA AckStory ==
    ASSUME NEW all, NEW a, NEW severity, NEW active, Story(all, a, severity, active),
           NEW new, new.type = "acknowledged",
           new.alert = a => \A x \in all : x.alert = a => new.id > x.id
    PROVE  Story(all \cup {new}, a, severity, active)
BY DEF Story, Closing

(* An acknowledgment fits into the histories of a good copy whose own      *)
(* events are about other alerts.                                          *)
LEMMA AckKeepsTold ==
    ASSUME NEW d, NEW e, NEW committed, NEW new, Told(d, committed),
           e.alerts = d.alerts, NEW committed2,
           e.events \cup committed2 = (d.events \cup committed) \cup {new},
           new.type = "acknowledged", new.alert \in DOMAIN d.alerts,
           \A x \in d.events \cup committed : x.alert = new.alert => new.id > x.id
    PROVE  Told(e, committed2)
<1> DEFINE all == d.events \cup committed
<1>1. \A x \in all \cup {new} : x.alert \in DOMAIN d.alerts
  BY DEF Told
<1>2. ASSUME NEW a \in DOMAIN d.alerts
      PROVE  Story(all \cup {new}, a, d.alerts[a].severity, d.alerts[a].active)
  <2>1. Story(all, a, d.alerts[a].severity, d.alerts[a].active)
    BY DEF Told
  <2> HIDE DEF all
  <2> QED BY <2>1, AckStory DEF all
<1> QED BY <1>1, <1>2 DEF Told

LEMMA CopiesStep ==
    Core /\ [Next]_vars => CopiesInv'
<1> SUFFICES ASSUME Core, [Next]_vars PROVE CopiesInv'
  OBVIOUS
<1> USE DEF Core
<1>0. /\ nextEvent \in Nat /\ job \in Job /\ db \in Tables /\ db.events \in SUBSET Event
      /\ Good(db, db.events, nextEvent, rule) /\ db.alerts \in Seq(Alert)
      /\ acking \in [Ackers -> {None} \cup [alert : Nat, id : Nat]]
  BY DEF Typed, TypeOK, CopiesInv, Tables
<1>1. ASSUME UNCHANGED <<db, rule, nextEvent>>, Running' => Running /\ job'.work = job.work
      PROVE  CopiesInv'
  BY <1>1 DEF CopiesInv
<1>2. CASE Tick \/ Busy \/ AbortJob \/ UNCHANGED vars
  BY <1>1, <1>2, RestingType DEF Tick, Busy, AbortJob, vars, Running
<1>3. ASSUME NEW r, NEW at, NEW value, Observe(r, at, value)
      PROVE  CopiesInv'
  BY <1>1, <1>3 DEF Observe, Running
<1>4. CASE Schedule
  <2>1. job'.phase = "start"
    BY <1>4, StartedType, Zenon DEF Schedule, Typed, TypeOK
  <2> QED BY <1>1, <1>4, <2>1 DEF Schedule, Running
<1>5. CASE Start
  <2>1. job' = [job EXCEPT !.phase = "rules", !.high = Len(log), !.todo = EnabledRules,
                           !.work = db]
    BY <1>5 DEF Start
  <2>2. job'.work = db
    BY <1>0, <2>1 DEF Job
  <2>3. Len(db.alerts) \in Nat
    BY <1>0
  <2>4. UNCHANGED <<db, rule, nextEvent>>
    BY <1>5 DEF Start
  <2> QED BY <1>0, <2>2, <2>3, <2>4 DEF CopiesInv
<1>6. ASSUME NEW r \in Rules, NextRule(r)
      PROVE  CopiesInv'
  <2> DEFINE batch == Arrivals(r, job.work.track[r].last, job.high)
  <2> HIDE DEF batch
  <2>1. job' = [job EXCEPT !.phase = "items", !.rule = r, !.batch = batch]
    BY <1>6 DEF NextRule, batch
  <2>2. job'.work = job.work
    BY <1>0, <2>1 DEF Job
  <2> QED BY <1>1, <1>6, <2>2 DEF NextRule, Running
<1>7. ASSUME Running, UNCHANGED <<db, rule>>,
             NEW n, Advances(job.work, n, db.events, Base), Rewrite(n), job'.work = n
      PROVE  CopiesInv'
  <2>1. nextEvent' = Fresh(n, Base) /\ nextEvent' \in Nat /\ nextEvent' >= nextEvent /\ Sound(n)
    BY <1>7, NextId
  <2>2. Good(n, db.events, nextEvent', rule)
    BY <1>7, <2>1 DEF Advances, Ready
  <2>3. Good(db, db.events, nextEvent', rule)
    BY <1>0, <2>1, GoodBound
  <2>4. Len(db.alerts) <= Len(n.alerts)
    <3>1. job.work.alerts \in Seq(Alert) /\ n.alerts \in Seq(Alert)
      BY <1>7, <2>1, RunReady DEF Sound, Tables
    <3> QED BY <1>0, <1>7, <3>1 DEF Advances, Grows, CopiesInv
  <2> QED BY <1>7, <2>2, <2>3, <2>4 DEF CopiesInv
<1>8. ASSUME NEW q \in DOMAIN log, EvaluateItem(q)
      PROVE  CopiesInv'
  <2>1. Running
    BY <1>8, ItemShape, Zenon
  <2>2. PICK n : /\ Advances(job.work, n, db.events, Base) /\ Rewrite(n)
                 /\ job' = [job EXCEPT !.batch = @ \ {q}, !.work = n]
    BY <1>8, ItemShape, Zenon
  <2>3. job'.work = n
    BY <1>0, <2>2 DEF Job
  <2> QED BY <1>7, <1>8, <2>1, <2>2, <2>3, Zenon DEF EvaluateItem
<1>9. CASE FinishRule
  <2>1. Running
    BY <1>9, RuleShape, Zenon
  <2>2. PICK n : /\ Advances(job.work, n, db.events, Base) /\ Rewrite(n)
                 /\ job' = [job EXCEPT !.phase = "rules", !.rule = None,
                                       !.todo = @ \ {job.rule}, !.work = n]
    BY <1>9, RuleShape, Zenon
  <2>3. job'.work = n
    BY <1>0, <2>2 DEF Job
  <2> QED BY <1>7, <1>9, <2>1, <2>2, <2>3 DEF FinishRule
<1>10. CASE CommitJob
  <2> DEFINE all == job.work.events \cup db.events
  <2>1. Running /\ job' = Resting /\ UNCHANGED <<rule, nextEvent>>
    BY <1>10 DEF CommitJob, Running
  <2>2. Good(job.work, db.events, nextEvent, rule)
    BY <2>1 DEF CopiesInv
  <2>3. db' = [job.work EXCEPT !.events = all]
    BY <1>10 DEF CommitJob
  <2>4. all \in SUBSET Event /\ IsFiniteSet(all)
    BY <1>0, <2>2, FS_Union DEF Good, Sound, Tables
  <2> HIDE DEF all
  <2>5. /\ db' \in Tables /\ db'.track = job.work.track /\ db'.cond = job.work.cond
        /\ db'.alerts = job.work.alerts /\ db'.events = all
    BY <2>2, <2>3, <2>4 DEF Good, Sound, Tables
  <2>6. Sound(db')
    BY <2>4, <2>5 DEF Sound
  <2>7. Current(db', rule) /\ Matched(db')
    BY <2>2, <2>5 DEF Good, Current, Matched, Active
  <2>8. Told(db', db'.events) /\ \A e \in db'.events \cup db'.events : e.id < nextEvent
    <3>1. db'.events \cup db'.events = job.work.events \cup db.events
      BY <2>5 DEF all
    <3> QED BY <2>2, <2>5, <3>1 DEF Good, Told
  <2>9. Good(db', db'.events, nextEvent, rule)
    BY <2>6, <2>7, <2>8 DEF Good
  <2> QED BY <2>1, <2>9, RestingType DEF CopiesInv, Running
<1>11. ASSUME NEW c \in Savers, NEW r \in Rules, NEW p, NEW v, NEW seed,
              BeginSave(c, r, p, v, seed)
       PROVE  CopiesInv'
  BY <1>1, <1>11 DEF BeginSave, Running
<1>12. ASSUME NEW c \in Savers, RejectSave(c) \/ AbortSave(c)
       PROVE  CopiesInv'
  BY <1>1, <1>12 DEF RejectSave, AbortSave, Running
<1>13. ASSUME NEW c \in Savers, ApplySave(c)
       PROVE  CopiesInv'
  <2>1. Good(db', db'.events, nextEvent', rule') /\ ~Running
    BY <1>13, ApplyShape
  <2>2. job' = job
    BY <1>13 DEF ApplySave
  <2> QED BY <2>1, <2>2 DEF CopiesInv, Running
<1>14. ASSUME NEW c \in Ackers, NEW a \in DOMAIN db.alerts, BeginAck(c, a)
       PROVE  CopiesInv'
  <2>1. nextEvent' = nextEvent + 1 /\ UNCHANGED <<db, rule, job>>
    BY <1>14 DEF BeginAck
  <2>2. Good(db, db.events, nextEvent', rule)
    BY <1>0, <2>1, GoodBound
  <2>3. Running => Good(job.work, db.events, nextEvent', rule)
    BY <1>0, <2>1, GoodBound DEF CopiesInv
  <2> QED BY <2>1, <2>2, <2>3 DEF CopiesInv, Running
<1>15. ASSUME NEW c \in Ackers, CommitAck(c)
       PROVE  CopiesInv'
  <2> DEFINE new == [id |-> acking[c].id, alert |-> acking[c].alert, type |-> "acknowledged"]
  <2>1. /\ acking[c] # None /\ db' = [db EXCEPT !.events = db.events \cup {new}]
        /\ UNCHANGED <<rule, nextEvent, job>>
    BY <1>15 DEF CommitAck
  <2>2. /\ new \in Event /\ new.type = "acknowledged" /\ new.alert = acking[c].alert
        /\ new.id = acking[c].id
    BY <1>0, <2>1 DEF Event
  <2> HIDE DEF new
  <2>3. /\ new.alert \in DOMAIN db.alerts /\ new.id < nextEvent /\ new.alert \in AckLocked
        /\ \A e \in db.events : e.alert = new.alert => e.id < new.id
    BY <2>1, <2>2 DEF AckInv, AckLocked
  <2>4. /\ db' \in Tables /\ db'.track = db.track /\ db'.cond = db.cond
        /\ db'.alerts = db.alerts /\ db'.events = db.events \cup {new}
    BY <1>0, <2>1, <2>2 DEF Tables
  <2>5. Sound(db')
    <3>1. IsFiniteSet(db.events)
      BY <1>0 DEF Good, Sound
    <3>2. IsFiniteSet(db.events \cup {new})
      BY <3>1, FS_AddElement
    <3> QED BY <2>4, <3>2 DEF Sound
  <2>6. Current(db', rule) /\ Matched(db')
    BY <1>0, <2>4 DEF Good, Current, Matched, Active
  <2>7. \A e \in db'.events : e.id < nextEvent
    BY <1>0, <2>3, <2>4 DEF Good
  <2>8. Told(db', db'.events)
    <3>1. db'.events \cup db'.events = (db.events \cup db.events) \cup {new}
      BY <2>4
    <3>2. \A x \in db.events \cup db.events : x.alert = new.alert => new.id > x.id
      BY <1>0, <2>2, <2>3 DEF Event
    <3> QED BY <1>0, <2>2, <2>3, <2>4, <3>1, <3>2, AckKeepsTold DEF Good
  <2>9. Good(db', db'.events, nextEvent, rule)
    BY <2>5, <2>6, <2>7, <2>8 DEF Good
  <2>10. ASSUME Running
         PROVE  Good(job.work, db'.events, nextEvent, rule) /\ Len(db.alerts) <= Len(job.work.alerts)
    <3>1. /\ Good(job.work, db.events, nextEvent, rule) /\ Len(db.alerts) <= Len(job.work.alerts)
          /\ job.work.alerts \in Seq(Alert)
      BY <2>10 DEF CopiesInv, Good, Sound, Tables
    <3>2. new.alert \in DOMAIN job.work.alerts
      BY <1>0, <2>3, <3>1
    <3>3. \A x \in job.work.events \cup db.events : x.alert = new.alert => new.id > x.id
      <4>1. \A x \in job.work.events \ db.events : x.alert # new.alert
        BY <2>3, <2>10 DEF OrderInv
      <4> QED BY <1>0, <2>2, <2>3, <4>1 DEF Event
    <3>4. job.work.events \cup db'.events = (job.work.events \cup db.events) \cup {new}
      BY <2>4
    <3>5. Told(job.work, db'.events)
      BY <2>2, <3>1, <3>2, <3>3, <3>4, AckKeepsTold DEF Good
    <3> QED BY <2>7, <3>1, <3>5 DEF Good
  <2> QED BY <2>1, <2>4, <2>9, <2>10 DEF CopiesInv, Running
<1>16. ASSUME NEW c \in Ackers, AbortAck(c)
       PROVE  CopiesInv'
  BY <1>1, <1>16 DEF AbortAck, Running
<1> QED BY <1>2, <1>3, <1>4, <1>5, <1>6, <1>8, <1>9, <1>10, <1>11, <1>12, <1>13, <1>14, <1>15,
           <1>16 DEF Next, JobStep, SaveStep
-----------------------------------------------------------------------------
(* New events of other kinds, of rows no acknowledgment has locked.        *)
LEMMA AckFrame ==
    ASSUME Core, UNCHANGED <<acked, acking>>, nextEvent' \in Nat, nextEvent' >= nextEvent,
           DOMAIN db.alerts \subseteq DOMAIN db'.alerts, db.events \subseteq db'.events,
           \A e \in db'.events \ db.events : e.type # "acknowledged" /\ e.alert \notin AckLocked
    PROVE  AckInv'
<1> USE DEF Core
<1>1. /\ nextEvent \in Nat /\ acked \subseteq DOMAIN db.alerts
      /\ acking \in [Ackers -> {None} \cup [alert : Nat, id : Nat]]
      /\ \A e \in db.events : e.alert \in DOMAIN db.alerts
  BY DEF Typed, TypeOK, CopiesInv, Good, Told
<1>2. ASSUME NEW c \in Ackers, acking[c] # None
      PROVE  /\ acking[c].alert \in DOMAIN db'.alerts \ acked
             /\ acking[c].id < nextEvent'
             /\ \A e \in db'.events : e.alert = acking[c].alert => e.id < acking[c].id
  <2>1. acking[c].id \in Nat
    BY <1>1, <1>2
  <2>2. acking[c].alert \in AckLocked
    BY <1>2 DEF AckLocked
  <2> QED BY <1>1, <1>2, <2>1, <2>2 DEF AckInv
<1>3. ASSUME NEW a \in DOMAIN db'.alerts
      PROVE  a \in acked <=> \E e \in db'.events : e.alert = a /\ e.type = "acknowledged"
  BY <1>1 DEF AckInv
<1>4. \A e, f \in db'.events :
         /\ e.type = "acknowledged" /\ f.type = "acknowledged" /\ e.alert = f.alert
         => e = f
  BY DEF AckInv
<1> QED BY <1>2, <1>3, <1>4 DEF AckInv

LEMMA AckStep ==
    Core /\ [Next]_vars => AckInv'
<1> SUFFICES ASSUME Core, [Next]_vars PROVE AckInv'
  OBVIOUS
<1> USE DEF Core
<1>0. /\ nextEvent \in Nat /\ job \in Job /\ db \in Tables /\ acked \subseteq DOMAIN db.alerts
      /\ acking \in [Ackers -> {None} \cup [alert : Nat, id : Nat]]
  BY DEF Typed, TypeOK
<1>1. ASSUME UNCHANGED <<db, acked, acking, nextEvent>>
      PROVE  AckInv'
  BY <1>1 DEF AckInv
<1>2. CASE Tick \/ Schedule \/ Busy \/ Start \/ AbortJob \/ UNCHANGED vars
  BY <1>1, <1>2 DEF Tick, Schedule, Busy, Start, AbortJob, vars
<1>3. ASSUME NEW r, NEW at, NEW value, Observe(r, at, value) \/ NextRule(r)
      PROVE  AckInv'
  BY <1>1, <1>3 DEF Observe, NextRule
<1>4. ASSUME Running, UNCHANGED <<db, acked, acking>>,
             NEW n, Advances(job.work, n, db.events, Base), Rewrite(n)
      PROVE  AckInv'
  BY <1>4, NextId, AckFrame
<1>5. ASSUME NEW q \in DOMAIN log, EvaluateItem(q)
      PROVE  AckInv'
  BY <1>4, <1>5, ItemShape, Zenon DEF EvaluateItem
<1>6. CASE FinishRule
  BY <1>4, <1>6, RuleShape, Zenon DEF FinishRule
<1>7. CASE CommitJob
  <2> DEFINE all == job.work.events \cup db.events
  <2>1. Running /\ UNCHANGED <<acked, acking, nextEvent>> /\ db' = [job.work EXCEPT !.events = all]
    BY <1>7 DEF CommitJob, Running
  <2>2. /\ job.work \in Tables /\ job.work.alerts \in Seq(Alert) /\ db.alerts \in Seq(Alert)
        /\ Len(db.alerts) <= Len(job.work.alerts)
    BY <1>0, <2>1 DEF CopiesInv, Good, Sound, Tables
  <2>3. db'.events = job.work.events \cup db.events /\ db'.alerts = job.work.alerts
    BY <2>1, <2>2 DEF Tables
  <2>4. DOMAIN db.alerts \subseteq DOMAIN db'.alerts
    BY <2>2, <2>3
  <2>5. \A e \in db'.events \ db.events : e.type # "acknowledged" /\ e.alert \notin AckLocked
    BY <2>1, <2>3 DEF OrderInv
  <2> QED BY <1>0, <2>1, <2>3, <2>4, <2>5, AckFrame
<1>8. ASSUME NEW c \in Savers, NEW r \in Rules, NEW p, NEW v, NEW seed,
              BeginSave(c, r, p, v, seed)
      PROVE  AckInv'
  BY <1>1, <1>8 DEF BeginSave
<1>9. ASSUME NEW c \in Savers, RejectSave(c) \/ AbortSave(c)
      PROVE  AckInv'
  BY <1>1, <1>9 DEF RejectSave, AbortSave
<1>10. ASSUME NEW c \in Savers, ApplySave(c)
       PROVE  AckInv'
  <2>1. /\ DOMAIN db'.alerts = DOMAIN db.alerts /\ db.events \subseteq db'.events
        /\ \A e \in db'.events \ db.events : e.type # "acknowledged" /\ e.alert \notin AckLocked
        /\ nextEvent' \in Nat /\ nextEvent' >= nextEvent
    BY <1>10, ApplyShape
  <2>2. UNCHANGED <<acked, acking>>
    BY <1>10 DEF ApplySave
  <2> QED BY <2>1, <2>2, AckFrame
<1>11. ASSUME NEW c \in Ackers, NEW a \in DOMAIN db.alerts, BeginAck(c, a)
       PROVE  AckInv'
  <2> DEFINE mine == [alert |-> a, id |-> nextEvent]
  <2>1. /\ a \notin acked /\ a \notin AckLocked /\ nextEvent' = nextEvent + 1
        /\ UNCHANGED <<db, acked>> /\ acking' = [acking EXCEPT ![c] = mine]
        /\ acking[c] = None
    BY <1>11 DEF BeginAck, Acknowledgeable
  <2>2. mine.alert = a /\ mine.id = nextEvent
    OBVIOUS
  <2> HIDE DEF mine
  <2>3. acking'[c] = mine /\ \A b \in Ackers \ {c} : acking'[b] = acking[b]
    BY <1>0, <2>1
  <2>4. \A b \in Ackers : acking[b] # None => acking[b].alert # a /\ acking[b].id \in Nat
    BY <1>0, <2>1 DEF AckLocked
  <2>5. \A e \in db.events : e.id < nextEvent
    BY DEF CopiesInv, Good
  <2>6. ASSUME NEW b \in Ackers, acking'[b] # None
        PROVE  /\ acking'[b].alert \in DOMAIN db.alerts \ acked
               /\ acking'[b].id < nextEvent'
               /\ \A e \in db.events : e.alert = acking'[b].alert => e.id < acking'[b].id
    <3>1. CASE b = c
      BY <1>0, <2>1, <2>2, <2>3, <2>5, <3>1
    <3>2. CASE b # c
      BY <1>0, <2>1, <2>3, <2>4, <2>6, <3>2 DEF AckInv
    <3> QED BY <3>1, <3>2
  <2>7. \A b, d \in Ackers : acking'[b] # None /\ acking'[d] # None
                       /\ acking'[b].alert = acking'[d].alert => b = d
    <3>1. \A b, d \in Ackers : acking[b] # None /\ acking[d] # None
                         /\ acking[b].alert = acking[d].alert => b = d
      BY DEF AckInv
    <3>2. ASSUME NEW b \in Ackers, NEW d \in Ackers, acking'[b] # None, acking'[d] # None,
                 acking'[b].alert = acking'[d].alert
          PROVE  b = d
      <4>1. CASE b = c
        BY <2>2, <2>3, <2>4, <3>2, <4>1
      <4>2. CASE b # c /\ d = c
        BY <2>2, <2>3, <2>4, <3>2, <4>2
      <4>3. CASE b # c /\ d # c
        BY <2>3, <3>1, <3>2, <4>3
      <4> QED BY <4>1, <4>2, <4>3
    <3> QED BY <3>2
  <2> QED BY <2>1, <2>6, <2>7 DEF AckInv
<1>12. ASSUME NEW c \in Ackers, CommitAck(c)
       PROVE  AckInv'
  <2> DEFINE new == [id |-> acking[c].id, alert |-> acking[c].alert, type |-> "acknowledged"]
  <2>1. /\ acking[c] # None /\ db' = [db EXCEPT !.events = db.events \cup {new}]
        /\ acked' = acked \cup {acking[c].alert}
        /\ acking' = [acking EXCEPT ![c] = None] /\ nextEvent' = nextEvent
    BY <1>12 DEF CommitAck
  <2>2. /\ new.type = "acknowledged" /\ new.alert = acking[c].alert /\ new.id = acking[c].id
    OBVIOUS
  <2> HIDE DEF new
  <2>3. db'.alerts = db.alerts /\ db'.events = db.events \cup {new}
    BY <1>0, <2>1 DEF Tables
  <2>4. \A b \in Ackers : acking'[b] = IF b = c THEN None ELSE acking[b]
    BY <1>0, <2>1
  <2>5. /\ acking[c].alert \in DOMAIN db.alerts \ acked
        /\ \A e \in db.events : e.alert = acking[c].alert => e.type # "acknowledged"
    BY <2>1 DEF AckInv
  <2>6. \A b \in Ackers : acking'[b] # None => acking'[b].alert # acking[c].alert
    BY <2>1, <2>4 DEF AckInv
  <2>7. ASSUME NEW b \in Ackers, acking'[b] # None
        PROVE  /\ acking'[b].alert \in DOMAIN db'.alerts \ acked'
               /\ acking'[b].id < nextEvent'
               /\ \A e \in db'.events : e.alert = acking'[b].alert => e.id < acking'[b].id
    BY <2>1, <2>2, <2>3, <2>4, <2>6, <2>7 DEF AckInv
  <2>8. \A b, d \in Ackers : acking'[b] # None /\ acking'[d] # None
                       /\ acking'[b].alert = acking'[d].alert => b = d
    <3>1. \A b \in Ackers : acking'[b] # None => acking'[b] = acking[b]
      BY <2>4
    <3>2. \A b, d \in Ackers : acking[b] # None /\ acking[d] # None
                         /\ acking[b].alert = acking[d].alert => b = d
      BY DEF AckInv
    <3> QED BY <3>1, <3>2
  <2>9. \A a \in DOMAIN db'.alerts :
         a \in acked' <=> \E e \in db'.events : e.alert = a /\ e.type = "acknowledged"
    BY <2>1, <2>2, <2>3 DEF AckInv
  <2>10. \A e, f \in db'.events :
           /\ e.type = "acknowledged" /\ f.type = "acknowledged" /\ e.alert = f.alert
           => e = f
    BY <2>2, <2>3, <2>5 DEF AckInv
  <2> QED BY <2>7, <2>8, <2>9, <2>10 DEF AckInv
<1>13. ASSUME NEW c \in Ackers, AbortAck(c)
       PROVE  AckInv'
  <2>1. UNCHANGED <<db, acked, nextEvent>> /\ acking' = [acking EXCEPT ![c] = None]
    BY <1>13 DEF AbortAck
  <2>2. \A b \in Ackers : acking'[b] # None => acking'[b] = acking[b]
    BY <1>0, <2>1
  <2> QED BY <2>1, <2>2 DEF AckInv
<1> QED BY <1>2, <1>3, <1>5, <1>6, <1>7, <1>8, <1>9, <1>10, <1>11, <1>12, <1>13
        DEF Next, JobStep, SaveStep

LEMMA OrderStep ==
    Core /\ [Next]_vars => OrderInv'
<1> SUFFICES ASSUME Core, [Next]_vars PROVE OrderInv'
  OBVIOUS
<1> USE DEF Core
<1>0. /\ nextEvent \in Nat /\ job \in Job /\ db \in Tables
      /\ \A e \in db.events : e.id \in Nat /\ e.id < nextEvent
      /\ acking \in [Ackers -> {None} \cup [alert : Nat, id : Nat]]
  BY DEF Typed, TypeOK, CopiesInv, Good, Tables, Event
<1>1. ASSUME UNCHANGED <<db, acking>>, Running' => Running /\ job'.work = job.work
      PROVE  OrderInv'
  BY <1>1 DEF OrderInv, AckLocked
<1>2. CASE Tick \/ Busy \/ AbortJob \/ CommitJob \/ UNCHANGED vars
  <2>1. CASE CommitJob
    BY <2>1, RestingType DEF CommitJob, OrderInv, Running
  <2> QED BY <1>1, <1>2, <2>1, RestingType DEF Tick, Busy, AbortJob, vars, Running
<1>3. ASSUME NEW r, NEW at, NEW value, Observe(r, at, value)
      PROVE  OrderInv'
  BY <1>1, <1>3 DEF Observe, Running
<1>4. CASE Schedule
  <2>1. job'.phase = "start"
    BY <1>4, StartedType, Zenon DEF Schedule, Typed, TypeOK
  <2> QED BY <2>1 DEF OrderInv, Running
<1>5. CASE Start
  <2>1. job' = [job EXCEPT !.phase = "rules", !.high = Len(log), !.todo = EnabledRules,
                           !.work = db]
    BY <1>5 DEF Start
  <2>2. job'.work = db /\ db' = db
    BY <1>0, <1>5, <2>1 DEF Job, Start
  <2> QED BY <2>2 DEF OrderInv
<1>6. ASSUME NEW r \in Rules, NextRule(r)
      PROVE  OrderInv'
  <2> DEFINE batch == Arrivals(r, job.work.track[r].last, job.high)
  <2> HIDE DEF batch
  <2>1. job' = [job EXCEPT !.phase = "items", !.rule = r, !.batch = batch]
    BY <1>6 DEF NextRule, batch
  <2>2. job'.work = job.work
    BY <1>0, <2>1 DEF Job
  <2> QED BY <1>1, <1>6, <2>2 DEF NextRule, Running
<1>7. ASSUME Running, UNCHANGED <<db, acking>>,
             NEW n, Advances(job.work, n, db.events, Base), Rewrite(n), job'.work = n
      PROVE  OrderInv'
  <2>1. /\ {e.alert : e \in n.events \ job.work.events} \cap AckLocked = {}
        /\ Sound(n) /\ Fresh(job.work, Base) = nextEvent
    BY <1>7, NextId, RunReady
  <2>2. \A x \in n.events : x.id \in Nat
    BY <2>1 DEF Sound, Tables, Event
  <2>3. \A x \in n.events \ job.work.events : x.id >= nextEvent /\ x.type # "acknowledged"
    BY <1>7, <2>1 DEF Advances, Grows
  <2>4. AckLocked' = AckLocked
    BY <1>7 DEF AckLocked
  <2>5. ASSUME NEW x \in n.events \ db.events
        PROVE  /\ x.type # "acknowledged" /\ x.alert \notin AckLocked
               /\ \A e \in db.events : e.alert = x.alert => x.id > e.id
    <3>1. CASE x \in job.work.events
      BY <1>7, <3>1 DEF OrderInv
    <3>2. CASE x \notin job.work.events
      BY <1>0, <2>1, <2>2, <2>3, <3>2
    <3> QED BY <3>1, <3>2
  <2> QED BY <1>7, <2>4, <2>5 DEF OrderInv
<1>8. ASSUME NEW q \in DOMAIN log, EvaluateItem(q)
      PROVE  OrderInv'
  <2>1. Running
    BY <1>8, ItemShape, Zenon
  <2>2. PICK n : /\ Advances(job.work, n, db.events, Base) /\ Rewrite(n)
                 /\ job' = [job EXCEPT !.batch = @ \ {q}, !.work = n]
    BY <1>8, ItemShape, Zenon
  <2>3. job'.work = n
    BY <1>0, <2>2 DEF Job
  <2> QED BY <1>7, <1>8, <2>1, <2>2, <2>3, Zenon DEF EvaluateItem
<1>9. CASE FinishRule
  <2>1. Running
    BY <1>9, RuleShape, Zenon
  <2>2. PICK n : /\ Advances(job.work, n, db.events, Base) /\ Rewrite(n)
                 /\ job' = [job EXCEPT !.phase = "rules", !.rule = None,
                                       !.todo = @ \ {job.rule}, !.work = n]
    BY <1>9, RuleShape, Zenon
  <2>3. job'.work = n
    BY <1>0, <2>2 DEF Job
  <2> QED BY <1>7, <1>9, <2>1, <2>2, <2>3 DEF FinishRule
<1>10. ASSUME NEW c \in Savers, NEW r \in Rules, NEW p, NEW v, NEW seed,
              BeginSave(c, r, p, v, seed)
       PROVE  OrderInv'
  BY <1>1, <1>10 DEF BeginSave, Running
<1>11. ASSUME NEW c \in Savers, RejectSave(c) \/ AbortSave(c)
       PROVE  OrderInv'
  BY <1>1, <1>11, SMTT(20) DEF RejectSave, AbortSave, Running
<1>12. ASSUME NEW c \in Savers, ApplySave(c)
       PROVE  OrderInv'
  BY <1>12, ApplyShape DEF ApplySave, OrderInv, Running
<1>13. ASSUME NEW c \in Ackers, NEW a \in DOMAIN db.alerts, BeginAck(c, a)
       PROVE  OrderInv'
  <2> DEFINE mine == [alert |-> a, id |-> nextEvent]
  <2>1. /\ a \notin EvaluatorLocked /\ UNCHANGED <<db, job>>
        /\ acking' = [acking EXCEPT ![c] = mine]
    BY <1>13 DEF BeginAck, Acknowledgeable
  <2>2. mine.alert = a
    OBVIOUS
  <2> HIDE DEF mine
  <2>3. AckLocked' \subseteq AckLocked \cup {a}
    BY <1>0, <2>1, <2>2 DEF AckLocked
  <2>4. Running => \A n \in job.work.events \ db.events : n.alert # a
    BY <2>1 DEF EvaluatorLocked, Running
  <2> QED BY <2>1, <2>3, <2>4 DEF OrderInv, Running
<1>14. ASSUME NEW c \in Ackers, CommitAck(c)
       PROVE  OrderInv'
  <2> DEFINE new == [id |-> acking[c].id, alert |-> acking[c].alert, type |-> "acknowledged"]
  <2>1. /\ acking[c] # None /\ db' = [db EXCEPT !.events = db.events \cup {new}]
        /\ job' = job /\ acking' = [acking EXCEPT ![c] = None]
    BY <1>14 DEF CommitAck
  <2>2. new.alert \in AckLocked
    BY <2>1 DEF AckLocked
  <2> HIDE DEF new
  <2>3. db'.events = db.events \cup {new}
    BY <1>0, <2>1 DEF Tables
  <2>4. AckLocked' \subseteq AckLocked
    BY <1>0, <2>1 DEF AckLocked
  <2> QED BY <2>1, <2>2, <2>3, <2>4 DEF OrderInv, Running
<1>15. ASSUME NEW c \in Ackers, AbortAck(c)
       PROVE  OrderInv'
  <2>1. UNCHANGED <<db, job>> /\ acking' = [acking EXCEPT ![c] = None]
    BY <1>15 DEF AbortAck
  <2>2. AckLocked' \subseteq AckLocked
    BY <1>0, <2>1 DEF AckLocked
  <2> QED BY <2>1, <2>2 DEF OrderInv, Running
<1> QED BY <1>2, <1>3, <1>4, <1>5, <1>6, <1>8, <1>9, <1>10, <1>11, <1>12, <1>13, <1>14, <1>15
        DEF Next, JobStep, SaveStep

LEMMA CoreInit ==
    Init => Core
<1> SUFFICES ASSUME Init PROVE Core
  OBVIOUS
<1>1. Typed
  BY TypedInit
<1>2. /\ db.alerts = <<>> /\ db.events = {} /\ job = Resting /\ lock = None /\ nextEvent = 1
      /\ \A r \in Rules : rule[r].version = 0 /\ rule[r].updated = 0
      /\ \A c \in Savers : saving[c] = None
      /\ \A c \in Ackers : acking[c] = None
      /\ now = 0 /\ \A r \in Rules, k \in Kinds : db.cond[r][k].severity = "normal"
  BY DEF Init, Calm
<1>3. job.phase = "idle" /\ DOMAIN db.alerts = {}
  BY <1>2, RestingType
<1>4. LockInv
  BY <1>2, <1>3, AlertAssumption DEF LockInv, Running
<1>5. Sound(db)
  BY <1>1, <1>2, FS_EmptySet DEF Sound, Typed, TypeOK
<1>6. CopiesInv
  BY <1>2, <1>3, <1>5 DEF CopiesInv, Good, Current, Matched, Active, Told, Running
<1>7. AckInv /\ OrderInv
  <2>1. acked = {}
    BY DEF Init
  <2> QED BY <1>2, <1>3, <2>1 DEF AckInv, OrderInv, Running
<1> QED BY <1>1, <1>4, <1>6, <1>7 DEF Core
-----------------------------------------------------------------------------
(* What the position of a rule says: the arrivals it has passed since it   *)
(* started are the ones that were looked at.                               *)
Passed(t, r) == {q \in (t.from + 1)..t.last : log[q].rule = r}

(* Of the rule being worked on, only arrivals of the batch may be missing, *)
(* and no arrival before one of the batch is left out of it.               *)
PositionInv ==
    /\ \A r \in Rules :
         LET t == db.track[r]
         IN  t.from <= t.last /\ t.last <= Len(log) /\ t.handled = Passed(t, r)
    /\ Running => \A r \in Rules :
         LET t == job.work.track[r]
         IN  /\ t.from <= t.last /\ t.last <= job.high
             /\ (job.phase = "items" => r # job.rule) => t.handled = Passed(t, r)
    /\ job.phase = "items" =>
         LET t == job.work.track[job.rule]
         IN  /\ t.handled \subseteq Passed(t, job.rule)
             /\ \A q \in job.batch : q > t.from
             /\ \A x \in (t.from + 1)..Len(log) :
                  log[x].rule = job.rule /\ (x <= t.last \/ \E q \in job.batch : x <= q)
                  => x \in t.handled \cup job.batch

(* The missing-data condition of r in d is right at this time.             *)
StaleAt(d, r, time) ==
    (d.cond[r]["stale"].severity = "warning") <=>
        time # Never /\ time - SilentSince(r, d.track[r]) >= rule[r].params.stale

(* Committed, as of the last success; in the copy, for the rules done.     *)
StaleInv ==
    /\ \A r \in EnabledRules : StaleAt(db, r, lastSuccess)
    /\ Running => \A r \in EnabledRules \ job.todo : StaleAt(job.work, r, job.time)

(* Some reading reached the threshold, and none since fell below it by     *)
(* more than h.                                                            *)
Over(used, threshold, h) ==
    \E q \in used : /\ log[q].value >= threshold
                    /\ \A o \in used : log[o].at > log[q].at => log[o].value >= threshold - h

Threshold(p, severity) == IF severity = "critical" THEN p.critical ELSE p.warning

(* Readings that span the hold time, none in between below the threshold.  *)
Spanned(used, p, severity) ==
    \E first, last \in used :
       /\ log[last].at - log[first].at >= p.hold
       /\ \A q \in used : log[q].at \in log[first].at..log[last].at =>
            log[q].value >= Threshold(p, severity)

(* The readings used by a position: distinct times, none after its own.    *)
UsedInv(t) ==
    /\ t.used \subseteq 1..Len(log)
    /\ t.at = Never => t.used = {}
    /\ \A q \in t.used : log[q].value \in Levels /\ log[q].at <= t.at
    /\ \A q, o \in t.used : log[q].at = log[o].at => q = o

(* What a level condition c with these used readings says under p: its     *)
(* severity, and the pending one, whose hold began with a reading from     *)
(* which on none was below the pending threshold.                          *)
LevelOf(used, c, p) ==
    /\ c.severity = "critical" => Over(used, p.critical, p.hysteresis)
    /\ c.severity # "normal" => Over(used, p.warning, p.hysteresis)
    /\ p.hold = 0 =>
         /\ Over(used, p.critical, p.hysteresis) => c.severity = "critical"
         /\ Over(used, p.warning, p.hysteresis) => c.severity # "normal"
    /\ c.severity # "normal" => Spanned(used, p, c.severity)
    /\ c.pending \in {"warning", "critical"} =>
         \E first \in used :
            /\ log[first].at = c.since
            /\ \A q \in used : log[q].at >= c.since => log[q].value >= Threshold(p, c.pending)

LevelTold(d, r) ==
    /\ UsedInv(d.track[r])
    /\ IF rule[r].version > 0
       THEN LevelOf(d.track[r].used, d.cond[r]["level"], rule[r].params)
       ELSE d.cond[r]["level"].severity = "normal"

LevelInv ==
    /\ \A r \in Rules : LevelTold(db, r)
    /\ Running => \A r \in Rules : LevelTold(job.work, r)

IInv == Core /\ PositionInv /\ StaleInv /\ LevelInv
-----------------------------------------------------------------------------
(* A batch leaves out no arrival before one of its own.                    *)
LEMMA ArrivalsClosed ==
    ASSUME NEW r, NEW last \in Nat, NEW high \in Nat, NEW b \in Arrivals(r, last, high),
           NEW x \in Nat, x > last, x <= b, log[x].rule = r
    PROVE  x \in Arrivals(r, last, high)
<1> DEFINE new == {q \in 1..high : q > last /\ log[q].rule = r}
           before(y) == {p \in new : p < y}
<1>1. IsFiniteSet(new)
  <2>1. new \in SUBSET (1..high) /\ IsFiniteSet(1..high)
    BY FS_Interval
  <2> QED BY <2>1, FS_Subset
<1>2. IsFiniteSet(before(b))
  <2>1. before(b) \in SUBSET new
    OBVIOUS
  <2> QED BY <1>1, <2>1, FS_Subset
<1>3. b \in new /\ Cardinality(before(b)) < BatchLimit
  BY DEF Arrivals
<1>4. x \in new /\ before(x) \in SUBSET before(b)
  BY <1>3
<1>5. Cardinality(before(x)) <= Cardinality(before(b)) /\ IsFiniteSet(before(x))
  BY <1>2, <1>4, FS_Subset
<1>6. Cardinality(before(x)) \in Nat /\ Cardinality(before(b)) \in Nat /\ BatchLimit \in Nat
  BY <1>2, <1>5, FS_CardinalityType, AlertAssumption
<1>7. Cardinality(before(x)) < BatchLimit
  BY <1>3, <1>5, <1>6
<1> HIDE DEF new
<1> QED BY <1>4, <1>7 DEF Arrivals, new

LEMMA PositionStep ==
    Core /\ PositionInv /\ [Next]_vars => PositionInv'
<1> SUFFICES ASSUME Core, PositionInv, [Next]_vars PROVE PositionInv'
  OBVIOUS
<1> USE DEF Core
<1>0. /\ job \in Job /\ db \in Tables /\ Readable /\ Len(log) \in Nat
      /\ db.track \in [Rules -> Track] /\ db.alerts \in Seq(Alert)
  BY DEF Typed, TypeOK, Tables, Readable
<1>0a. Running => job.work.track \in [Rules -> Track] /\ job.work \in Tables
  BY DEF CopiesInv, Good, Sound, Tables
<1>1. ASSUME db'.track = db.track, UNCHANGED <<log, job>>
      PROVE  PositionInv'
  BY <1>1 DEF PositionInv, Passed, Running
<1>2. ASSUME UNCHANGED <<db, log>>, ~Running'
      PROVE  PositionInv'
  BY <1>2 DEF PositionInv, Passed, Running
<1>3. CASE Tick \/ UNCHANGED vars
  BY <1>1, <1>3 DEF Tick, vars
<1>4. CASE Schedule \/ Busy \/ AbortJob
  <2>1. ~Running'
    BY <1>4, StartedType, RestingType, Zenon
       DEF Schedule, Busy, AbortJob, Typed, TypeOK, Running
  <2> QED BY <1>2, <1>4, <2>1 DEF Schedule, Busy, AbortJob
<1>5. ASSUME NEW r, NEW at, NEW value, Observe(r, at, value)
      PROVE  PositionInv'
  <2>1. /\ Len(log') = Len(log) + 1 /\ \A q \in 1..Len(log) : log'[q] = log[q]
        /\ UNCHANGED <<db, job>>
    BY <1>0, <1>5, LogGrows DEF Observe
  <2>2. ASSUME NEW t \in Track, NEW o, t.last <= Len(log)
        PROVE  Passed(t, o)' = Passed(t, o)
    BY <1>0, <2>1, <2>2 DEF Passed, Track
  <2>3. ASSUME NEW o \in Rules
        PROVE  LET t == db.track[o]
               IN  t.from <= t.last /\ t.last <= Len(log') /\ t.handled = Passed(t, o)'
    <3> DEFINE t == db.track[o]
    <3>1. /\ t \in Track /\ t.last \in Nat
          /\ t.from <= t.last /\ t.last <= Len(log) /\ t.handled = Passed(t, o)
      BY <1>0 DEF PositionInv, Track
    <3>2. Passed(t, o)' = Passed(t, o)
      BY <2>1, <2>2, <3>1
    <3> QED BY <1>0, <2>1, <3>1, <3>2
  <2>4. Running => job.high <= Len(log) /\ job.high \in Nat
    BY <1>0 DEF LockInv, Job
  <2>5. ASSUME Running, NEW o \in Rules
        PROVE  LET t == job.work.track[o]
               IN  /\ t.from <= t.last /\ t.last <= job.high
                   /\ (job.phase = "items" => o # job.rule) => t.handled = Passed(t, o)'
    <3> DEFINE t == job.work.track[o]
    <3>1. t \in Track /\ t.last <= job.high /\ t.last \in Nat
      BY <1>0a, <2>5 DEF PositionInv, Track
    <3>2. Passed(t, o)' = Passed(t, o)
      BY <1>0, <2>1, <2>2, <2>4, <2>5, <3>1
    <3> QED BY <2>5, <3>2 DEF PositionInv
  <2>6. ASSUME job.phase = "items"
        PROVE  LET t == job.work.track[job.rule]
               IN  /\ t.handled \subseteq Passed(t, job.rule)'
                   /\ \A q \in job.batch : q > t.from
                   /\ \A x \in (t.from + 1)..Len(log') :
                        log'[x].rule = job.rule /\ (x <= t.last \/ \E q \in job.batch : x <= q)
                        => x \in t.handled \cup job.batch
    <3> DEFINE t == job.work.track[job.rule]
    <3>1. Running /\ job.rule \in Rules /\ \A q \in job.batch : q \in 1..job.high
      BY <1>0, <2>6 DEF LockInv, Running, EnabledRules
    <3>2. t \in Track /\ t.last <= job.high /\ t.last \in Nat /\ t.from \in Nat
      BY <1>0a, <3>1 DEF PositionInv, Track
    <3>3. Passed(t, job.rule)' = Passed(t, job.rule)
      BY <1>0, <2>1, <2>2, <2>4, <3>1, <3>2
    <3>4. ASSUME NEW x \in (t.from + 1)..Len(log'), x <= t.last \/ \E q \in job.batch : x <= q
          PROVE  x \in 1..Len(log) /\ log'[x] = log[x]
      BY <1>0, <2>1, <2>4, <3>1, <3>2, <3>4
    <3> HIDE DEF t
    <3>5. \A x \in (t.from + 1)..Len(log') :
             log'[x].rule = job.rule /\ (x <= t.last \/ \E q \in job.batch : x <= q)
             => x \in t.handled \cup job.batch
      <4>1. ASSUME NEW x \in (t.from + 1)..Len(log'), log'[x].rule = job.rule,
                   x <= t.last \/ \E q \in job.batch : x <= q
            PROVE  x \in t.handled \cup job.batch
        <5>1. x \in (t.from + 1)..Len(log) /\ log[x].rule = job.rule
          BY <1>0, <2>1, <3>2, <3>4, <4>1
        <5> QED BY <2>6, <4>1, <5>1 DEF PositionInv, t
      <4> QED BY <4>1
    <3> QED BY <2>6, <3>3, <3>5 DEF PositionInv, t
  <2> QED BY <2>1, <2>3, <2>5, <2>6 DEF PositionInv, Running
<1>6. CASE Start
  <2>1. job' = [job EXCEPT !.phase = "rules", !.high = Len(log), !.todo = EnabledRules,
                           !.work = db]
    BY <1>6 DEF Start
  <2>2. job'.work = db /\ job'.phase = "rules" /\ job'.high = Len(log)
        /\ UNCHANGED <<db, log>>
    BY <1>0, <1>6, <2>1 DEF Job, Start
  <2> QED BY <2>2 DEF PositionInv, Passed, Running
<1>7. ASSUME NEW r \in Rules, NextRule(r)
      PROVE  PositionInv'
  <2> DEFINE t == job.work.track[r]
             batch == Arrivals(r, t.last, job.high)
  <2>1. /\ Running /\ job.phase = "rules" /\ job' = [job EXCEPT !.phase = "items", !.rule = r,
                                                               !.batch = batch]
        /\ UNCHANGED <<db, log>>
    BY <1>7 DEF NextRule, Running
  <2>2. /\ t \in Track /\ t.from \in Nat /\ t.last \in Nat /\ t.from <= t.last
        /\ t.handled = Passed(t, r) /\ job.high \in Nat
    BY <1>0, <1>0a, <2>1 DEF PositionInv, Track, Job
  <2>3. \A q \in batch : q \in Nat /\ q > t.last
    BY <2>2 DEF Arrivals
  <2>4. \A x \in (t.from + 1)..Len(log) :
           log[x].rule = r /\ (x <= t.last \/ \E q \in batch : x <= q)
           => x \in t.handled \cup batch
    <3>1. ASSUME NEW x \in (t.from + 1)..Len(log), log[x].rule = r, x <= t.last
          PROVE  x \in t.handled
      BY <1>0, <2>2, <3>1 DEF Passed
    <3>2. ASSUME NEW x \in (t.from + 1)..Len(log), log[x].rule = r, x > t.last,
                 NEW q \in batch, x <= q
          PROVE  x \in batch
      <4>1. x \in Nat
        BY <1>0, <2>2
      <4> QED BY <2>2, <3>2, <4>1, ArrivalsClosed
    <3> HIDE DEF batch
    <3> QED BY <1>0, <2>2, <3>1, <3>2
  <2> HIDE DEF batch
  <2>5. /\ job'.phase = "items" /\ job'.rule = r /\ job'.batch = batch /\ job'.work = job.work
        /\ job'.high = job.high
    BY <1>0, <2>1 DEF Job
  <2>6. \A q \in batch : q > t.from
    BY <2>2, <2>3
  <2> QED BY <2>1, <2>2, <2>4, <2>5, <2>6 DEF PositionInv, Passed, Running
<1>8. ASSUME NEW q \in DOMAIN log, EvaluateItem(q)
      PROVE  PositionInv'
  <2> DEFINE r == job.rule
             w == job.work
             t == w.track[r]
  <2>1. PICK n : job' = [job EXCEPT !.batch = @ \ {q}, !.work = n] /\ ItemDone(n, q)
    BY <1>8, ItemShape, Zenon
  <2>2. /\ Running /\ r \in Rules /\ q \in job.batch /\ job.phase = "items"
        /\ UNCHANGED <<db, log>>
    BY <1>8, ItemShape, Zenon DEF EvaluateItem, EnabledRules
  <2>3. /\ job'.phase = "items" /\ job'.rule = r /\ job'.batch = job.batch \ {q}
        /\ job'.work = n /\ job'.high = job.high /\ job.high \in Nat
    BY <1>0, <2>1, <2>2 DEF Job
  <2>4. /\ t \in Track /\ t.from \in Nat /\ t.last \in Nat /\ t.from <= t.last
        /\ t.last <= job.high
    BY <1>0a, <2>2 DEF PositionInv, Track
  <2>5. q \in 1..job.high /\ log[q].rule = r /\ q > t.from /\ q \in Nat
    BY <2>2, <2>3, SMTT(20) DEF LockInv, PositionInv
  <2> DEFINE u == n.track[r]
  <2>6. /\ u.last = Max(t.last, q) /\ u.from = t.from /\ u.handled = t.handled \cup {q}
        /\ \A o \in Rules \ {r} : n.track[o] = w.track[o]
    BY <2>1 DEF ItemDone
  <2> HIDE DEF u, t, r, w
  <2>7. u.last \in Nat /\ t.last <= u.last /\ q <= u.last /\ u.last <= job.high
        /\ (u.last = t.last \/ u.last = q)
    BY <2>3, <2>4, <2>5, <2>6 DEF Max
  <2>8. u.handled \subseteq Passed(u, r)
    <3>1. t.handled \subseteq Passed(t, r)
      BY <2>2 DEF PositionInv, t, r, w
    <3>2. Passed(t, r) \subseteq Passed(u, r)
      BY <2>4, <2>6, <2>7 DEF Passed
    <3>3. q \in Passed(u, r)
      BY <2>4, <2>5, <2>6, <2>7 DEF Passed
    <3> QED BY <2>6, <3>1, <3>2, <3>3
  <2>9. ASSUME NEW x \in (u.from + 1)..Len(log), log[x].rule = r,
               x <= u.last \/ \E b \in job.batch \ {q} : x <= b
        PROVE  x \in u.handled \cup (job.batch \ {q})
    <3>1. x \in (t.from + 1)..Len(log) /\ (x <= t.last \/ \E b \in job.batch : x <= b)
      BY <1>0, <2>2, <2>4, <2>6, <2>7, <2>9
    <3>2. x \in t.handled \cup job.batch
      BY <2>2, <2>9, <3>1 DEF PositionInv, t, r, w
    <3> QED BY <2>6, <3>2
  <2>10. \A b \in job.batch \ {q} : b > u.from
    BY <2>2, <2>6 DEF PositionInv, t, r, w
  <2>11. ASSUME NEW o \in Rules
         PROVE  /\ n.track[o].from <= n.track[o].last /\ n.track[o].last <= job.high
                /\ o # r => n.track[o].handled = Passed(n.track[o], o)
    <3>1. CASE o = r
      BY <2>4, <2>6, <2>7, <3>1 DEF u
    <3>2. CASE o # r
      BY <2>2, <2>6, <3>2 DEF PositionInv, t, r, w
    <3> QED BY <3>1, <3>2
  <2>12. n.track[job'.rule] = u
    BY <2>3 DEF u
  <2> QED BY <2>2, <2>3, <2>8, <2>9, <2>10, <2>11, <2>12 DEF PositionInv, Passed, Running
<1>9. CASE FinishRule
  <2> DEFINE r == job.rule
             t == job.work.track[r]
  <2>1. /\ Running /\ r \in Rules /\ job.batch = {} /\ job.phase = "items"
        /\ UNCHANGED <<db, log>>
    BY <1>9, RuleShape, Zenon DEF FinishRule, EnabledRules
  <2>2. PICK n : /\ job' = [job EXCEPT !.phase = "rules", !.rule = None,
                                       !.todo = @ \ {job.rule}, !.work = n]
                 /\ RuleDone(n)
    BY <1>9, RuleShape, Zenon
  <2>3. job'.phase = "rules" /\ job'.work = n /\ job'.high = job.high /\ n.track = job.work.track
    BY <1>0, <2>2 DEF Job, RuleDone
  <2>4. t.handled = Passed(t, r)
    <3>1. t \in Track /\ t.last <= job.high /\ job.high <= Len(log) /\ job.high \in Nat
          /\ t.from \in Nat /\ t.last \in Nat
      BY <1>0, <1>0a, <2>1 DEF PositionInv, LockInv, Track, Job
    <3>2. Passed(t, r) \subseteq t.handled
      BY <1>0, <2>1, <3>1 DEF PositionInv, Passed
    <3> QED BY <2>1, <3>2 DEF PositionInv
  <2> QED BY <2>1, <2>3, <2>4 DEF PositionInv, Passed, Running
<1>10. CASE CommitJob
  <2> DEFINE all == job.work.events \cup db.events
  <2>1. /\ Running /\ job.phase = "rules" /\ job' = Resting /\ log' = log
        /\ db' = [job.work EXCEPT !.events = all]
    BY <1>10 DEF CommitJob, Running
  <2> HIDE DEF all
  <2>2. db'.track = job.work.track /\ ~Running'
    BY <1>0a, <2>1, RestingType DEF Tables, Running
  <2>3. job.high <= Len(log) /\ job.high \in Nat
    BY <1>0, <2>1 DEF LockInv, Job
  <2>4. \A r \in Rules : LET t == job.work.track[r]
                         IN  t.from <= t.last /\ t.last <= Len(log) /\ t.handled = Passed(t, r)
    BY <1>0, <1>0a, <2>1, <2>3 DEF PositionInv, Track
  <2> QED BY <2>1, <2>2, <2>4 DEF PositionInv, Passed, Running
<1>11. ASSUME NEW c \in Savers, NEW r, NEW p, NEW v, NEW seed, BeginSave(c, r, p, v, seed)
       PROVE  PositionInv'
  BY <1>1, <1>11 DEF BeginSave
<1>12. ASSUME NEW c \in Savers, RejectSave(c) \/ AbortSave(c)
       PROVE  PositionInv'
  BY <1>1, <1>12 DEF RejectSave, AbortSave
<1>13. ASSUME NEW c \in Savers, ApplySave(c)
       PROVE  PositionInv'
  <2> DEFINE r == saving[c].rule
             u == Unseen(Len(log))
  <2>1. r \in Rules /\ ~Running /\ db'.track = [db.track EXCEPT ![r] = u]
    BY <1>13, ApplyShape
  <2>2. UNCHANGED <<log, job>>
    BY <1>13 DEF ApplySave
  <2>3. u.from = Len(log) /\ u.last = Len(log) /\ u.handled = {}
    BY DEF Unseen
  <2>4. Passed(u, r) = {}
    BY <1>0, <2>3 DEF Passed
  <2> HIDE DEF u, r
  <2>5. \A o \in Rules : db'.track[o] = IF o = r THEN u ELSE db.track[o]
    BY <1>0, <2>1
  <2>6. \A o \in Rules : LET t == db'.track[o]
                         IN  t.from <= t.last /\ t.last <= Len(log) /\ t.handled = Passed(t, o)
    <3>1. u.from <= u.last /\ u.last <= Len(log) /\ u.handled = Passed(u, r)
      BY <1>0, <2>3, <2>4
    <3>2. \A o \in Rules : LET t == db.track[o]
                           IN  /\ t.from <= t.last /\ t.last <= Len(log)
                               /\ t.handled = Passed(t, o)
      BY DEF PositionInv
    <3> QED BY <2>5, <3>1, <3>2
  <2> QED BY <2>1, <2>2, <2>6 DEF PositionInv, Passed, Running
<1>14. ASSUME NEW c \in Ackers, NEW a, BeginAck(c, a)
       PROVE  PositionInv'
  BY <1>1, <1>14 DEF BeginAck
<1>15. ASSUME NEW c \in Ackers, CommitAck(c) \/ AbortAck(c)
       PROVE  PositionInv'
  <2>1. db'.track = db.track
    BY <1>0, <1>15 DEF CommitAck, AbortAck, Tables
  <2> QED BY <1>1, <1>15, <2>1 DEF CommitAck, AbortAck
<1> QED BY <1>3, <1>4, <1>5, <1>6, <1>7, <1>8, <1>9, <1>10, <1>11, <1>12, <1>13, <1>14, <1>15
        DEF Next, JobStep, SaveStep
-----------------------------------------------------------------------------
LEMMA StaleStep ==
    Core /\ StaleInv /\ [Next]_vars => StaleInv'
<1> SUFFICES ASSUME Core, StaleInv, [Next]_vars PROVE StaleInv'
  OBVIOUS
<1> USE DEF Core
<1>0. /\ job \in Job /\ db \in Tables /\ now \in Nat /\ job.time \in 0..now
      /\ lastSuccess \in {Never} \cup 0..now
      /\ db.track \in [Rules -> Track] /\ db.cond \in [Rules -> [Kinds -> Condition]]
      /\ rule \in [Rules -> [version : Nat, params : Params \cup {None}, updated : Nat]]
  BY DEF Typed, TypeOK, Tables
<1>1. ASSUME db'.track = db.track, db'.cond = db.cond, UNCHANGED <<rule, lastSuccess>>,
             Running' => /\ Running /\ job'.work = job.work /\ job'.todo = job.todo
                         /\ job'.time = job.time
      PROVE  StaleInv'
  BY <1>1 DEF StaleInv, StaleAt, SilentSince, EnabledRules
<1>2. CASE Tick \/ UNCHANGED vars
  BY <1>1, <1>2 DEF Tick, vars, Running
<1>3. CASE Schedule \/ Busy \/ AbortJob
  <2>1. ~Running'
    BY <1>3, StartedType, RestingType, Zenon
       DEF Schedule, Busy, AbortJob, Typed, TypeOK, Running
  <2> QED BY <1>1, <1>3, <2>1 DEF Schedule, Busy, AbortJob
<1>4. ASSUME NEW r, NEW at, NEW value, Observe(r, at, value)
      PROVE  StaleInv'
  BY <1>1, <1>4 DEF Observe, Running
<1>5. CASE Start
  <2>1. job' = [job EXCEPT !.phase = "rules", !.high = Len(log), !.todo = EnabledRules,
                           !.work = db]
    BY <1>5 DEF Start
  <2>2. job'.todo = EnabledRules /\ UNCHANGED <<db, rule, lastSuccess>>
    BY <1>0, <1>5, <2>1 DEF Job, Start
  <2> QED BY <2>2 DEF StaleInv, StaleAt, SilentSince, EnabledRules
<1>6. ASSUME NEW r \in Rules, NextRule(r)
      PROVE  StaleInv'
  <2> DEFINE batch == Arrivals(r, job.work.track[r].last, job.high)
  <2> HIDE DEF batch
  <2>1. job' = [job EXCEPT !.phase = "items", !.rule = r, !.batch = batch]
    BY <1>6 DEF NextRule, batch
  <2>2. job'.work = job.work /\ job'.todo = job.todo /\ job'.time = job.time
    BY <1>0, <2>1 DEF Job
  <2> QED BY <1>1, <1>6, <2>2 DEF NextRule, Running
<1>7. ASSUME Running, UNCHANGED <<db, rule, lastSuccess>>, NEW n, job'.work = n,
             job'.time = job.time, NEW o \in job.todo, job.todo \ {o} \subseteq job'.todo,
             \A r \in Rules \ {o} : n.track[r] = job.work.track[r] /\ n.cond[r] = job.work.cond[r],
             o \notin job'.todo => StaleAt(n, o, job.time)
      PROVE  StaleInv'
  <2>1. \A r \in EnabledRules \ job'.todo : StaleAt(n, r, job.time)
    <3>1. ASSUME NEW r \in EnabledRules \ job'.todo, r # o
          PROVE  StaleAt(n, r, job.time)
      <4>1. r \in EnabledRules \ job.todo /\ r \in Rules \ {o}
        BY <1>7, <3>1 DEF EnabledRules
      <4>2. StaleAt(job.work, r, job.time)
        BY <1>7, <4>1 DEF StaleInv
      <4> QED BY <1>7, <4>1, <4>2 DEF StaleAt
    <3> QED BY <1>7, <3>1
  <2> QED BY <1>7, <2>1 DEF StaleInv, StaleAt, SilentSince, EnabledRules
<1>8. ASSUME NEW q \in DOMAIN log, EvaluateItem(q)
      PROVE  StaleInv'
  <2>1. Running /\ job.rule \in job.todo /\ UNCHANGED <<db, rule, lastSuccess>>
    BY <1>8, ItemShape, Zenon DEF EvaluateItem, LockInv
  <2>2. PICK n : job' = [job EXCEPT !.batch = @ \ {q}, !.work = n] /\ ItemDone(n, q)
    BY <1>8, ItemShape, Zenon
  <2>3. job'.work = n /\ job'.time = job.time /\ job'.todo = job.todo
    BY <1>0, <2>2, SMTT(20) DEF Job
  <2>4. \A r \in Rules \ {job.rule} : /\ n.track[r] = job.work.track[r]
                                      /\ n.cond[r] = job.work.cond[r]
    BY <2>2 DEF ItemDone
  <2> QED BY <1>7, <2>1, <2>3, <2>4
<1>9. CASE FinishRule
  <2>1. Running /\ job.rule \in job.todo /\ UNCHANGED <<db, rule, lastSuccess>>
    BY <1>9, RuleShape, Zenon DEF FinishRule, LockInv
  <2>2. PICK n : /\ job' = [job EXCEPT !.phase = "rules", !.rule = None,
                                       !.todo = @ \ {job.rule}, !.work = n]
                 /\ RuleDone(n)
    BY <1>9, RuleShape, Zenon
  <2>3. job'.work = n /\ job'.time = job.time /\ job'.todo = job.todo \ {job.rule}
    BY <1>0, <2>2 DEF Job
  <2>4. \A r \in Rules \ {job.rule} : /\ n.track[r] = job.work.track[r]
                                      /\ n.cond[r] = job.work.cond[r]
    BY <2>2 DEF RuleDone
  <2>5. StaleAt(n, job.rule, job.time)
    <3>1. job.time # Never
      BY <1>0 DEF Never
    <3>2. /\ n.track = job.work.track
          /\ n.cond[job.rule]["stale"].severity =
               IF job.time - SilentSince(job.rule, job.work.track[job.rule])
                    >= rule[job.rule].params.stale
               THEN "warning" ELSE "normal"
      BY <2>2 DEF RuleDone
    <3> QED BY <3>1, <3>2 DEF StaleAt
  <2> QED BY <1>7, <2>1, <2>3, <2>4, <2>5
<1>10. CASE CommitJob
  <2> DEFINE all == job.work.events \cup db.events
  <2>1. /\ Running /\ job.todo = {} /\ job' = Resting /\ rule' = rule
        /\ db' = [job.work EXCEPT !.events = all] /\ lastSuccess' = job.time
    BY <1>10 DEF CommitJob, Running
  <2> HIDE DEF all
  <2>2. job.work \in Tables
    BY <2>1 DEF CopiesInv, Good, Sound
  <2>3. db'.track = job.work.track /\ db'.cond = job.work.cond /\ ~Running'
    BY <2>1, <2>2, RestingType DEF Tables, Running
  <2>4. \A r \in EnabledRules : StaleAt(job.work, r, job.time)
    BY <2>1 DEF StaleInv
  <2> QED BY <2>1, <2>3, <2>4 DEF StaleInv, StaleAt, SilentSince, EnabledRules
<1>11. ASSUME NEW c \in Savers, NEW r, NEW p, NEW v, NEW seed, BeginSave(c, r, p, v, seed)
       PROVE  StaleInv'
  BY <1>1, <1>11 DEF BeginSave, Running
<1>12. ASSUME NEW c \in Savers, RejectSave(c) \/ AbortSave(c)
       PROVE  StaleInv'
  BY <1>1, <1>12 DEF RejectSave, AbortSave, Running
<1>13. ASSUME NEW c \in Savers, ApplySave(c)
       PROVE  StaleInv'
  <2> DEFINE r == saving[c].rule
             p == saving[c].params
             u == Unseen(Len(log))
             row == [k \in Kinds |-> Calm]
             new == [version |-> rule[r].version + 1, updated |-> now, params |-> p]
  <2>1. /\ r \in Rules /\ ~Running /\ p \in Params
        /\ rule' = [rule EXCEPT ![r] = new]
        /\ db'.track = [db.track EXCEPT ![r] = u]
        /\ db'.cond = [db.cond EXCEPT ![r] = row]
    BY <1>13, ApplyShape
  <2>2. UNCHANGED <<lastSuccess, job>>
    BY <1>13 DEF ApplySave
  <2>3. u.at = Never /\ row["stale"].severity = "normal" /\ new.updated = now /\ new.params = p
    BY DEF Unseen, Kinds, Calm
  <2>4. p.stale \in Int /\ p.stale > 0
    <3>1. ValidParams(p)
      BY <2>1, AlertAssumption
    <3>2. p.minimum \in Nat /\ p.stale \in Nat
      BY <3>1 DEF ValidParams, ParamType
    <3> QED BY <3>1, <3>2 DEF ValidParams
  <2> HIDE DEF u, row, new, r, p
  <2>5. \A o \in Rules : IF o = r THEN rule'[o] = new /\ db'.track[o] = u /\ db'.cond[o] = row
                         ELSE rule'[o] = rule[o] /\ db'.track[o] = db.track[o]
                              /\ db'.cond[o] = db.cond[o]
    BY <1>0, <2>1
  <2>6. ASSUME NEW o \in EnabledRules'
        PROVE  StaleAt(db, o, lastSuccess)'
    <3>1. CASE o = r
      <4>1. ~(lastSuccess # Never /\ lastSuccess - now >= p.stale)
        BY <1>0, <2>4
      <4> QED BY <2>1, <2>2, <2>3, <2>5, <3>1, <4>1 DEF StaleAt, SilentSince
    <3>2. CASE o # r
      <4>1. o \in EnabledRules
        BY <2>5, <3>2 DEF EnabledRules
      <4> QED BY <2>2, <2>5, <3>2, <4>1 DEF StaleInv, StaleAt, SilentSince, EnabledRules
    <3> QED BY <3>1, <3>2
  <2> QED BY <2>1, <2>2, <2>6 DEF StaleInv, Running
<1>14. ASSUME NEW c \in Ackers, NEW a, BeginAck(c, a)
       PROVE  StaleInv'
  BY <1>1, <1>14 DEF BeginAck, Running
<1>15. ASSUME NEW c \in Ackers, CommitAck(c) \/ AbortAck(c)
       PROVE  StaleInv'
  <2>1. db'.track = db.track /\ db'.cond = db.cond
    BY <1>0, <1>15 DEF CommitAck, AbortAck, Tables
  <2> QED BY <1>1, <1>15, <2>1 DEF CommitAck, AbortAck, Running
<1> QED BY <1>2, <1>3, <1>4, <1>5, <1>6, <1>8, <1>9, <1>10, <1>11, <1>12, <1>13, <1>14, <1>15
        DEF Next, JobStep, SaveStep
-----------------------------------------------------------------------------
(* One more reading, later than the others.                                *)
LEMMA OverGrows ==
    ASSUME NEW u, NEW q, \A x \in u \cup {q} : log[x].at \in Int /\ log[x].value \in Int,
           \A x \in u : log[x].at < log[q].at,
           NEW threshold \in Int, NEW h \in Nat
    PROVE  Over(u \cup {q}, threshold, h) <=>
             \/ log[q].value >= threshold
             \/ Over(u, threshold, h) /\ log[q].value >= threshold - h
<1> DEFINE v == u \cup {q}
<1>1. ASSUME log[q].value >= threshold
      PROVE  Over(v, threshold, h)
  <2>1. \A o \in v : ~(log[o].at > log[q].at)
    OBVIOUS
  <2> QED BY <1>1, <2>1 DEF Over
<1>2. ASSUME Over(u, threshold, h), log[q].value >= threshold - h
      PROVE  Over(v, threshold, h)
  BY <1>2 DEF Over
<1>3. ASSUME Over(v, threshold, h), ~(log[q].value >= threshold)
      PROVE  Over(u, threshold, h) /\ log[q].value >= threshold - h
  <2>1. PICK x \in v : /\ log[x].value >= threshold
                       /\ \A o \in v : log[o].at > log[x].at => log[o].value >= threshold - h
    BY <1>3 DEF Over
  <2>2. x \in u /\ log[q].at > log[x].at
    BY <1>3, <2>1
  <2> QED BY <2>1, <2>2 DEF Over
<1> HIDE DEF v
<1> QED BY <1>1, <1>2, <1>3 DEF v

LEMMA ClassifyMeans ==
    ASSUME NEW v \in Int, NEW w \in Int, NEW c \in Int, NEW h \in Nat, h < c - w,
           NEW s \in Severities
    PROVE  LET t == Classify(v, w, c, h, s)
           IN  /\ t \in Severities
               /\ t = "critical" <=> v >= c \/ (s = "critical" /\ v >= c - h)
               /\ t # "normal" <=> v >= w \/ (s # "normal" /\ v >= w - h)
BY DEF Classify, Severities

(* The readings that span the hold before a later one still do, and for a  *)
(* lower severity too.                                                     *)
LEMMA SpannedStays ==
    ASSUME NEW u, NEW q, \A x \in u \cup {q} : log[x].at \in Int /\ log[x].value \in Int,
           \A x \in u : log[x].at < log[q].at,
           NEW p, NEW s, NEW t, Threshold(p, s) \in Int, Threshold(p, t) \in Int,
           Threshold(p, t) <= Threshold(p, s), Spanned(u, p, s)
    PROVE  Spanned(u \cup {q}, p, t)
<1>1. PICK first, last \in u :
         /\ log[last].at - log[first].at >= p.hold
         /\ \A x \in u : log[x].at \in log[first].at..log[last].at =>
              log[x].value >= Threshold(p, s)
  BY DEF Spanned
<1>2. ASSUME NEW x \in u \cup {q}, log[x].at \in log[first].at..log[last].at
      PROVE  log[x].value >= Threshold(p, t)
  <2>1. x \in u
    BY <1>2
  <2> QED BY <1>1, <1>2, <2>1
<1> QED BY <1>1, <1>2 DEF Spanned

(* One more reading, and what transition makes of the level for it.        *)
LEMMA LevelGoesOn ==
    ASSUME NEW u, NEW q, \A x \in u \cup {q} : log[x].at \in Int /\ log[x].value \in Int,
           \A x \in u : log[x].at < log[q].at,
           NEW r, ValidParams(rule[r].params), NEW i \in Condition,
           LevelOf(u, i, rule[r].params), NEW n,
           LET p == rule[r].params
           IN  Outcome(i, n, r, "level",
                       Classify(log[q].value, p.warning, p.critical, p.hysteresis, i.severity),
                       log[q].at)
    PROVE  LevelOf(u \cup {q}, n, rule[r].params)
<1> DEFINE p == rule[r].params
           v == log[q].value
           at == log[q].at
           s == i.severity
           t == Classify(v, p.warning, p.critical, p.hysteresis, s)
           uq == u \cup {q}
<1>1. /\ p.warning \in Int /\ p.critical \in Int /\ p.hysteresis \in Nat /\ p.hold \in Nat
      /\ p.warning < p.critical /\ p.hysteresis < p.critical - p.warning
  BY DEF ValidParams, ParamType
<1>2. v \in Int /\ at \in Int /\ s \in Severities /\ i.pending \in {None, "warning", "critical"}
  BY DEF Condition
<1>3. Outcome(i, n, r, "level", t, at) /\ LevelOf(u, i, p)
  OBVIOUS
<1> HIDE DEF p, v, at, s, t
<1>3a. t = Classify(v, p.warning, p.critical, p.hysteresis, s)
  BY DEF t
<1>4. /\ t \in Severities
      /\ t = "critical" <=> v >= p.critical \/ (s = "critical" /\ v >= p.critical - p.hysteresis)
      /\ t # "normal" <=> v >= p.warning \/ (s # "normal" /\ v >= p.warning - p.hysteresis)
  BY <1>1, <1>2, <1>3a, ClassifyMeans
<1>5. /\ Over(uq, p.critical, p.hysteresis) <=>
           v >= p.critical \/ (Over(u, p.critical, p.hysteresis) /\ v >= p.critical - p.hysteresis)
      /\ Over(uq, p.warning, p.hysteresis) <=>
           v >= p.warning \/ (Over(u, p.warning, p.hysteresis) /\ v >= p.warning - p.hysteresis)
  BY <1>1, OverGrows DEF v
<1>6. /\ s = "critical" => Over(u, p.critical, p.hysteresis)
      /\ s # "normal" => Over(u, p.warning, p.hysteresis)
      /\ p.hold = 0 => /\ Over(u, p.critical, p.hysteresis) => s = "critical"
                       /\ Over(u, p.warning, p.hysteresis) => s # "normal"
      /\ s # "normal" => Spanned(u, p, s)
  BY <1>3 DEF LevelOf, s
<1>7. /\ t = "critical" => Over(uq, p.critical, p.hysteresis)
      /\ t # "normal" => Over(uq, p.warning, p.hysteresis)
      /\ p.hold = 0 => /\ Over(uq, p.critical, p.hysteresis) => t = "critical"
                       /\ Over(uq, p.warning, p.hysteresis) => t # "normal"
  BY <1>4, <1>5, <1>6
<1>8. s # "normal" => Spanned(uq, p, s)
  <2>1. Threshold(p, s) \in Int
    BY <1>1 DEF Threshold
  <2> QED BY <1>6, <2>1, SpannedStays
<1>9. \A x \in uq : log[x].at >= at => x = q
  BY DEF at
<1>10. CASE t = s /\ n = Cleared(i)
  <2>1. n.severity = s /\ n.pending = None
    BY <1>10, ConditionFields DEF s
  <2>2. n.pending \notin {"warning", "critical"}
    BY <2>1, AlertAssumption
  <2> QED BY <1>7, <1>8, <1>10, <2>1, <2>2 DEF LevelOf, p
<1>11. CASE Holding(i, r, "level", t, at) /\ n = Pended(i, t, at)
  <2>1. /\ n.severity = s /\ n.pending = t /\ n.since = HeldSince(i, t, at)
        /\ t \in {"warning", "critical"} /\ t # s /\ ~(s = "critical" /\ t = "warning")
        /\ at - HeldSince(i, t, at) < p.hold
    BY <1>4, <1>11, ConditionFields DEF s, p, Holding, Severities
  <2>2. \/ t = "critical" /\ s # "critical"
        \/ t = "warning" /\ s = "normal"
    BY <1>2, <2>1 DEF Severities
  <2>3. v >= Threshold(p, t)
    BY <1>4, <2>2 DEF Threshold
  <2>4. \E first \in uq :
           /\ log[first].at = n.since
           /\ \A x \in uq : log[x].at >= n.since => log[x].value >= Threshold(p, t)
    <3>1. CASE i.pending = t
      <4>1. PICK first \in u :
               /\ log[first].at = i.since
               /\ \A x \in u : log[x].at >= i.since => log[x].value >= Threshold(p, t)
        BY <1>3, <2>1, <3>1 DEF LevelOf
      <4>2. n.since = i.since
        BY <2>1, <3>1 DEF HeldSince
      <4> QED BY <2>3, <4>1, <4>2 DEF v
    <3>2. CASE i.pending # t
      <4>1. n.since = at
        BY <2>1, <3>2 DEF HeldSince
      <4> QED BY <1>9, <2>3, <4>1 DEF v, at
    <3> QED BY <3>1, <3>2
  <2>5. p.hold # 0
    <3>1. \E x \in uq : log[x].at = HeldSince(i, t, at)
      BY <2>1, <2>4
    <3>2. HeldSince(i, t, at) \in Int /\ HeldSince(i, t, at) <= at
      BY <3>1 DEF at
    <3> QED BY <1>1, <1>2, <2>1, <3>2
  <2>6. /\ s = "critical" => Over(uq, p.critical, p.hysteresis)
        /\ s # "normal" => Over(uq, p.warning, p.hysteresis)
    BY <1>7, <2>2
  <2> QED BY <1>8, <2>1, <2>4, <2>5, <2>6 DEF LevelOf, p
<1>12. CASE t # s /\ ~Holding(i, r, "level", t, at) /\ n = Entered(t)
  <2>1. n.severity = t /\ n.pending = None
    BY <1>12, ConditionFields
  <2>2. n.pending \notin {"warning", "critical"}
    BY <2>1, AlertAssumption
  <2>3. ASSUME t # "normal"
        PROVE  Spanned(uq, p, t)
    <3>1. CASE s = "critical" /\ t = "warning"
      <4>1. /\ Threshold(p, s) \in Int /\ Threshold(p, t) \in Int
            /\ Threshold(p, t) <= Threshold(p, s)
        BY <1>1, <3>1 DEF Threshold
      <4> QED BY <1>6, <3>1, <4>1, SpannedStays
    <3>2. CASE ~(s = "critical" /\ t = "warning")
      <4>1. ~(at - HeldSince(i, t, at) < p.hold)
        BY <1>12, <2>3, <3>2 DEF Holding, s, p
      <4>2. v >= Threshold(p, t)
        BY <1>2, <1>4, <1>12, <2>3, <3>2 DEF Threshold, Severities
      <4>3. CASE i.pending = t
        <5>1. PICK first \in u :
                 /\ log[first].at = i.since
                 /\ \A x \in u : log[x].at >= i.since => log[x].value >= Threshold(p, t)
          BY <1>3, <1>4, <2>3, <4>3 DEF LevelOf, Severities
        <5>2. HeldSince(i, t, at) = log[first].at /\ log[first].at \in Int
          BY <4>3, <5>1 DEF HeldSince
        <5>3. at - log[first].at >= p.hold
          BY <1>1, <1>2, <4>1, <5>2
        <5>4. \A x \in uq : log[x].at \in log[first].at..at => log[x].value >= Threshold(p, t)
          BY <1>2, <4>2, <5>1, <5>2 DEF v
        <5> QED BY <5>3, <5>4 DEF Spanned, at
      <4>4. CASE i.pending # t
        <5>1. HeldSince(i, t, at) = at
          BY <4>4 DEF HeldSince
        <5>2. at - at >= p.hold
          BY <1>1, <1>2, <4>1, <5>1
        <5>3. \A x \in uq : log[x].at \in at..at => log[x].value >= Threshold(p, t)
          BY <1>2, <1>9, <4>2 DEF v
        <5> QED BY <5>2, <5>3 DEF Spanned, at
      <4> QED BY <4>3, <4>4
    <3> QED BY <3>1, <3>2
  <2> QED BY <1>7, <2>1, <2>2, <2>3 DEF LevelOf, p
<1> QED BY <1>3, <1>10, <1>11, <1>12 DEF Outcome, s
-----------------------------------------------------------------------------
LEMMA LevelCleared ==
    ASSUME NEW u, NEW p, NEW c \in Condition, LevelOf(u, c, p), NEW i \in {c, Cleared(c)}
    PROVE  LevelOf(u, i, p) /\ i \in Condition
<1>1. Cleared(c).severity = c.severity /\ Cleared(c).pending = None /\ Cleared(c) \in Condition
  BY ConditionFields, ConditionTypes
<1>2. None \notin {"warning", "critical"}
  BY AlertAssumption
<1> QED BY <1>1, <1>2 DEF LevelOf

(* A turn of the loop keeps the records of every rule true.                *)
LEMMA ItemKeepsLevels ==
    ASSUME Core, Running, job.rule \in EnabledRules, NEW n, Sound(n), NEW q \in DOMAIN log,
           ItemDone(n, q), \A r \in Rules : LevelTold(job.work, r), NEW r \in Rules
    PROVE  LevelTold(n, r)
<1> USE DEF Core
<1> DEFINE w == job.work
           t == w.track[r]
           m == log[q]
           p == rule[r].params
           c == w.cond[r]["level"]
<1>0. Sound(w) /\ Readable /\ job.time \in Int
  BY DEF CopiesInv, Good, Typed, TypeOK, Readable
<1>1. CASE r # job.rule
  BY <1>1, Zenon DEF ItemDone, LevelTold
<1>2. CASE r = job.rule
  <2>0. /\ t \in Track /\ c \in Condition
        /\ rule[r].version > 0 /\ p \in Params /\ ValidParams(p)
    <3>1. t \in Track /\ c \in Condition
      BY <1>0 DEF Sound, Tables, Kinds
    <3>2. rule[r].version > 0 /\ p \in Params
      BY <1>2 DEF LockInv, EnabledRules
    <3> QED BY <3>1, <3>2, AlertAssumption
  <2>1. UsedInv(t) /\ LevelOf(t.used, c, p)
    BY <2>0 DEF LevelTold
  <2>2. CASE /\ n.track[r].at = t.at /\ n.track[r].used = t.used
             /\ n.cond = w.cond
    BY <2>0, <2>1, <2>2 DEF LevelTold, UsedInv
  <2>3. CASE /\ ~Ignored(r, m, t)
             /\ n.track[r].at = m.at /\ n.track[r].used = t.used \cup {q}
             /\ \E i \in {c, Cleared(c)} :
                  Outcome(i, n.cond[r]["level"], r, "level",
                          Classify(m.value, p.warning, p.critical, p.hysteresis, i.severity),
                          m.at)
    <3>1. /\ q \in 1..Len(log) /\ m.at \in Nat /\ m.value \in Readings /\ m.value # Other
          /\ m.value \in Levels /\ m.value \in Int
      <4>1. m.value # Other
        BY <2>3 DEF Ignored
      <4> QED BY <1>0, <4>1, LogEntry, AlertAssumption DEF Levels
    <3>2. \A x \in t.used : /\ x \in 1..Len(log) /\ log[x].at \in Int /\ log[x].value \in Int
                            /\ log[x].at <= t.at
      <4>1. ASSUME NEW x \in t.used
            PROVE  x \in 1..Len(log) /\ log[x].at \in Int /\ log[x].value \in Int
                   /\ log[x].at <= t.at
        <5>1. x \in DOMAIN log /\ log[x].value \in Levels /\ log[x].at <= t.at
          BY <1>0, <2>1 DEF UsedInv, Readable
        <5>2. log[x] \in [rule : Rules, at : Nat, value : Readings] /\ x \in 1..Len(log)
          BY <1>0, <5>1, LogEntry
        <5>3. log[x].at \in Nat
          BY <5>2
        <5>4. Levels \subseteq Int
          BY AlertAssumption
        <5>5. log[x].value \in Int
          BY <5>1, <5>4
        <5>6. log[x].at \in Int
          BY <5>3
        <5> QED BY <5>1, <5>2, <5>5, <5>6
      <4> QED BY <4>1
    <3>3. \A x \in t.used : log[x].at < m.at
      <4>1. t.at # Never => m.at > t.at
        BY <2>0, <2>3, <3>1 DEF Ignored, Track
      <4>2. t.at \in Int
        BY <2>0 DEF Track
      <4> QED BY <2>1, <3>1, <3>2, <4>1, <4>2 DEF UsedInv
    <3>4. PICK i \in {c, Cleared(c)} :
            Outcome(i, n.cond[r]["level"], r, "level",
                    Classify(m.value, p.warning, p.critical, p.hysteresis, i.severity), m.at)
      BY <2>3
    <3>5. LevelOf(t.used, i, p) /\ i \in Condition
      BY <2>0, <2>1, LevelCleared
    <3>6. \A x \in t.used \cup {q} : log[x].at \in Int /\ log[x].value \in Int
      BY <3>1, <3>2
    <3>7. LevelOf(t.used \cup {q}, n.cond[r]["level"], p)
      BY <2>0, <3>3, <3>4, <3>5, <3>6, LevelGoesOn
    <3>8. UsedInv(n.track[r])
      <4>1. n.track[r].used \subseteq 1..Len(log)
        BY <2>3, <3>1, <3>2
      <4>2. n.track[r].at # Never
        BY <2>3, <3>1 DEF Never
      <4>3. \A x \in n.track[r].used : log[x].value \in Levels /\ log[x].at <= n.track[r].at
        BY <2>1, <2>3, <3>1, <3>2, <3>3 DEF UsedInv
      <4>4. \A x, y \in n.track[r].used : log[x].at = log[y].at => x = y
        BY <2>1, <2>3, <3>1, <3>2, <3>3 DEF UsedInv
      <4> QED BY <4>1, <4>2, <4>3, <4>4 DEF UsedInv
    <3> QED BY <2>0, <2>3, <3>7, <3>8 DEF LevelTold
  <2> QED BY <1>2, <2>2, <2>3, Zenon DEF ItemDone
<1> QED BY <1>1, <1>2

(* So does the end of a rule.                                              *)
LEMMA RuleKeepsLevels ==
    ASSUME Core, Running, job.rule \in EnabledRules, NEW n, Sound(n), RuleDone(n),
           \A r \in Rules : LevelTold(job.work, r), NEW r \in Rules
    PROVE  LevelTold(n, r)
<1>1. n.track = job.work.track
  BY DEF RuleDone
<1>2. CASE r # job.rule
  BY <1>1, <1>2 DEF RuleDone, LevelTold
<1>3. CASE r = job.rule
  <2> DEFINE c == job.work.cond[r]["level"]
             u == job.work.track[r].used
  <2>1. c \in Condition
    BY DEF Core, CopiesInv, Good, Sound, Tables, Kinds
  <2>2. /\ rule[r].version > 0 /\ n.cond[r]["level"] \in {c, Cleared(c)}
        /\ UsedInv(job.work.track[r]) /\ LevelOf(u, c, rule[r].params)
    BY <1>3 DEF RuleDone, LevelTold, EnabledRules
  <2> HIDE DEF c
  <2>3. LevelOf(u, n.cond[r]["level"], rule[r].params)
    BY <2>1, <2>2, LevelCleared
  <2> QED BY <1>1, <2>2, <2>3 DEF LevelTold
<1> QED BY <1>2, <1>3

(* An arrival changes no record.                                           *)
LEMMA ArrivalKeepsLevels ==
    ASSUME Readable, NEW o, NEW at, NEW value, Observe(o, at, value),
           NEW d, NEW r, LevelTold(d, r)
    PROVE  LevelTold(d, r)'
<1>1. /\ Len(log) \in Nat /\ Len(log') = Len(log) + 1 /\ rule' = rule
      /\ \A q \in 1..Len(log) : log'[q] = log[q]
  BY LogGrows DEF Observe
<1> DEFINE used == d.track[r].used
<1>2. used \subseteq 1..Len(log) /\ UsedInv(d.track[r])
  BY DEF LevelTold, UsedInv
<1>3. UsedInv(d.track[r])'
  BY <1>1, <1>2 DEF UsedInv
<1>4. ASSUME NEW threshold, NEW h
      PROVE  Over(used, threshold, h)' <=> Over(used, threshold, h)
  BY <1>1, <1>2 DEF Over
<1>5. ASSUME NEW p, NEW s
      PROVE  Spanned(used, p, s)' <=> Spanned(used, p, s)
  BY <1>1, <1>2 DEF Spanned, Threshold
<1>6. ASSUME NEW c, NEW p, LevelOf(used, c, p)
      PROVE  LevelOf(used, c, p)'
  <2>1. c.pending \in {"warning", "critical"} =>
          \E first \in used :
             /\ log'[first].at = c.since
             /\ \A q \in used : log'[q].at >= c.since => log'[q].value >= Threshold(p, c.pending)
    BY <1>1, <1>2, <1>6 DEF LevelOf
  <2> HIDE DEF used
  <2>2. LevelOf(used, c, p)' <=>
          /\ c.severity = "critical" => Over(used, p.critical, p.hysteresis)'
          /\ c.severity # "normal" => Over(used, p.warning, p.hysteresis)'
          /\ p.hold = 0 =>
               /\ Over(used, p.critical, p.hysteresis)' => c.severity = "critical"
               /\ Over(used, p.warning, p.hysteresis)' => c.severity # "normal"
          /\ c.severity # "normal" => Spanned(used, p, c.severity)'
          /\ c.pending \in {"warning", "critical"} =>
               \E first \in used' :
                 /\ log'[first].at = c.since
                 /\ \A q \in used' : log'[q].at >= c.since => log'[q].value >= Threshold(p, c.pending)
    BY DEF LevelOf, Threshold
  <2> QED BY <1>4, <1>5, <1>6, <2>1, <2>2 DEF LevelOf, used
<1> QED BY <1>1, <1>3, <1>6 DEF LevelTold

(* A record depends on the position and the conditions of its rule, on the *)
(* rule and on the log.                                                    *)
LEMMA LevelSame ==
    ASSUME NEW d, NEW e, NEW r, e.track[r] = d.track[r], e.cond[r] = d.cond[r], LevelTold(d, r)
    PROVE  LevelTold(e, r)
BY DEF LevelTold

LEMMA LevelFrame ==
    ASSUME UNCHANGED <<rule, log>>, NEW d, NEW r, LevelTold(d, r)
    PROVE  LevelTold(d, r)'
BY DEF LevelTold, UsedInv, LevelOf, Over, Spanned, Threshold

LEMMA LevelStep ==
    Core /\ LevelInv /\ [Next]_vars => LevelInv'
<1> SUFFICES ASSUME Core, LevelInv, [Next]_vars PROVE LevelInv'
  OBVIOUS
<1> USE DEF Core
<1>0. /\ job \in Job /\ db \in Tables /\ Readable
      /\ db.track \in [Rules -> Track] /\ db.cond \in [Rules -> [Kinds -> Condition]]
      /\ rule \in [Rules -> [version : Nat, params : Params \cup {None}, updated : Nat]]
  BY DEF Typed, TypeOK, Tables, Readable
<1>1. ASSUME db'.track = db.track, db'.cond = db.cond, UNCHANGED <<rule, log>>,
             Running' => Running /\ job'.work = job.work
      PROVE  LevelInv'
  <2>1. ASSUME NEW r \in Rules
        PROVE  LevelTold(db, r)'
    <3>1. PICK d : d = db'
      OBVIOUS
    <3>2. LevelTold(d, r)
      BY <1>1, <3>1, LevelSame DEF LevelInv
    <3> QED BY <1>1, <3>1, <3>2, LevelFrame
  <2>2. ASSUME NEW r \in Rules, Running'
        PROVE  LevelTold(job.work, r)'
    <3>1. PICK d : d = job'.work
      OBVIOUS
    <3>2. LevelTold(d, r)
      BY <1>1, <2>2, <3>1 DEF LevelInv
    <3> QED BY <1>1, <3>1, <3>2, LevelFrame
  <2> QED BY <2>1, <2>2 DEF LevelInv
<1>2. CASE Tick \/ UNCHANGED vars
  BY <1>1, <1>2 DEF Tick, vars, Running
<1>3. CASE Schedule \/ Busy \/ AbortJob
  <2>1. ~Running'
    BY <1>3, StartedType, RestingType, Zenon
       DEF Schedule, Busy, AbortJob, Typed, TypeOK, Running
  <2> QED BY <1>1, <1>3, <2>1 DEF Schedule, Busy, AbortJob
<1>4. ASSUME NEW o, NEW at, NEW value, Observe(o, at, value)
      PROVE  LevelInv'
  <2>1. UNCHANGED <<db, job>>
    BY <1>4 DEF Observe
  <2>2. \A d, r : LevelTold(d, r) => LevelTold(d, r)'
    BY <1>0, <1>4, ArrivalKeepsLevels
  <2>3. ASSUME NEW r \in Rules
        PROVE  LevelTold(db, r)'
    <3>1. PICK d : d = db
      OBVIOUS
    <3>2. LevelTold(d, r)'
      BY <2>2, <3>1 DEF LevelInv
    <3> QED BY <2>1, <3>1, <3>2
  <2>4. ASSUME NEW r \in Rules, Running
        PROVE  LevelTold(job.work, r)'
    <3>1. PICK d : d = job.work
      OBVIOUS
    <3>2. LevelTold(d, r)'
      BY <2>2, <2>4, <3>1 DEF LevelInv
    <3> QED BY <2>1, <3>1, <3>2
  <2> QED BY <2>1, <2>3, <2>4 DEF LevelInv, Running
<1>5. ASSUME UNCHANGED <<db, rule, log>>, NEW n, job'.work = n,
             \A r \in Rules : LevelTold(n, r)
      PROVE  LevelInv'
  <2>1. ASSUME NEW r \in Rules
        PROVE  LevelTold(db, r)' /\ LevelTold(n, r)'
    <3>1. PICK d : d = db
      OBVIOUS
    <3>2. LevelTold(d, r)' /\ LevelTold(n, r)'
      BY <1>5, <3>1, LevelFrame DEF LevelInv
    <3> QED BY <1>5, <3>1, <3>2
  <2> QED BY <1>5, <2>1 DEF LevelInv
<1>6. CASE Start
  <2>1. job' = [job EXCEPT !.phase = "rules", !.high = Len(log), !.todo = EnabledRules,
                           !.work = db]
    BY <1>6 DEF Start
  <2>2. job'.work = db /\ UNCHANGED <<db, rule, log>>
    BY <1>0, <1>6, <2>1 DEF Job, Start
  <2> QED BY <1>5, <2>2 DEF LevelInv
<1>7. ASSUME NEW r \in Rules, NextRule(r)
      PROVE  LevelInv'
  <2> DEFINE batch == Arrivals(r, job.work.track[r].last, job.high)
  <2> HIDE DEF batch
  <2>1. job' = [job EXCEPT !.phase = "items", !.rule = r, !.batch = batch]
    BY <1>7 DEF NextRule, batch
  <2>2. job'.work = job.work
    BY <1>0, <2>1 DEF Job
  <2> QED BY <1>1, <1>7, <2>2 DEF NextRule, Running
<1>8. ASSUME NEW q \in DOMAIN log, EvaluateItem(q)
      PROVE  LevelInv'
  <2>1. Running /\ job.rule \in EnabledRules /\ UNCHANGED <<db, rule, log>>
    BY <1>8, ItemShape, Zenon DEF EvaluateItem
  <2>2. PICK n : /\ job' = [job EXCEPT !.batch = @ \ {q}, !.work = n] /\ ItemDone(n, q)
                 /\ Advances(job.work, n, db.events, Base)
    BY <1>8, ItemShape, Zenon
  <2>3. job'.work = n /\ Sound(n)
    BY <1>0, <2>2 DEF Job, Advances, Ready, Good
  <2>4. \A r \in Rules : LevelTold(n, r)
    BY <2>1, <2>2, <2>3, ItemKeepsLevels DEF LevelInv
  <2> QED BY <1>5, <2>1, <2>3, <2>4
<1>9. CASE FinishRule
  <2>1. Running /\ job.rule \in EnabledRules /\ UNCHANGED <<db, rule, log>>
    BY <1>9, RuleShape, Zenon DEF FinishRule
  <2>2. PICK n : /\ job' = [job EXCEPT !.phase = "rules", !.rule = None,
                                       !.todo = @ \ {job.rule}, !.work = n]
                 /\ RuleDone(n) /\ Advances(job.work, n, db.events, Base)
    BY <1>9, RuleShape, Zenon
  <2>3. job'.work = n /\ Sound(n)
    BY <1>0, <2>2 DEF Job, Advances, Ready, Good
  <2>4. \A r \in Rules : LevelTold(n, r)
    BY <2>1, <2>2, <2>3, RuleKeepsLevels DEF LevelInv
  <2> QED BY <1>5, <2>1, <2>3, <2>4
<1>10. CASE CommitJob
  <2> DEFINE all == job.work.events \cup db.events
  <2>1. /\ Running /\ job' = Resting /\ UNCHANGED <<rule, log>>
        /\ db' = [job.work EXCEPT !.events = all]
    BY <1>10 DEF CommitJob, Running
  <2> HIDE DEF all
  <2>2. job.work \in Tables
    BY <2>1 DEF CopiesInv, Good, Sound
  <2>3. db'.track = job.work.track /\ db'.cond = job.work.cond /\ ~Running'
    BY <2>1, <2>2, RestingType DEF Tables, Running
  <2>4. \A r \in Rules : LevelTold(job.work, r)
    BY <2>1 DEF LevelInv
  <2>5. ASSUME NEW r \in Rules
        PROVE  LevelTold(db, r)'
    <3>1. PICK d : d = db'
      OBVIOUS
    <3>2. LevelTold(d, r)
      BY <2>3, <2>4, <3>1, LevelSame
    <3> QED BY <2>1, <3>1, <3>2, LevelFrame
  <2> QED BY <2>3, <2>5 DEF LevelInv
<1>11. ASSUME NEW c \in Savers, NEW r, NEW p, NEW v, NEW seed, BeginSave(c, r, p, v, seed)
       PROVE  LevelInv'
  BY <1>1, <1>11 DEF BeginSave, Running
<1>12. ASSUME NEW c \in Savers, RejectSave(c) \/ AbortSave(c)
       PROVE  LevelInv'
  BY <1>1, <1>12 DEF RejectSave, AbortSave, Running
<1>13. ASSUME NEW c \in Savers, ApplySave(c)
       PROVE  LevelInv'
  <2> DEFINE r == saving[c].rule
             p == saving[c].params
             u == Unseen(Len(log))
             row == [k \in Kinds |-> Calm]
             new == [version |-> rule[r].version + 1, updated |-> now, params |-> p]
  <2>1. /\ r \in Rules /\ ~Running
        /\ rule' = [rule EXCEPT ![r] = new]
        /\ db'.track = [db.track EXCEPT ![r] = u]
        /\ db'.cond = [db.cond EXCEPT ![r] = row]
    BY <1>13, ApplyShape
  <2>2. UNCHANGED <<log, job>>
    BY <1>13 DEF ApplySave
  <2>3. u.used = {} /\ row["level"].severity = "normal" /\ row["level"].pending = None
    BY DEF Unseen, Kinds, Calm
  <2> HIDE DEF u, row, new, r, p
  <2>4. \A o \in Rules : IF o = r THEN db'.track[o] = u /\ db'.cond[o] = row
                         ELSE /\ rule'[o] = rule[o] /\ db'.track[o] = db.track[o]
                              /\ db'.cond[o] = db.cond[o]
    BY <1>0, <2>1
  <2>5. ASSUME NEW o \in Rules
        PROVE  LevelTold(db, o)'
    <3>1. CASE o = r
      <4>1. db'.track[o].used = {} /\ db'.cond[o]["level"].severity = "normal"
            /\ db'.cond[o]["level"].pending = None
        BY <2>3, <2>4, <3>1
      <4>2. None \notin {"warning", "critical"}
        BY AlertAssumption
      <4> QED BY <4>1, <4>2 DEF LevelTold, UsedInv, LevelOf, Over, Spanned
    <3>2. CASE o # r
      <4>1. LevelTold(db, o)
        BY DEF LevelInv
      <4>2. /\ rule'[o] = rule[o] /\ db'.track[o] = db.track[o] /\ db'.cond[o] = db.cond[o]
        BY <2>4, <3>2
      <4> QED BY <2>2, <4>1, <4>2
              DEF LevelTold, UsedInv, LevelOf, Over, Spanned, Threshold
    <3> QED BY <3>1, <3>2
  <2> QED BY <2>1, <2>2, <2>5 DEF LevelInv, Running
<1>14. ASSUME NEW c \in Ackers, NEW a, BeginAck(c, a)
       PROVE  LevelInv'
  BY <1>1, <1>14 DEF BeginAck, Running
<1>15. ASSUME NEW c \in Ackers, CommitAck(c) \/ AbortAck(c)
       PROVE  LevelInv'
  <2>1. db'.track = db.track /\ db'.cond = db.cond
    BY <1>0, <1>15 DEF CommitAck, AbortAck, Tables
  <2> QED BY <1>1, <1>15, <2>1 DEF CommitAck, AbortAck, Running
<1> QED BY <1>2, <1>3, <1>4, <1>6, <1>7, <1>8, <1>9, <1>10, <1>11, <1>12, <1>13, <1>14, <1>15
        DEF Next, JobStep, SaveStep
-----------------------------------------------------------------------------
LEMMA InitIInv ==
    Init => IInv
<1> SUFFICES ASSUME Init PROVE IInv
  OBVIOUS
<1>1. Core
  BY CoreInit
<1> DEFINE u == Unseen(0)
           row == [k \in Kinds |-> Calm]
<1>2. /\ u.from = 0 /\ u.last = 0 /\ u.handled = {} /\ u.used = {}
      /\ row["level"].severity = "normal"
  BY DEF Unseen, Kinds, Calm
<1>3. /\ log = <<>> /\ job = Resting
      /\ \A r \in Rules : /\ db.track[r] = Unseen(0) /\ db.cond[r] = [k \in Kinds |-> Calm]
                          /\ rule[r].version = 0
  BY DEF Init
<1> HIDE DEF u, row
<1>4. \A r \in Rules : db.track[r] = u /\ db.cond[r] = row
  BY <1>3 DEF u, row
<1>5. ~Running /\ job.phase # "items" /\ Len(log) = 0
  BY <1>3, RestingType DEF Running
<1>6. PositionInv
  <2>1. \A r \in Rules : Passed(u, r) = {}
    BY <1>2 DEF Passed
  <2>2. \A r \in Rules : LET t == db.track[r]
                        IN  /\ t.from <= t.last /\ t.last <= Len(log)
                            /\ t.handled = Passed(t, r)
    <3> SUFFICES ASSUME NEW r \in Rules
                 PROVE  LET t == db.track[r]
                        IN  /\ t.from <= t.last /\ t.last <= Len(log)
                            /\ t.handled = Passed(t, r)
      OBVIOUS
    <3>1. u.from <= u.last /\ u.last <= Len(log) /\ u.handled = Passed(u, r)
      BY <1>2, <1>5, <2>1
    <3> QED BY <1>4, <3>1
  <2> QED BY <1>5, <2>2 DEF PositionInv
<1>7. StaleInv
  BY <1>3, <1>5 DEF StaleInv, EnabledRules
<1>8. LevelInv
  BY <1>2, <1>3, <1>4, <1>5 DEF LevelInv, LevelTold, UsedInv
<1> QED BY <1>1, <1>6, <1>7, <1>8 DEF IInv

(* The inductive invariant: types, the lock, good tables and a good copy,  *)
(* acknowledgments, uncommitted events, positions, missing data, levels.   *)
THEOREM Inductive ==
    Spec => []IInv
<1>1. IInv /\ [Next]_vars => IInv'
  BY TypedStep, LockStep, CopiesStep, AckStep, OrderStep, PositionStep, StaleStep, LevelStep
     DEF IInv, Core
<1> QED BY InitIInv, <1>1, PTL DEF Spec

(* An active alert was raised by the current version of an enabled rule,   *)
(* although edits, runs and acknowledgments interleave.                    *)
THEOREM ActiveAlerts ==
    Spec => []ActiveIsCurrent
<1>1. IInv => ActiveIsCurrent
  BY DEF IInv, Core, CopiesInv, Good, Current, ActiveIsCurrent
<1> QED BY Inductive, <1>1, PTL

(* The position of a rule passes no arrival that was not looked at, for    *)
(* every batch size: batches are cut by sequence, whatever the times say.  *)
THEOREM Positions ==
    Spec => []PositionExact
<1>1. IInv => PositionExact
  BY DEF IInv, PositionInv, PositionExact, Passed
<1> QED BY Inductive, <1>1, PTL

(* The level severity is what thresholds and hysteresis say of all the     *)
(* readings used since the rule version began.                             *)
THEOREM TruthfulLevels ==
    Spec => []LevelTruthful
<1>1. IInv => LevelTruthful
  <2> SUFFICES ASSUME IInv, NEW r \in Rules, rule[r].version > 0
               PROVE  LET p == rule[r].params
                          severity == db.cond[r]["level"].severity
                      IN  /\ severity = "critical" => Reached(r, p.critical)
                          /\ severity # "normal" => Reached(r, p.warning)
                          /\ p.hold = 0 =>
                               /\ Reached(r, p.critical) => severity = "critical"
                               /\ Reached(r, p.warning) => severity # "normal"
    BY DEF LevelTruthful
  <2>1. LevelOf(db.track[r].used, db.cond[r]["level"], rule[r].params)
    BY DEF IInv, LevelInv, LevelTold
  <2>2. ASSUME NEW threshold
        PROVE  Reached(r, threshold) <=>
                 Over(db.track[r].used, threshold, rule[r].params.hysteresis)
    BY DEF Reached, Over
  <2> QED BY <2>1, <2>2 DEF LevelOf
<1> QED BY Inductive, <1>1, PTL

(* Behind a severity lie readings that span the hold time, none below the  *)
(* threshold in between, for all parameters the constraints allow.         *)
THEOREM HeldLevels ==
    Spec => []HoldRespected
<1>1. IInv => HoldRespected
  <2> SUFFICES ASSUME IInv, NEW r \in Rules, db.cond[r]["level"].severity # "normal"
               PROVE  LET severity == db.cond[r]["level"].severity
                          p == rule[r].params
                          threshold == IF severity = "critical" THEN p.critical ELSE p.warning
                          used == db.track[r].used
                      IN  \E first, last \in used :
                             /\ log[last].at - log[first].at >= p.hold
                             /\ \A q \in used : log[q].at \in log[first].at..log[last].at =>
                                  log[q].value >= threshold
    BY DEF HoldRespected
  <2>1. LevelOf(db.track[r].used, db.cond[r]["level"], rule[r].params)
    BY DEF IInv, LevelInv, LevelTold
  <2>2. Spanned(db.track[r].used, rule[r].params, db.cond[r]["level"].severity)
    BY <2>1 DEF LevelOf
  <2> QED BY <2>2 DEF Spanned, Threshold
<1> QED BY Inductive, <1>1, PTL

(* The history of one alert, as AlertEvaluator states it.                  *)
LEMMA HistoryTold ==
    ASSUME Core
    PROVE  HistoryWellFormed
<1> SUFFICES ASSUME NEW a \in DOMAIN db.alerts
             PROVE  LET story == {e \in EventsOf(a) : e.type # "acknowledged"}
                        Last(S) == {e \in S : \A f \in S : f.id <= e.id}
                        changes == {e \in story : e.type \in {"escalated", "downgraded"}}
                    IN  /\ \E o \in story :
                             /\ o.type = "opened"
                             /\ \A e \in EventsOf(a) :
                                  e = o \/ (e.id > o.id /\ e.type # "opened")
                        /\ \A e \in Last(changes) :
                             db.alerts[a].severity =
                               (IF e.type = "escalated" THEN "critical" ELSE "warning")
                        /\ \A e \in story : e.type \in Closing => e \in Last(story)
                        /\ db.alerts[a].active <=> \A e \in Last(story) : e.type \notin Closing
                        /\ Cardinality(EventsOf(a) \ story) = IF a \in acked THEN 1 ELSE 0
  BY DEF HistoryWellFormed
<1> DEFINE story == {e \in EventsOf(a) : e.type # "acknowledged"}
           Last(S) == {e \in S : \A f \in S : f.id <= e.id}
           changes == {e \in story : e.type \in {"escalated", "downgraded"}}
           all == db.events
<1>1. Story(all, a, db.alerts[a].severity, db.alerts[a].active)
  <2>1. db.events \cup db.events = all
    OBVIOUS
  <2> QED BY <2>1 DEF Core, CopiesInv, Good, Told
<1>2. \A e : e \in EventsOf(a) <=> e \in all /\ e.alert = a
  BY DEF EventsOf
<1>3. \E o \in story : /\ o.type = "opened"
                       /\ \A e \in EventsOf(a) : e = o \/ (e.id > o.id /\ e.type # "opened")
  BY <1>1, <1>2 DEF Story
<1>4. \A e \in Last(changes) :
         db.alerts[a].severity = (IF e.type = "escalated" THEN "critical" ELSE "warning")
  BY <1>1, <1>2 DEF Story
<1>5. \A e \in story : e.type \in Closing => e \in Last(story)
  BY <1>1, <1>2 DEF Story
<1>6. db.alerts[a].active <=> \A e \in Last(story) : e.type \notin Closing
  <2>1. \A e : e.type \in Closing => e.type # "acknowledged"
    BY DEF Closing
  <2> QED BY <1>1, <1>2, <1>5, <2>1 DEF Story
<1>7. Cardinality(EventsOf(a) \ story) = IF a \in acked THEN 1 ELSE 0
  <2>1. \A e : e \in EventsOf(a) \ story <=> e \in all /\ e.alert = a /\ e.type = "acknowledged"
    BY <1>2
  <2>2. CASE a \in acked
    <3>1. PICK e \in all : e.alert = a /\ e.type = "acknowledged"
      BY <2>2 DEF Core, AckInv
    <3>2. EventsOf(a) \ story = {e}
      BY <2>1, <3>1 DEF Core, AckInv
    <3> QED BY <2>2, <3>2, FS_Singleton
  <2>3. CASE a \notin acked
    <3>1. EventsOf(a) \ story = {}
      BY <2>1, <2>3 DEF Core, AckInv
    <3> QED BY <2>3, <3>1, FS_EmptySet
  <2> QED BY <2>2, <2>3
<1> QED BY <1>3, <1>4, <1>5, <1>6, <1>7

(* Conditions, alerts, event histories, acknowledgments and missing data   *)
(* tell one story after every commit and rollback.                         *)
THEOREM Alerts ==
    Spec => []AlertInv
<1>1. IInv => AlertInv
  <2> SUFFICES ASSUME IInv PROVE AlertInv
    OBVIOUS
  <2>1. TypeOK /\ ConditionsMatchAlerts
    BY DEF IInv, Core, Typed, CopiesInv, Good, Matched, ConditionsMatchAlerts
  <2>2. HistoryWellFormed
    BY HistoryTold DEF IInv
  <2>3. StaleExact
    BY DEF IInv, StaleInv, StaleAt, SilentSince, StaleExact
  <2> QED BY <2>1, <2>2, <2>3 DEF AlertInv
<1> QED BY Inductive, <1>1, PTL

(* Events of one alert become visible in the order of their ids: a commit  *)
(* adds none at or below one that was visible, whether it is a run's, an   *)
(* edit's or an acknowledgment's.                                          *)
THEOREM EventOrder ==
    Spec => EventsInOrder
<1> DEFINE A == \A n \in db'.events \ db.events, e \in db.events :
                  n.alert = e.alert => n.id > e.id
<1>1. IInv /\ [Next]_vars => [A]_vars
  <2> SUFFICES ASSUME Core, [Next]_vars PROVE A
    BY DEF IInv
  <2>0. /\ db \in Tables /\ nextEvent \in Nat /\ \A e \in db.events : e.id \in Nat /\ e.id < nextEvent
    BY DEF Core, Typed, TypeOK, CopiesInv, Good, Tables, Event
  <2>1. CASE CommitJob
    <3> DEFINE all == job.work.events \cup db.events
    <3>1. Running /\ db' = [job.work EXCEPT !.events = all]
      BY <2>1 DEF CommitJob, Running
    <3> HIDE DEF all
    <3>2. db'.events = all
      BY <3>1 DEF Core, CopiesInv, Good, Sound, Tables
    <3> QED BY <3>1, <3>2 DEF all, Core, OrderInv
  <2>2. ASSUME NEW c \in Savers, ApplySave(c)
        PROVE  A
    <3>1. \A e \in db'.events \ db.events : e.id >= nextEvent
      BY <2>2, ApplyShape DEF Core
    <3>2. db'.events \in SUBSET Event
      BY <2>2, ApplyShape DEF Core, Tables
    <3>3. \A e \in db'.events : e.id \in Nat
      BY <3>2 DEF Event
    <3> QED BY <2>0, <3>1, <3>3
  <2>3. ASSUME NEW c \in Ackers, CommitAck(c)
        PROVE  A
    <3> DEFINE new == [id |-> acking[c].id, alert |-> acking[c].alert, type |-> "acknowledged"]
    <3>1. acking[c] # None /\ db' = [db EXCEPT !.events = db.events \cup {new}]
      BY <2>3 DEF CommitAck
    <3>2. new.alert = acking[c].alert /\ new.id = acking[c].id
      OBVIOUS
    <3> HIDE DEF new
    <3>3. db'.events = db.events \cup {new}
      BY <2>0, <3>1 DEF Tables
    <3>4. acking[c].id \in Nat
      BY <3>1 DEF Core, Typed
    <3>5. \A e \in db.events : e.alert = acking[c].alert => e.id < acking[c].id
      BY <3>1 DEF Core, AckInv
    <3> QED BY <2>0, <3>2, <3>3, <3>4, <3>5
  <2>4. ASSUME db' = db
        PROVE  A
    BY <2>4
  <2> HIDE DEF A
  <2>5. CASE Tick \/ Schedule \/ Busy \/ Start \/ FinishRule \/ AbortJob \/ UNCHANGED vars
    BY <2>4, <2>5 DEF Tick, Schedule, Busy, Start, FinishRule, AbortJob, vars
  <2>6. ASSUME NEW r, NEW at, NEW value, Observe(r, at, value) \/ NextRule(r)
        PROVE  A
    BY <2>4, <2>6 DEF Observe, NextRule
  <2>7. ASSUME NEW q, EvaluateItem(q)
        PROVE  A
    BY <2>4, <2>7, Zenon DEF EvaluateItem
  <2>8. ASSUME NEW c, NEW r, NEW p, NEW v, NEW seed,
               BeginSave(c, r, p, v, seed) \/ RejectSave(c) \/ AbortSave(c)
        PROVE  A
    BY <2>4, <2>8 DEF BeginSave, RejectSave, AbortSave
  <2>9. ASSUME NEW c, NEW a, BeginAck(c, a) \/ AbortAck(c)
        PROVE  A
    BY <2>4, <2>9 DEF BeginAck, AbortAck
  <2> QED BY <2>1, <2>2, <2>3, <2>5, <2>6, <2>7, <2>8, <2>9 DEF Next, JobStep, SaveStep
<1> QED BY Inductive, <1>1, PTL DEF Spec, EventsInOrder
=============================================================================
