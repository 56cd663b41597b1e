------------------------ MODULE FixtureLoaderProofs ------------------------
(***************************************************************************)
(* Proofs about FixtureLoader for any number of runs, of the operator's    *)
(* writes and of faults.                                                   *)
(***************************************************************************)
EXTENDS FixtureLoader, TLAPS

Checked == {"checked", "ruled", "measured", "deleted"}
Holding == {"locked"} \cup Checked
Over == {"none", "done", "aborted"}
Stages == Holding \cup Over \cup {"waiting"}
ResetType ==
    [stage : Stages, rules : SUBSET Sensors, gone : SUBSET Rows, found : SUBSET Rows]
LoaderType ==
    [run : 0..MaxRuns, status : {"running", "failed", "success"}, pc : 0..8, sent : BOOLEAN]

(* TypeOK with the types of the records it leaves open.                    *)
Typed ==
    /\ backend \in {"api", "mqtt"} /\ severity \in {"warning", "critical"}
    /\ rows \in SUBSET Rows /\ flight \in SUBSET Rows
    /\ asked \in SUBSET (Sensors \X Runs)
    /\ rule \in [Sensors -> [owner : 0..MaxRuns + 1, seen : SUBSET Rows]]
    /\ alert \in [Sensors -> Rows]
    /\ lock \in 0..MaxRuns
    /\ reset \in [Runs -> ResetType]
    /\ loader \in LoaderType
    /\ touches \in 0..MaxTouches /\ faults \in 0..MaxFaults
    /\ loader.run = 0 => loader.status = "failed"

(* A reset works with the lock only; until it has checked the owners it    *)
(* has deleted nothing, and from then on nothing of the operator's that it *)
(* found, and no rule of his, is there.                                    *)
HolderInv ==
    \A n \in Runs :
        /\ reset[n].stage \in Holding <=> lock = n
        /\ reset[n].gone \subseteq Reserved
        /\ reset[n].found \subseteq Foreign
        /\ reset[n].stage \notin Checked => reset[n].rules = {} /\ reset[n].gone = {}
        /\ reset[n].stage # "locked" => reset[n].found = {}
        /\ reset[n].stage \in Checked => \A s \in Sensors : rule[s].owner # Operator

(* Resets are served in the order of their runs, so none is left behind    *)
(* when the latest run goes on to load.                                    *)
OrderInv ==
    /\ \A n \in Runs : n > loader.run => reset[n].stage = "none"
    /\ \A n \in Runs : reset[n].stage \in Holding \cup {"done"} =>
         \A m \in Runs : m < n => reset[m].stage \in Over
    /\ loader.pc > 0 => \A n \in Runs : reset[n].stage \in Over

(* What a run that has not failed has behind it.                           *)
ProgressInv ==
    loader.status # "failed" =>
        /\ loader.pc > 1 => History("level") \in rows
        /\ loader.pc > 2 => History("rise") \in rows
        /\ loader.pc > 5 => First("level", loader.run) \in rows
        /\ loader.pc > 6 => First("rise", loader.run) \in rows
        /\ loader.pc > 7 => Final(loader.run) \in rows
        /\ loader.pc > 3 => rule["level"].owner = loader.run
        /\ loader.pc > 4 => rule["rise"].owner = loader.run
        /\ loader.status = "success" =>
             /\ loader.pc = 8
             /\ \A s \in Sensors :
                  OperatorRow(s) \notin rows => alert[s] = Evidence(loader.run)[s]

IInv == Typed /\ HolderInv /\ OrderInv /\ ProgressInv
-----------------------------------------------------------------------------
(* The steps of a run one by one.                                          *)
LEMMA ScriptSteps ==
    ASSUME NEW n
    PROVE  /\ Script(n)[1] = Load(History("level"), "api")
           /\ Script(n)[2] = Load(History("rise"), "node-red")
           /\ Script(n)[3] = Rule("level") /\ Script(n)[4] = Rule("rise")
           /\ Script(n)[5] = Load(First("level", n), LiveRoute)
           /\ Script(n)[6] = Load(First("rise", n), LiveRoute)
           /\ Script(n)[7] = Load(Final(n), LiveRoute)
           /\ Script(n)[8] = Verify
  BY DEF Script

(* Observations are of known kinds.                                        *)
LEMMA RowTypes ==
    ASSUME NEW s \in Sensors, NEW n \in Runs
    PROVE  /\ History(s) \in Rows /\ First(s, n) \in Rows /\ Final(n) \in Rows
           /\ NoAlert \in Rows /\ Row("none", s, Operator) \in Rows
           /\ OperatorRow(s) \in Rows /\ OperatorRow("other") \in Rows
  BY FixtureAssumption
     DEF FixtureAssumption, History, First, Final, NoAlert, OperatorRow, Row, Rows, Runs,
         Sensors, Live, Operator

(* Each step of a run is of one kind, known from its number.               *)
LEMMA StepKinds ==
    ASSUME Typed, Running, loader.pc > 0
    PROVE  /\ loader.run \in Runs /\ loader.pc \in 1..8
           /\ Step.row \in Rows
           /\ Step.op = "load" <=> loader.pc \in {1, 2, 5, 6, 7}
           /\ Step.op = "rule" <=> loader.pc \in {3, 4}
           /\ loader.pc = 3 => Step.row.sensor = "level"
           /\ loader.pc = 4 => Step.row.sensor = "rise"
           /\ Step.op = "verify" <=> loader.pc = 8
  <1>1. loader.run \in Runs /\ loader.pc \in 1..8
    BY FixtureAssumption DEF FixtureAssumption, Typed, LoaderType, Running, Runs
  <1>2. "level" \in Sensors /\ "rise" \in Sensors
    BY DEF Sensors
  <1>3. loader.pc \in {1, 2, 3, 4, 5, 6, 7, 8}
    BY <1>1
  <1> DEFINE n == loader.run
  <1>4. /\ History("level") \in Rows /\ History("rise") \in Rows
        /\ First("level", n) \in Rows /\ First("rise", n) \in Rows /\ Final(n) \in Rows
        /\ Row("none", "level", Operator) \in Rows /\ Row("none", "rise", Operator) \in Rows
        /\ NoAlert \in Rows
    BY <1>1, <1>2, RowTypes
  <1>5. Step = Script(n)[loader.pc]
    BY DEF Step
  <1>6. CASE loader.pc \in {1, 2, 5, 6, 7}
    <2>1. \E row \in Rows : \E route : Step = Load(row, route)
      BY <1>4, <1>5, <1>6, ScriptSteps
    <2>2. Step.row \in Rows /\ Step.op = "load"
      BY <2>1 DEF Load
    <2> QED BY <1>1, <1>6, <2>2
  <1>7. CASE loader.pc \in {3, 4}
    <2>1. Step = Rule("level") \/ Step = Rule("rise")
      BY <1>5, <1>7, ScriptSteps
    <2>2. /\ loader.pc = 3 => Step = Rule("level")
          /\ loader.pc = 4 => Step = Rule("rise")
      BY <1>5, <1>7, ScriptSteps
    <2> QED BY <1>1, <1>4, <1>7, <2>1, <2>2 DEF Rule, Row
  <1>8. CASE loader.pc = 8
    BY <1>4, <1>5, <1>8, <1>1, ScriptSteps DEF Verify
  <1> QED BY <1>3, <1>6, <1>7, <1>8

(* What rows a reset may delete are observations of known kinds.           *)
LEMMA ReservedTypes ==
    ASSUME Typed
    PROVE  Reserved \in SUBSET Rows /\ Foreign \in SUBSET Rows /\ Foreign \subseteq Reserved
  BY DEF Typed, Reserved, Foreign

(* An evaluation changes what a rule has seen and at most one alert; an     *)
(* active one only among readings of the operator.                          *)
LEMMA EvaluateEffect ==
    ASSUME Typed, NEW s \in Sensors, Evaluate(s)
    PROVE  /\ rule' \in [Sensors -> [owner : 0..MaxRuns + 1, seen : SUBSET Rows]]
           /\ \A t \in Sensors : rule'[t].owner = rule[t].owner
           /\ alert' \in [Sensors -> Rows]
           /\ \A t \in Sensors :
                alert[t] # NoAlert => alert'[t] = alert[t] \/ OperatorRow(t) \in rows
  <1> DEFINE S == {r \in rows : r.sensor = s}
  <1>1. S \in SUBSET Rows /\ rule' = [rule EXCEPT ![s].seen = S]
    BY DEF Typed, Evaluate
  <1>2. /\ rule' \in [Sensors -> [owner : 0..MaxRuns + 1, seen : SUBSET Rows]]
        /\ \A t \in Sensors : rule'[t].owner = rule[t].owner
    <2> HIDE DEF S
    <2> QED BY <1>1 DEF Typed
  <1>3. \A near : Eligible(s, near) \subseteq Rows
    BY DEF Eligible, New, Typed
  <1>4. Mixed(s) \subseteq Rows
    <2>1. NoAlert \in Rows
      BY FixtureAssumption DEF FixtureAssumption, NoAlert, Row, Rows, Operator
    <2>2. alert[s] \in Rows /\ New(s) \subseteq Rows
      BY DEF New, Typed
    <2> QED BY <2>1, <2>2 DEF Mixed
  <1>5. \/ UNCHANGED alert
        \/ /\ alert[s] = NoAlert \/ OperatorRow(s) \in rows
           /\ \E r \in Rows : alert' = [alert EXCEPT ![s] = r]
    BY <1>3, <1>4 DEF Evaluate
  <1> QED BY <1>2, <1>5 DEF Typed

(* Ends and beginnings of resets have the type of resets.                  *)
LEMMA ResetTypes ==
    ASSUME NEW stage \in Stages
    PROVE  [NoReset EXCEPT !.stage = stage] \in ResetType
  BY DEF NoReset, ResetType

-----------------------------------------------------------------------------
(* The types hold at first.                                                *)
LEMMA TypedInit == Init => Typed
  <1> SUFFICES ASSUME Init PROVE Typed
    OBVIOUS
  <1>1. NoReset \in ResetType
    BY DEF NoReset, ResetType, Stages, Over
  <1>2. NoRule \in [owner : 0..MaxRuns + 1, seen : SUBSET Rows]
    BY FixtureAssumption DEF FixtureAssumption, NoRule
  <1>3. NoAlert \in Rows
    BY FixtureAssumption DEF FixtureAssumption, NoAlert, Row, Rows, Operator
  <1>4. loader \in LoaderType
    BY FixtureAssumption DEF FixtureAssumption, LoaderType, Init
  <1> QED
    BY <1>1, <1>2, <1>3, <1>4, FixtureAssumption
       DEF FixtureAssumption, Init, Typed, Nobody

(* Every step keeps the types, whatever it changes.                        *)
LEMMA TypedStep ==
    ASSUME Typed, [Next]_vars
    PROVE  Typed'
  <1> USE FixtureAssumption DEF FixtureAssumption
  <1>1. CASE Begin
    <2>1. loader.run + 1 \in Runs
      BY <1>1 DEF Begin, Typed, LoaderType, Runs
    <2>2. reset' \in [Runs -> ResetType]
      BY <1>1, <2>1 DEF Begin, Typed, ResetType, Stages
    <2>3. loader' \in LoaderType /\ loader'.run # 0
      BY <1>1, <2>1 DEF Begin, LoaderType, Runs
    <2> QED BY <1>1, <2>2, <2>3 DEF Begin, Typed, data
  <1>2. CASE ResetEnds
    BY <1>2 DEF ResetEnds, Failed, Running, Typed, LoaderType, data
  <1>3. CASE Post
    <2>1. Step.row \in Rows
      BY <1>3, StepKinds DEF Post, At
    <2>2. loader' \in LoaderType /\ loader'.run = loader.run /\ loader'.status = loader.status
      BY <1>3 DEF Post, Typed, LoaderType
    <2>3. rows' \in SUBSET Rows /\ flight' \in SUBSET Rows
      BY <1>3, <2>1 DEF Post, Typed
    <2> QED BY <1>3, <2>2, <2>3 DEF Post, Typed
  <1>4. CASE Read \/ SaveRule
    <2>1. CASE Read
      <3>1. loader.pc + 1 \in 0..8
        BY <2>1, StepKinds DEF Read, At
      <3> QED BY <2>1, <3>1 DEF Read, Advance, Typed, LoaderType, data
    <2>2. CASE SaveRule
      <3> DEFINE s == Step.row.sensor
      <3>1. loader.pc + 1 \in 0..8 /\ s \in Sensors /\ loader.run \in Runs
        BY <2>2, StepKinds DEF SaveRule, At, Sensors
      <3>2. rule' = rule \/ NewRule(s, loader.run)
        BY <2>2 DEF SaveRule
      <3>3. rule' \in [Sensors -> [owner : 0..MaxRuns + 1, seen : SUBSET Rows]]
        <4>1. [owner |-> loader.run, seen |-> {r \in rows : r.sensor = s}]
                 \in [owner : 0..MaxRuns + 1, seen : SUBSET Rows]
          BY <3>1 DEF Typed, Runs
        <4> QED BY <3>2, <4>1 DEF NewRule, Typed
      <3>4. loader' \in LoaderType /\ (loader'.run = 0 => loader'.status = "failed")
        BY <2>2, <3>1 DEF SaveRule, Advance, Failed, Typed, LoaderType
      <3> QED BY <2>2, <3>3, <3>4 DEF SaveRule, Typed
    <2> QED BY <1>4, <2>1, <2>2
  <1>5. CASE VerifyAlerts \/ Kill
    <2>1. loader' \in LoaderType /\ (loader'.run = 0 => loader'.status = "failed")
      BY <1>5 DEF VerifyAlerts, Kill, At, Running, Failed, Typed, LoaderType
    <2>2. faults' \in 0..MaxFaults
      BY <1>5 DEF VerifyAlerts, Kill, Fault, Typed
    <2> QED BY <1>5, <2>1, <2>2 DEF VerifyAlerts, Kill, Typed, data
  <1>6. CASE Abandon
    <2>1. Step.row \in Rows /\ loader.run \in Runs
      BY <1>6, StepKinds DEF Abandon
    <2>2. flight' \in SUBSET Rows
      BY <1>6, <2>1 DEF Abandon, Typed
    <2>3. Step.op = "rule" => Step.row.sensor \in Sensors
      BY <1>6, StepKinds DEF Abandon, Sensors
    <2>4. asked' \in SUBSET (Sensors \X Runs)
      BY <1>6, <2>1, <2>3 DEF Abandon, Typed
    <2>5. loader' \in LoaderType /\ loader'.status = "failed" /\ faults' \in 0..MaxFaults
      BY <1>6 DEF Abandon, Failed, Fault, Typed, LoaderType
    <2> QED BY <1>6, <2>2, <2>4, <2>5 DEF Abandon, Typed
  <1>7. CASE Lose
    BY <1>7 DEF Lose, Fault, Typed
  <1>8. ASSUME NEW n \in Runs, ResetStep(n) \/ AbortReset(n) PROVE Typed'
    <2>1. reset' \in [Runs -> ResetType] /\ lock' \in 0..MaxRuns
      <3>1. \A stage \in Stages : EndReset(n, stage) =>
              reset' \in [Runs -> ResetType] /\ lock' \in 0..MaxRuns
        BY ResetTypes DEF EndReset, Typed, Nobody
      <3>2. "done" \in Stages /\ "aborted" \in Stages
        BY DEF Stages, Over
      <3>3. CASE TakeLock(n)
        <4>1. reset[n] \in ResetType /\ Foreign \in SUBSET Rows
          BY ReservedTypes DEF Typed
        <4>2. [reset[n] EXCEPT !.stage = "locked", !.found = Foreign] \in ResetType
          BY <4>1 DEF ResetType, Stages, Holding
        <4>3. reset' = [reset EXCEPT
                          ![n] = [reset[n] EXCEPT !.stage = "locked", !.found = Foreign]]
          BY <3>3 DEF TakeLock, Locked, Typed
        <4> QED BY <3>3, <4>2, <4>3 DEF TakeLock, Typed, Runs
      <3>4. CASE CheckOwners(n)
        BY <3>1, <3>2, <3>4 DEF CheckOwners, Typed, ResetType, Stages, Holding, Checked
      <3>5. CASE DeleteRules(n)
        BY <3>5 DEF DeleteRules, Typed, ResetType, Stages, Holding, Checked
      <3>6. CASE DeleteMeasurements(n)
        BY <3>6, ReservedTypes
           DEF DeleteMeasurements, Typed, ResetType, Stages, Holding, Checked
      <3>7. CASE DeleteEvents(n)
        BY <3>1, <3>2, <3>7 DEF DeleteEvents, Typed, ResetType, Stages, Holding, Checked
      <3>8. CASE CommitReset(n) \/ AbortReset(n)
        BY <3>1, <3>2, <3>8 DEF CommitReset, AbortReset
      <3> QED BY <1>8, <3>3, <3>4, <3>5, <3>6, <3>7, <3>8 DEF ResetStep
    <2>2. CASE CommitReset(n)
      <3>1. /\ NoRule \in [owner : 0..MaxRuns + 1, seen : SUBSET Rows]
            /\ NoAlert \in Rows
        BY DEF NoRule, NoAlert, Row, Rows, Operator
      <3>2. /\ rule' \in [Sensors -> [owner : 0..MaxRuns + 1, seen : SUBSET Rows]]
            /\ alert' \in [Sensors -> Rows]
        BY <2>2, <3>1 DEF CommitReset, Typed
      <3> QED BY <2>1, <2>2, <3>2 DEF CommitReset, Typed
    <2>3. CASE ResetStep(n) /\ ~CommitReset(n)
      BY <2>1, <2>3
         DEF ResetStep, TakeLock, CheckOwners, DeleteRules, DeleteMeasurements,
             DeleteEvents, Typed, data
    <2>4. CASE AbortReset(n)
      BY <2>1, <2>4 DEF AbortReset, Fault, Typed, data
    <2> QED BY <1>8, <2>2, <2>3, <2>4
  <1>9. ASSUME NEW r \in flight, Deliver(r) PROVE Typed'
    BY <1>9 DEF Deliver, Typed
  <1>10. ASSUME NEW ask \in asked, DeliverRule(ask) PROVE Typed'
    <2>1. ask[1] \in Sensors /\ ask[2] \in 0..MaxRuns + 1
      BY DEF Typed, Runs
    <2>2. rule' \in [Sensors -> [owner : 0..MaxRuns + 1, seen : SUBSET Rows]]
      BY <1>10, <2>1 DEF DeliverRule, NewRule, Typed
    <2> QED BY <1>10, <2>2 DEF DeliverRule, Typed
  <1>11. ASSUME NEW s \in Sensors, Evaluate(s) \/ OperatorSaves(s) PROVE Typed'
    <2> DEFINE S == {r \in rows : r.sensor = s}
               RuleType == [owner : 0..MaxRuns + 1, seen : SUBSET Rows]
    <2>1. S \in SUBSET Rows
      BY DEF Typed
    <2>2. CASE Evaluate(s)
      <3>1. rule' \in [Sensors -> RuleType] /\ alert' \in [Sensors -> Rows]
        BY <2>2, EvaluateEffect DEF Typed
      <3> QED BY <2>2, <3>1 DEF Evaluate, Typed
    <2>3. CASE OperatorSaves(s)
      <3>1. [owner |-> Operator, seen |-> S] \in RuleType
        BY <2>1 DEF Operator
      <3>2. rule' \in [Sensors -> RuleType]
        BY <2>3, <3>1 DEF OperatorSaves, NewRule, Typed
      <3> QED BY <2>3, <3>2 DEF OperatorSaves, Typed
    <2> QED BY <1>11, <2>2, <2>3
  <1>12. ASSUME NEW s \in Sensors \cup {"other"}, OperatorStores(s) PROVE Typed'
    <2>1. OperatorRow(s) \in Rows
      BY DEF OperatorRow, Row, Rows, Sensors, Operator
    <2> QED BY <1>12, <2>1 DEF OperatorStores, Typed
  <1>13. CASE UNCHANGED vars
    BY <1>13 DEF vars, data, Typed
  <1> QED
    BY <1>1, <1>2, <1>3, <1>4, <1>5, <1>6, <1>7, <1>8, <1>9, <1>10, <1>11, <1>12, <1>13
       DEF Next, LoaderStep

-----------------------------------------------------------------------------
(* What others do while a reset works: they store observations, and rules  *)
(* only when nobody has the lock.                                          *)
LEMMA HolderFrame ==
    ASSUME Typed, HolderInv, rows \subseteq rows', reset' = reset, lock' = lock,
           lock = Nobody \/ \A s \in Sensors : rule'[s].owner = rule[s].owner
    PROVE  HolderInv'
  <1>1. \A n \in Runs : n # Nobody
    BY FixtureAssumption DEF FixtureAssumption, Runs, Nobody
  <1>2. Reserved \subseteq Reserved' /\ Foreign \subseteq Foreign'
    BY DEF Reserved, Foreign
  <1> QED BY <1>1, <1>2 DEF HolderInv, Holding

(* The end of a reset leaves nothing of it.                                *)
LEMMA HolderEnd ==
    ASSUME Typed, HolderInv, NEW n \in Runs, NEW stage \in {"done", "aborted"},
           EndReset(n, stage),
           \/ rows' = rows /\ rule' = rule
           \/ lock = n
    PROVE  HolderInv'
  <1> SUFFICES ASSUME NEW m \in Runs
               PROVE  /\ reset'[m].stage \in Holding <=> lock' = m
                      /\ reset'[m].gone \subseteq Reserved'
                      /\ reset'[m].found \subseteq Foreign'
                      /\ reset'[m].stage \notin Checked =>
                            reset'[m].rules = {} /\ reset'[m].gone = {}
                      /\ reset'[m].stage # "locked" => reset'[m].found = {}
                      /\ reset'[m].stage \in Checked =>
                            \A s \in Sensors : rule'[s].owner # Operator
    BY DEF HolderInv
  <1>1. n # Nobody /\ m # Nobody
    BY FixtureAssumption DEF FixtureAssumption, Runs, Nobody
  <1>2. CASE m = n
    <2>1. reset'[m] = [NoReset EXCEPT !.stage = stage]
      BY <1>2 DEF EndReset, Typed
    <2>2. /\ reset'[m].stage = stage /\ reset'[m].rules = {}
          /\ reset'[m].gone = {} /\ reset'[m].found = {}
      BY <2>1 DEF NoReset
    <2>3. lock' # m
      BY <1>1, <1>2 DEF EndReset
    <2> QED BY <2>2, <2>3 DEF Holding, Checked
  <1>3. CASE m # n
    <2>1. reset'[m] = reset[m] /\ (lock' = m <=> lock = m)
      BY <1>1, <1>3 DEF EndReset, Typed
    <2>2. CASE rows' = rows /\ rule' = rule
      <3>1. Reserved' = Reserved /\ Foreign' = Foreign
        BY <2>2 DEF Reserved, Foreign
      <3> QED BY <2>1, <2>2, <3>1 DEF HolderInv
    <2>3. CASE lock = n
      <3>1. reset[m].stage \notin Holding
        BY <1>3, <2>3 DEF HolderInv
      <3>2. reset[m].rules = {} /\ reset[m].gone = {} /\ reset[m].found = {}
        BY <3>1 DEF HolderInv, Holding
      <3> QED BY <2>1, <3>1, <3>2, <1>3, <2>3 DEF Holding
    <2> QED BY <2>2, <2>3
  <1> QED BY <1>2, <1>3

(* A reset that goes on changes its own record only.                       *)
LEMMA HolderGoesOn ==
    ASSUME Typed, HolderInv, NEW n \in Runs, rows' = rows, rule' = rule,
           NEW record \in ResetType, reset' = [reset EXCEPT ![n] = record],
           lock' = n, lock = n \/ lock = Nobody,
           record.stage \in Holding,
           record.gone \subseteq Reserved, record.found \subseteq Foreign,
           record.stage \notin Checked => record.rules = {} /\ record.gone = {},
           record.stage # "locked" => record.found = {},
           record.stage \in Checked => \A s \in Sensors : rule[s].owner # Operator
    PROVE  HolderInv'
  <1>1. Reserved' = Reserved /\ Foreign' = Foreign
    BY DEF Reserved, Foreign
  <1>2. \A m \in Runs : m # n => reset'[m] = reset[m] /\ lock # m /\ lock' # m
    BY FixtureAssumption DEF FixtureAssumption, Runs, Nobody, Typed
  <1>3. reset'[n] = record
    BY DEF Typed
  <1> QED BY <1>1, <1>2, <1>3 DEF HolderInv

(* At first no reset works.                                                *)
LEMMA HolderInit == Init => HolderInv
  BY FixtureAssumption
     DEF FixtureAssumption, Init, HolderInv, NoReset, Nobody, Runs, Holding, Checked

(* Every step keeps the claims about resets, those of the reset that took  *)
(* it above all.                                                           *)
LEMMA HolderStep ==
    ASSUME Typed, HolderInv, OrderInv, [Next]_vars
    PROVE  HolderInv'
  <1>1. CASE Begin
    <2> DEFINE n == loader.run + 1
    <2>1. n \in Runs /\ reset[n].stage = "none" /\ n # Nobody
      BY <1>1, FixtureAssumption
         DEF Begin, FixtureAssumption, Typed, LoaderType, OrderInv, Runs, Nobody
    <2>2. \A m \in Runs : m # n => reset'[m] = reset[m]
      BY <1>1, <2>1 DEF Begin, Typed
    <2>3. reset'[n] = [reset[n] EXCEPT !.stage = "waiting"]
      BY <1>1, <2>1 DEF Begin, Typed
    <2>4. /\ reset'[n].stage = "waiting" /\ reset'[n].rules = reset[n].rules
          /\ reset'[n].gone = reset[n].gone /\ reset'[n].found = reset[n].found
      BY <2>1, <2>3 DEF Typed, ResetType
    <2>5. UNCHANGED <<rows, rule, lock>> /\ Reserved' = Reserved /\ Foreign' = Foreign
      BY <1>1 DEF Begin, data, Reserved, Foreign
    <2> QED BY <2>1, <2>2, <2>4, <2>5 DEF HolderInv, Holding, Checked
  <1>2. ASSUME NEW n \in Runs, ResetStep(n) \/ AbortReset(n) PROVE HolderInv'
    <2> DEFINE r == reset[n]
    <2>1. r \in ResetType /\ reset \in [Runs -> ResetType] /\ n # Nobody
      BY FixtureAssumption DEF FixtureAssumption, Typed, Runs, Nobody
    <2>2. CASE TakeLock(n)
      <3> DEFINE record == [r EXCEPT !.stage = "locked", !.found = Foreign]
      <3>1. /\ record \in ResetType /\ record.stage = "locked" /\ record.found = Foreign
            /\ record.rules = r.rules /\ record.gone = r.gone
        BY <2>1, ReservedTypes DEF ResetType, Stages, Holding
      <3>2. reset' = [reset EXCEPT ![n] = record] /\ UNCHANGED <<rows, rule>>
        BY <2>1, <2>2 DEF TakeLock, Locked, data
      <3>3. r.rules = {} /\ r.gone = {}
        BY <2>2 DEF TakeLock, HolderInv, Checked
      <3>4. lock = Nobody /\ lock' = n
        BY <2>2 DEF TakeLock
      <3> HIDE DEF record
      <3> QED BY <3>1, <3>2, <3>3, <3>4, HolderGoesOn DEF Holding, Checked
    <2>3. CASE CheckOwners(n)
      <3>1. lock = n /\ UNCHANGED <<rows, rule>> /\ r.stage = "locked"
        BY <2>3 DEF CheckOwners, HolderInv, Holding, data
      <3>2. CASE EndReset(n, "aborted")
        BY <3>1, <3>2, HolderEnd
      <3>3. CASE ~EndReset(n, "aborted")
        <4> DEFINE record == [r EXCEPT !.stage = "checked"]
        <4>1. Foreign = {} /\ \A s \in Sensors : rule[s].owner # Operator
          BY <2>3, <3>3 DEF CheckOwners
        <4>2. /\ record \in ResetType /\ record.stage = "checked" /\ record.found = r.found
              /\ record.rules = r.rules /\ record.gone = r.gone
          BY <2>1 DEF ResetType, Stages, Holding, Checked
        <4>3. r.rules = {} /\ r.gone = {} /\ r.found = {}
          BY <3>1, <4>1 DEF HolderInv, Checked
        <4>4. reset' = [reset EXCEPT ![n] = record] /\ lock' = n
          BY <2>1, <2>3, <3>1, <3>3 DEF CheckOwners
        <4> HIDE DEF record
        <4> QED BY <3>1, <4>1, <4>2, <4>3, <4>4, HolderGoesOn DEF Holding, Checked
      <3> QED BY <3>2, <3>3
    <2>4. CASE DeleteRules(n) \/ DeleteMeasurements(n) \/ DeleteEvents(n)
      <3>1. lock = n /\ UNCHANGED <<rows, rule>> /\ r.stage \in Checked
        BY <2>4 DEF DeleteRules, DeleteMeasurements, DeleteEvents, HolderInv, Holding, Checked, data
      <3>2. /\ r.gone \subseteq Reserved /\ r.found = {}
            /\ \A s \in Sensors : rule[s].owner # Operator
        BY <3>1 DEF HolderInv, Checked
      <3>3. CASE DeleteRules(n)
        <4> DEFINE record ==
              [r EXCEPT !.stage = "ruled", !.rules = {s \in Sensors : rule[s] # NoRule}]
        <4>1. /\ record \in ResetType /\ record.stage = "ruled" /\ record.found = r.found
              /\ record.gone = r.gone
          BY <2>1 DEF ResetType, Stages, Holding, Checked
        <4>2. reset' = [reset EXCEPT ![n] = record] /\ lock' = n
          BY <2>1, <3>1, <3>3 DEF DeleteRules
        <4> HIDE DEF record
        <4> QED BY <3>1, <3>2, <4>1, <4>2, HolderGoesOn DEF Holding, Checked
      <3>4. CASE DeleteMeasurements(n)
        <4> DEFINE record == [r EXCEPT !.stage = "measured", !.gone = Reserved]
        <4>1. /\ record \in ResetType /\ record.stage = "measured" /\ record.found = r.found
              /\ record.gone = Reserved
          BY <2>1, ReservedTypes DEF ResetType, Stages, Holding, Checked
        <4>2. reset' = [reset EXCEPT ![n] = record] /\ lock' = n
          BY <2>1, <3>1, <3>4 DEF DeleteMeasurements
        <4> HIDE DEF record
        <4> QED BY <3>1, <3>2, <4>1, <4>2, HolderGoesOn DEF Holding, Checked
      <3>5. CASE DeleteEvents(n)
        <4>1. CASE EndReset(n, "aborted")
          BY <3>1, <4>1, HolderEnd
        <4>2. CASE ~EndReset(n, "aborted")
          <5> DEFINE record == [r EXCEPT !.stage = "deleted"]
          <5>1. /\ record \in ResetType /\ record.stage = "deleted" /\ record.found = r.found
                /\ record.gone = r.gone
            BY <2>1 DEF ResetType, Stages, Holding, Checked
          <5>2. reset' = [reset EXCEPT ![n] = record] /\ lock' = n
            BY <2>1, <3>1, <3>5, <4>2 DEF DeleteEvents
          <5> HIDE DEF record
          <5> QED BY <3>1, <3>2, <5>1, <5>2, HolderGoesOn DEF Holding, Checked
        <4> QED BY <4>1, <4>2
      <3> QED BY <2>4, <3>3, <3>4, <3>5
    <2>5. CASE CommitReset(n)
      <3>1. lock = n
        BY <2>5 DEF CommitReset, HolderInv, Holding, Checked
      <3> QED BY <2>5, <3>1, HolderEnd DEF CommitReset
    <2>6. CASE AbortReset(n)
      BY <2>6, HolderEnd DEF AbortReset, data
    <2> QED BY <1>2, <2>2, <2>3, <2>4, <2>5, <2>6 DEF ResetStep
  <1>3. CASE ResetEnds \/ Read \/ VerifyAlerts \/ Kill \/ Abandon \/ Lose
    BY <1>3, HolderFrame DEF ResetEnds, Read, VerifyAlerts, Kill, Abandon, Lose, data
  <1>4. CASE Post
    BY <1>4, HolderFrame DEF Post
  <1>5. CASE SaveRule
    BY <1>5, HolderFrame DEF SaveRule
  <1>6. ASSUME NEW r \in flight, Deliver(r) PROVE HolderInv'
    BY <1>6, HolderFrame DEF Deliver
  <1>7. ASSUME NEW ask \in asked, DeliverRule(ask) PROVE HolderInv'
    BY <1>7, HolderFrame DEF DeliverRule
  <1>8. ASSUME NEW s \in Sensors, Evaluate(s) \/ OperatorSaves(s) PROVE HolderInv'
    BY <1>8, HolderFrame DEF Evaluate, OperatorSaves
  <1>9. ASSUME NEW s \in Sensors \cup {"other"}, OperatorStores(s) PROVE HolderInv'
    BY <1>9, HolderFrame DEF OperatorStores
  <1>10. CASE UNCHANGED vars
    BY <1>10, HolderFrame DEF vars, data
  <1> QED
    BY <1>1, <1>2, <1>3, <1>4, <1>5, <1>6, <1>7, <1>8, <1>9, <1>10 DEF Next, LoaderStep

-----------------------------------------------------------------------------
(* At first there is no reset.                                             *)
LEMMA OrderInit == Init => OrderInv
  BY DEF Init, OrderInv, NoReset, Holding, Checked, Over

(* A reset that works or ends is the oldest that is not over, and the      *)
(* latest run has not gone on.                                             *)
LEMMA OrderReset ==
    ASSUME Typed, HolderInv, OrderInv, NEW n \in Runs, loader' = loader,
           reset[n].stage \notin Over,
           \A m \in Runs : m # n => reset'[m] = reset[m],
           \/ /\ reset'[n].stage \in Holding \cup {"done"}
              /\ \/ reset[n].stage \in Holding
                 \/ lock = Nobody /\ \A m \in Runs : m < n => reset[m].stage # "waiting"
           \/ reset'[n].stage = "aborted"
    PROVE  OrderInv'
  <1>1. n \in Nat /\ loader.run \in Nat /\ \A m \in Runs : m \in Nat /\ m # Nobody
    BY FixtureAssumption DEF FixtureAssumption, Typed, LoaderType, Runs, Nobody
  <1>2. ~(n > loader.run) /\ ~(loader.pc > 0)
    BY DEF OrderInv, Over
  <1>3. \A m \in Runs : m # n /\ reset[m].stage \in Holding \cup {"done"} => ~(n < m)
    BY DEF OrderInv
  <1>4. reset'[n].stage \in Holding \cup {"done"} =>
          \A m \in Runs : m < n => reset[m].stage \in Over
    <2>1. CASE reset[n].stage \in Holding
      BY <2>1 DEF OrderInv
    <2>2. CASE lock = Nobody /\ \A m \in Runs : m < n => reset[m].stage # "waiting"
      <3>1. \A m \in Runs : reset[m].stage \notin Holding /\ reset[m].stage \in Stages
        BY <1>1, <2>2 DEF HolderInv, Typed, ResetType
      <3> QED BY <2>2, <3>1 DEF Stages
    <2> QED BY <2>1, <2>2 DEF Holding, Checked
  <1>5. \A m \in Runs : m > loader.run => reset'[m].stage = "none"
    BY <1>2 DEF OrderInv
  <1>6. \A k \in Runs : reset'[k].stage \in Holding \cup {"done"} =>
          \A m \in Runs : m < k => reset'[m].stage \in Over
    BY <1>1, <1>3, <1>4 DEF OrderInv
  <1> QED BY <1>2, <1>5, <1>6 DEF OrderInv

(* Every step keeps the order of resets.                                   *)
LEMMA OrderStep ==
    ASSUME Typed, HolderInv, OrderInv, [Next]_vars
    PROVE  OrderInv'
  <1>1. CASE Begin
    <2> DEFINE n == loader.run + 1
    <2>1. n \in Runs /\ loader.run \in Nat /\ loader'.run = n /\ loader'.pc = 0
      BY <1>1, FixtureAssumption DEF Begin, FixtureAssumption, Typed, LoaderType, Runs
    <2>2. \A m \in Runs : m # n => reset'[m] = reset[m]
      BY <1>1, <2>1 DEF Begin, Typed
    <2>3. reset'[n].stage = "waiting"
      BY <1>1, <2>1 DEF Begin, Typed, ResetType
    <2>4. \A m \in Runs : m \in Nat
      BY FixtureAssumption DEF FixtureAssumption, Runs
    <2>5. \A m \in Runs : m > n => reset'[m].stage = "none"
      BY <2>1, <2>2, <2>4 DEF OrderInv
    <2>6. ASSUME NEW k \in Runs, reset'[k].stage \in Holding \cup {"done"},
                 NEW m \in Runs, m < k
          PROVE  reset'[m].stage \in Over
      <3>1. k # n /\ reset[k].stage \in Holding \cup {"done"}
        BY <2>2, <2>3, <2>6 DEF Holding, Checked
      <3>2. ~(k > loader.run)
        BY <3>1 DEF OrderInv, Holding, Checked
      <3>3. m # n
        BY <2>1, <2>4, <2>6, <3>2
      <3> QED BY <2>2, <2>6, <3>1, <3>3 DEF OrderInv
    <2> QED BY <2>1, <2>5, <2>6 DEF OrderInv
  <1>2. CASE ResetEnds
    <2>1. /\ loader'.run = loader.run /\ reset' = reset /\ loader.run \in Runs
          /\ \A m \in Runs : m \in Nat
      BY <1>2, FixtureAssumption
         DEF ResetEnds, Running, Failed, FixtureAssumption, Typed, LoaderType, Runs, data
    <2>2. CASE reset[loader.run].stage = "done"
      <3>1. \A m \in Runs : reset[m].stage \in Over
        BY <2>1, <2>2 DEF OrderInv, Over
      <3> QED BY <2>1, <3>1 DEF OrderInv
    <2>3. CASE reset[loader.run].stage # "done"
      <3>1. loader'.pc = loader.pc
        BY <1>2, <2>3 DEF ResetEnds, Failed, Typed, LoaderType
      <3> QED BY <2>1, <3>1 DEF OrderInv
    <2> QED BY <2>2, <2>3
  <1>3. ASSUME NEW n \in Runs, ResetStep(n) \/ AbortReset(n) PROVE OrderInv'
    <2>1. /\ loader' = loader /\ reset[n].stage \notin Over
          /\ \A m \in Runs : m # n => reset'[m] = reset[m]
      BY <1>3
         DEF ResetStep, TakeLock, Locked, CheckOwners, DeleteRules, DeleteMeasurements,
             DeleteEvents, CommitReset, AbortReset, EndReset, Typed, Over, data
    <2>2. \A stage \in Stages : EndReset(n, stage) => reset'[n].stage = stage
      BY DEF EndReset, NoReset, Typed
    <2>3. CASE TakeLock(n)
      <3>1. reset'[n].stage = "locked"
        BY <2>3 DEF TakeLock, Locked, Typed, ResetType
      <3> QED BY <2>1, <2>3, <3>1, OrderReset DEF TakeLock, Holding
    <2>4. CASE ResetStep(n) /\ ~TakeLock(n)
      <3>1. reset[n].stage \in Holding
        BY <2>4
           DEF ResetStep, CheckOwners, DeleteRules, DeleteMeasurements, DeleteEvents,
               CommitReset, Holding, Checked
      <3>2. reset'[n].stage \in Holding \cup {"done", "aborted"}
        BY <2>2, <2>4
           DEF ResetStep, CheckOwners, DeleteRules, DeleteMeasurements, DeleteEvents,
               CommitReset, Holding, Checked, Stages, Over, Typed, ResetType
      <3> QED BY <2>1, <3>1, <3>2, OrderReset
    <2>5. CASE AbortReset(n)
      <3>1. reset'[n].stage = "aborted"
        BY <2>2, <2>5 DEF AbortReset, Stages, Over
      <3> QED BY <2>1, <3>1, OrderReset
    <2> QED BY <1>3, <2>3, <2>4, <2>5
  <1>4. CASE Post \/ Read \/ SaveRule \/ VerifyAlerts \/ Kill \/ Abandon
    <2>1. reset' = reset /\ loader'.run = loader.run /\ (loader'.pc > 0 => loader.pc > 0)
      BY <1>4
         DEF Post, Read, SaveRule, VerifyAlerts, Kill, Abandon, At, Advance, Failed, Typed,
             LoaderType
    <2> QED BY <2>1 DEF OrderInv
  <1>5. CASE UNCHANGED <<reset, loader>>
    BY <1>5 DEF OrderInv
  <1>6. Begin \/ ResetEnds \/ (\E n \in Runs : ResetStep(n) \/ AbortReset(n))
          \/ Post \/ Read \/ SaveRule \/ VerifyAlerts \/ Kill \/ Abandon
          \/ UNCHANGED <<reset, loader>>
    BY DEF Next, LoaderStep, Lose, Deliver, DeliverRule, Evaluate, OperatorSaves,
           OperatorStores, vars
  <1> QED BY <1>1, <1>2, <1>3, <1>4, <1>5, <1>6

-----------------------------------------------------------------------------
(* At first nothing is claimed.                                            *)
LEMMA ProgressInit == Init => ProgressInv
  BY DEF Init, ProgressInv

(* What others do beside the loader: they store observations, write no     *)
(* rule where one is, and leave active alerts alone but for the operator's *)
(* readings.                                                               *)
LEMMA ProgressFrame ==
    ASSUME Typed, Typed', ProgressInv, loader' = loader, rows \subseteq rows',
           \A s \in Sensors : rule[s] = NoRule \/ rule'[s].owner = rule[s].owner,
           \A s \in Sensors :
             alert[s] # NoAlert => alert'[s] = alert[s] \/ OperatorRow(s) \in rows'
    PROVE  ProgressInv'
  <1>1. loader.run # NoRule.owner
    BY FixtureAssumption DEF FixtureAssumption, NoRule, Typed, LoaderType
  <1>2. \A s \in Sensors : rule[s].owner = loader.run => rule'[s].owner = loader.run
    BY <1>1
  <1>3. "level" \in Sensors /\ "rise" \in Sensors
    BY DEF Sensors
  <1>4. ASSUME NEW s \in Sensors, OperatorRow(s) \notin rows',
               OperatorRow(s) \notin rows => alert[s] = Evidence(loader.run)[s]
        PROVE  alert'[s] = Evidence(loader.run)[s]
    <2>1. Evidence(loader.run)[s] # NoAlert
      BY DEF Evidence, First, Final, NoAlert, Row
    <2> QED BY <1>4, <2>1
  <1>5. Evidence(loader.run)' = Evidence(loader.run) /\ \A s : OperatorRow(s)' = OperatorRow(s)
    BY DEF Evidence, First, Final, OperatorRow, Row
  <1> QED BY <1>2, <1>3, <1>4, <1>5 DEF ProgressInv, History, First, Final, Row

(* A run goes on only with what it has seen done, and nothing takes that   *)
(* away from it: resets are over, and its rules and alerts are in place.   *)
LEMMA ProgressStep ==
    ASSUME Typed, Typed', OrderInv, ProgressInv, [Next]_vars
    PROVE  ProgressInv'
  <1>1. CASE Begin \/ ResetEnds
    <2>1. \/ loader'.status = "failed"
          \/ loader'.status = "running" /\ loader'.pc \in {0, 1}
      BY <1>1 DEF Begin, ResetEnds, Running, Failed, Typed, LoaderType
    <2> QED BY <2>1 DEF ProgressInv
  <1>2. ASSUME NEW n \in Runs, ResetStep(n) \/ AbortReset(n) PROVE ProgressInv'
    <2>1. loader' = loader /\ reset[n].stage \notin Over
      BY <1>2
         DEF ResetStep, TakeLock, CheckOwners, DeleteRules, DeleteMeasurements,
             DeleteEvents, CommitReset, AbortReset, Over
    <2>2. loader.pc = 0
      BY <2>1 DEF OrderInv, Typed, LoaderType
    <2>3. loader.status # "success"
      BY <2>2 DEF ProgressInv
    <2> QED BY <2>1, <2>2, <2>3 DEF ProgressInv
  <1>3. CASE Kill \/ Abandon
    BY <1>3 DEF Kill, Abandon, Failed, Typed, LoaderType, ProgressInv
  <1>4. CASE Post
    <2>1. /\ loader'.run = loader.run /\ loader'.pc = loader.pc
          /\ loader'.status = loader.status
          /\ rows \subseteq rows' /\ rule' = rule /\ alert' = alert
      BY <1>4 DEF Post, Typed, LoaderType
    <2> QED BY <2>1 DEF ProgressInv, History, First, Final, Evidence
  <1>5. CASE Read
    <2>1. /\ loader.pc \in {1, 2, 5, 6, 7} /\ loader.status = "running"
          /\ Step.row \in rows /\ UNCHANGED <<rows, rule, alert>>
      BY <1>5, StepKinds DEF Read, At, Running, data
    <2>2. /\ loader'.run = loader.run /\ loader'.pc = loader.pc + 1
          /\ loader'.status = "running"
      BY <1>5, <2>1 DEF Read, Advance, Typed, LoaderType
    <2>3. /\ loader.pc = 1 => Step.row = History("level")
          /\ loader.pc = 2 => Step.row = History("rise")
          /\ loader.pc = 5 => Step.row = First("level", loader.run)
          /\ loader.pc = 6 => Step.row = First("rise", loader.run)
          /\ loader.pc = 7 => Step.row = Final(loader.run)
      <3>1. \A row, route : Load(row, route).row = row
        BY DEF Load
      <3> QED BY <3>1, ScriptSteps DEF Step
    <2> QED BY <2>1, <2>2, <2>3 DEF ProgressInv, History, First, Final, Row
  <1>6. CASE SaveRule
    <2> DEFINE s == Step.row.sensor
    <2>1. /\ loader.pc \in {3, 4} /\ loader.status = "running" /\ loader.run \in Runs
          /\ loader.pc = 3 => s = "level"
          /\ loader.pc = 4 => s = "rise"
          /\ UNCHANGED <<rows, alert>>
      BY <1>6, StepKinds DEF SaveRule, At, Running
    <2>2. CASE loader'.status = "failed"
      BY <2>2 DEF ProgressInv
    <2>3. CASE loader'.status # "failed"
      <3>1. NewRule(s, loader.run) /\ Advance
        BY <1>6, <2>3 DEF SaveRule, Failed, Typed, LoaderType
      <3>2. /\ loader'.run = loader.run /\ loader'.pc = loader.pc + 1
            /\ loader'.status = "running"
        BY <2>1, <3>1 DEF Advance, Typed, LoaderType
      <3>3. /\ rule'[s].owner = loader.run
            /\ s = "rise" => rule'["level"] = rule["level"]
        BY <2>1, <3>1 DEF NewRule, Typed, Sensors
      <3> QED BY <2>1, <3>2, <3>3 DEF ProgressInv, History, First, Final
    <2> QED BY <2>2, <2>3
  <1>7. CASE VerifyAlerts
    <2>1. /\ loader.pc = 8 /\ loader.status = "running"
          /\ UNCHANGED <<rows, rule, alert>>
      BY <1>7, StepKinds DEF VerifyAlerts, At, Running, data
    <2>2. /\ loader'.run = loader.run /\ loader'.pc = loader.pc
          /\ loader'.status = "failed"
             \/ (loader'.status = "success" /\ alert = Evidence(loader.run))
      BY <1>7 DEF VerifyAlerts, Failed, Typed, LoaderType
    <2> QED BY <2>1, <2>2 DEF ProgressInv, History, First, Final, Evidence
  <1>8. CASE Lose
    BY <1>8, ProgressFrame DEF Lose
  <1>9. ASSUME NEW r \in flight, Deliver(r) PROVE ProgressInv'
    BY <1>9, ProgressFrame DEF Deliver
  <1>10. ASSUME NEW ask \in asked, DeliverRule(ask) PROVE ProgressInv'
    <2>1. \A s \in Sensors : rule[s] = NoRule \/ rule'[s].owner = rule[s].owner
      BY <1>10 DEF DeliverRule, NewRule, Typed
    <2> QED BY <1>10, <2>1, ProgressFrame DEF DeliverRule
  <1>11. ASSUME NEW s \in Sensors, Evaluate(s) PROVE ProgressInv'
    <2>1. rows' = rows /\ loader' = loader
      BY <1>11 DEF Evaluate
    <2> QED BY <1>11, <2>1, EvaluateEffect, ProgressFrame
  <1>12. ASSUME NEW s \in Sensors, OperatorSaves(s) PROVE ProgressInv'
    <2>1. \A t \in Sensors : rule[t] = NoRule \/ rule'[t].owner = rule[t].owner
      BY <1>12 DEF OperatorSaves, NewRule, Typed
    <2> QED BY <1>12, <2>1, ProgressFrame DEF OperatorSaves
  <1>13. ASSUME NEW s \in Sensors \cup {"other"}, OperatorStores(s) PROVE ProgressInv'
    BY <1>13, ProgressFrame DEF OperatorStores
  <1>14. CASE UNCHANGED vars
    BY <1>14, ProgressFrame DEF vars, data
  <1> QED
    BY <1>1, <1>2, <1>3, <1>4, <1>5, <1>6, <1>7, <1>8, <1>9, <1>10, <1>11, <1>12, <1>13,
       <1>14 DEF Next, LoaderStep

-----------------------------------------------------------------------------
(* The four parts are inductive together.                                  *)
LEMMA Inductive == Spec => []IInv
  <1>1. Init => IInv
    BY TypedInit, HolderInit, OrderInit, ProgressInit DEF IInv
  <1>2. IInv /\ [Next]_vars => IInv'
    BY TypedStep, HolderStep, OrderStep, ProgressStep DEF IInv
  <1> QED BY <1>1, <1>2, PTL DEF Spec

(* What runs check follows from them: the types,                           *)
LEMMA TypeFollows == IInv => TypeOK
  <1> SUFFICES ASSUME IInv PROVE TypeOK
    OBVIOUS
  <1>1. Reserved \subseteq rows
    BY DEF Reserved
  <1>2. \A n \in Runs : reset[n].rules \subseteq Sensors /\ reset[n].gone \subseteq rows
    BY <1>1 DEF IInv, Typed, ResetType, HolderInv
  <1> QED BY <1>2 DEF IInv, Typed, LoaderType, TypeOK

(* and the truth of reports.                                               *)
LEMMA TruthFollows == IInv => ReportTruthful
  <1> SUFFICES ASSUME IInv, loader.status = "success"
               PROVE  ReportTruthful
    BY DEF ReportTruthful
  <1>1. /\ loader.pc = 8
        /\ \A s \in Sensors : OperatorRow(s) \notin rows => alert[s] = Evidence(loader.run)[s]
    BY DEF IInv, ProgressInv
  <1> DEFINE n == loader.run
  <1>2. /\ History("level") \in rows /\ History("rise") \in rows
        /\ First("level", n) \in rows /\ First("rise", n) \in rows /\ Final(n) \in rows
        /\ rule["level"].owner = n /\ rule["rise"].owner = n
    BY <1>1 DEF IInv, ProgressInv
  <1>3. \A row, route : Load(row, route).row = row
    BY DEF Load
  <1>4. \A i \in {1, 2, 5, 6, 7} : Script(n)[i].row \in rows
    BY <1>2, <1>3, ScriptSteps
  <1> QED BY <1>1, <1>2, <1>4 DEF ReportTruthful, Sensors

(* A report of success is true and stays true until the next run, whatever *)
(* earlier runs, killed at any point, left on its way, and however many    *)
(* of them there were.                                                     *)
THEOREM ReportsTrue == Spec => []FixtureInv
  <1>1. IInv => FixtureInv
    BY TypeFollows, TruthFollows DEF FixtureInv
  <1> QED BY <1>1, Inductive, PTL

(* Only the commit of a reset takes anything away.                         *)
LEMMA OnlyCommitDeletes ==
    ASSUME IInv, [Next]_vars, ~(\E n \in Runs : CommitReset(n))
    PROVE  /\ rows \subseteq rows'
           /\ \A s \in Sensors : rule[s].owner = Operator => rule'[s].owner = Operator
  <1> USE FixtureAssumption DEF FixtureAssumption
  <1>1. NoRule.owner # Operator
    BY DEF NoRule, Operator
  <1>2. CASE SaveRule
    BY <1>1, <1>2 DEF SaveRule, NewRule, IInv, Typed
  <1>3. ASSUME NEW ask \in asked, DeliverRule(ask)
        PROVE  /\ rows \subseteq rows'
               /\ \A s \in Sensors : rule[s].owner = Operator => rule'[s].owner = Operator
    BY <1>1, <1>3 DEF DeliverRule, NewRule, IInv, Typed
  <1>4. ASSUME NEW s \in Sensors, Evaluate(s)
        PROVE  /\ rows \subseteq rows'
               /\ \A t \in Sensors : rule[t].owner = Operator => rule'[t].owner = Operator
    <2>1. rows' = rows
      BY <1>4 DEF Evaluate
    <2> QED BY <1>4, <2>1, EvaluateEffect DEF IInv
  <1>5. ASSUME NEW s \in Sensors, OperatorSaves(s)
        PROVE  /\ rows \subseteq rows'
               /\ \A t \in Sensors : rule[t].owner = Operator => rule'[t].owner = Operator
    BY <1>5 DEF OperatorSaves, NewRule, IInv, Typed
  <1>6. CASE rule' = rule /\ rows \subseteq rows'
    BY <1>6
  <1>7. \/ SaveRule \/ \E ask \in asked : DeliverRule(ask)
        \/ \E s \in Sensors : Evaluate(s) \/ OperatorSaves(s)
        \/ rule' = rule /\ rows \subseteq rows'
    BY DEF Next, LoaderStep, Begin, ResetEnds, Post, Read, VerifyAlerts, Kill, Abandon, Lose,
           ResetStep, TakeLock, CheckOwners, DeleteRules, DeleteMeasurements, DeleteEvents,
           AbortReset, Deliver, OperatorStores, vars, data
  <1> QED BY <1>2, <1>3, <1>4, <1>5, <1>6, <1>7

(* No run, however it was cut off and whatever overlaps it, deletes a rule *)
(* of the operator, or an observation of his but one that was stored on a  *)
(* reserved sensor after the reset got its lock.                           *)
THEOREM OperatorSafe == Spec => OperatorKept
  <1> DEFINE Kept ==
        /\ \A s \in Sensors : rule[s].owner = Operator => rule'[s].owner = Operator
        /\ \A r \in rows \ rows' :
             r.part = "operator" =>
                 r \in Foreign /\ \A n \in Runs : r \notin reset[n].found
  <1>1. IInv /\ [Next]_vars => Kept
    <2> SUFFICES ASSUME IInv, [Next]_vars PROVE Kept
      OBVIOUS
    <2>1. CASE ~(\E n \in Runs : CommitReset(n))
      BY <2>1, OnlyCommitDeletes
    <2>2. ASSUME NEW n \in Runs, CommitReset(n) PROVE Kept
      <3>1. reset[n].stage \in Checked /\ lock = n
        BY <2>2 DEF CommitReset, IInv, HolderInv, Checked, Holding
      <3>2. /\ \A s \in Sensors : rule[s].owner # Operator
            /\ reset[n].gone \subseteq Reserved
        BY <3>1 DEF IInv, HolderInv
      <3>3. \A m \in Runs : reset[m].found = {}
        BY <3>1 DEF IInv, HolderInv, Holding, Checked
      <3>4. rows \ rows' \subseteq Reserved
        BY <2>2, <3>2 DEF CommitReset
      <3> QED BY <3>2, <3>3, <3>4 DEF Foreign
    <2> QED BY <2>1, <2>2
  <1> QED BY <1>1, Inductive, PTL DEF Spec, OperatorKept
=============================================================================
