------------------------- MODULE HostFirewallProofs -------------------------
(***************************************************************************)
(* Proofs about the host firewall: FirewallTrial for any policies,         *)
(* administrators and failing commands, and any number of calls, kills and *)
(* reboots; then HostPolicy for every set of networks, addresses,          *)
(* settings, ports and attempted connections that satisfies                *)
(* PolicyAssumption; and what the two say together.                        *)
(***************************************************************************)
EXTENDS FirewallTrial, HostPolicy, TLAPS

Tables == Policies \cup {None}
Boots == Tables \X BOOLEAN \X BOOLEAN

(* TypeOK with what it leaves open: who can hold the lock, what confirm    *)
(* read, and that the timer's service only rolls back.                     *)
Typed ==
    /\ runtime \in Tables /\ boot \in Tables /\ candidate \in Tables
    /\ previous \in Tables /\ agreed \in Tables /\ confirmed \in Tables
    /\ service \in BOOLEAN /\ enabled \in BOOLEAN /\ pending \in BOOLEAN
    /\ armed \in BOOLEAN /\ torn \in BOOLEAN
    /\ stuck \in SUBSET Processes /\ lived \in SUBSET Policies
    /\ step \in [Processes -> {"idle"} \cup Commands \cup Steps]
    /\ command \in [Processes -> Commands]
    /\ old \in Boots
    /\ lock \in Processes \cup {None}
    /\ \A p \in Processes : lock = p <=> step[p] \in Steps
    /\ command[Unit] = "rollback"
    /\ step[Unit] \in {"idle", "rollback", "restore", "unmark", "stop"}
    /\ ops \in Nat /\ kills \in Nat /\ reboots \in Nat

(* What a command at this step relies on.  Only the holder of the lock is  *)
(* at a step, so it speaks of one command at a time.                       *)
Stage(s) ==
    /\ s \in {"check", "mark"} => ~pending /\ candidate \in Policies
    /\ s = "mark" => previous = runtime
    /\ s \in {"arm", "load", "unmark"} => pending /\ runtime = previous
    /\ s = "load" => armed \/ step[Unit] # "idle"
    /\ s = "stop" => ~pending
    /\ s = "boot" \/ s \in Persisting => pending

(* Outside a trial the live table is the agreed one, and during a trial    *)
(* the snapshot is.                                                        *)
StageInv ==
    /\ \A p \in Processes : Stage(step[p])
    /\ pending => previous = agreed /\ candidate \in Policies
    /\ ~pending => runtime = agreed

(* An unconfirmed policy is live only with its rollback waiting, at work   *)
(* or failed, even while a command runs.                                   *)
ArmedInv == pending /\ runtime # previous => armed \/ step[Unit] # "idle" \/ Unit \in stuck

Clean == boot = confirmed /\ (service <=> confirmed # None) /\ (enabled <=> confirmed # None)

(* How far confirm, or its undoing, has come.                              *)
Progress(s) ==
    /\ s = "boot" \/ s \in Persisting =>
         old[1] = confirmed /\ (old[2] <=> confirmed # None) /\ (old[3] <=> confirmed # None)
    /\ s \in {"service", "reload", "enable", "accept"} => boot = candidate
    /\ s = "service" => (service <=> old[2])
    /\ s \in {"reload", "enable", "accept"} => service
    /\ s = "accept" => enabled
    /\ s \in Persisting /\ old[3] => enabled
    /\ s \in {"undoService", "undoEnable"} => boot = old[1]
    /\ s = "undoEnable" => (service <=> old[2])

(* Unless a confirm was torn, what is persisted is what was confirmed, but *)
(* for a confirm at work.                                                  *)
PersistInv ==
    ~torn =>
        /\ \A p \in Processes : Progress(step[p])
        /\ (\A p \in Processes : step[p] \notin Persisting) => Clean

(* The candidate of a trial has been live, but for a try at work, if no    *)
(* command was killed and no failed try could not take its marker back.    *)
LivedInv ==
    kills = 0 /\ stuck \subseteq {Unit} /\ pending =>
        \/ candidate \in lived
        \/ \E a \in Admins : step[a] \in {"arm", "load", "restore", "unmark"}

IInv == Typed /\ StageInv /\ ArmedInv /\ PersistInv /\ LivedInv
-----------------------------------------------------------------------------
(* Which actions the command of a process takes part in.                   *)
Runs(p) ==
    \/ Check(p) \/ Mark(p) \/ Arm(p) \/ Load(p) \/ Restore(p) \/ Unmark(p) \/ Stop(p)
    \/ WriteBoot(p) \/ WriteService(p) \/ Reload(p) \/ Enable(p) \/ Accept(p)
    \/ UndoBoot(p) \/ UndoService(p) \/ UndoEnable(p)
Begins(p) == Try(p) \/ Refuse(p) \/ Rollback(p) \/ Confirm(p)

(* A step of a command: it has the lock or takes it, and goes to another   *)
(* step or, giving up the lock, to none.                                   *)
LEMMA WorkMoves ==
    ASSUME Typed, NEW p \in Processes, Work(p)
    PROVE  /\ step[p] \in Steps \/ (step[p] \in Commands /\ lock = None)
           /\ \/ step' = [step EXCEPT ![p] = "idle"] /\ lock' = None
              \/ \E s \in Steps : step' = [step EXCEPT ![p] = s] /\ lock' = p
<1>1. ASSUME Begins(p)
      PROVE  /\ step[p] \in Commands /\ lock = None
             /\ \/ step' = [step EXCEPT ![p] = "idle"] /\ lock' = None
                \/ \E s \in Steps : step' = [step EXCEPT ![p] = s] /\ lock' = p
  BY <1>1 DEF Begins, Try, Refuse, Rollback, Confirm, TakeLock, Exit, Commands, Steps
<1>2. ASSUME Runs(p)
      PROVE  /\ step[p] \in Steps
             /\ \/ step' = [step EXCEPT ![p] = "idle"] /\ lock' = None
                \/ \E s \in Steps : step' = [step EXCEPT ![p] = s] /\ lock' = p
  <2>1. step[p] \in Steps
    BY <1>2 DEF Runs, Check, Mark, Arm, Load, Restore, Unmark, Stop, WriteBoot,
                WriteService, Reload, Enable, Accept, UndoBoot, UndoService, UndoEnable,
                Steps
  <2>2. Exit(p) \/ \E s \in Steps : Goto(p, s)
    BY <1>2 DEF Runs, Check, Mark, Arm, Load, Restore, Unmark, Stop, WriteBoot,
                WriteService, Reload, Enable, Accept, UndoBoot, UndoService, UndoEnable,
                Restored, AfterFailure, Steps
  <2>3. lock = p
    BY <2>1 DEF Typed
  <2> QED BY <2>1, <2>2, <2>3 DEF Exit, Goto
<1> QED BY <1>1, <1>2 DEF Work, Begins, Runs

(* While one command works, every other is idle or waits for the lock.     *)
LEMMA Alone ==
    ASSUME Typed, NEW p \in Processes, Work(p)
    PROVE  /\ \A q \in Processes : q # p => step[q] \notin Steps /\ step'[q] = step[q]
           /\ step' \in [Processes -> {"idle"} \cup Commands \cup Steps]
           /\ lock' \in Processes \cup {None}
           /\ \A q \in Processes : lock' = q <=> step'[q] \in Steps
<1>1. /\ step[p] \in Steps \/ (step[p] \in Commands /\ lock = None)
      /\ \/ step' = [step EXCEPT ![p] = "idle"] /\ lock' = None
         \/ \E s \in Steps : step' = [step EXCEPT ![p] = s] /\ lock' = p
  BY WorkMoves
<1>2. None \notin Processes
  BY TrialAssumption
<1>3. \A q \in Processes : q # p => step[q] \notin Steps
  BY <1>1, <1>2 DEF Typed
<1>4. /\ \A q \in Processes : q # p => step'[q] = step[q]
      /\ step' \in [Processes -> {"idle"} \cup Commands \cup Steps]
  BY <1>1 DEF Typed
<1>5. "idle" \notin Steps
  BY DEF Steps
<1>6. \A q \in Processes : lock' = q <=> step'[q] \in Steps
  BY <1>1, <1>2, <1>3, <1>4, <1>5 DEF Typed
<1> QED BY <1>1, <1>3, <1>4, <1>6

(* The service of the timer is never at a step of try or confirm.          *)
LEMMA UnitRollsBack ==
    ASSUME Typed, NEW p \in Processes, Work(p)
    PROVE  step'[Unit] \in {"idle", "rollback", "restore", "unmark", "stop"}
<1>0. Unit \in Processes /\ command[Unit] = "rollback"
  BY DEF Typed, Processes
<1>1. CASE p # Unit
  BY <1>0, <1>1, Alone DEF Typed
<1>2. CASE p = Unit
  <2>1. step[Unit] \in {"rollback", "restore", "unmark", "stop"}
    BY <1>2, WorkMoves DEF Typed, Commands, Steps
  <2>2. step \in [Processes -> {"idle"} \cup Commands \cup Steps]
    BY DEF Typed
  <2>3. Rollback(Unit) \/ Restore(Unit) \/ Unmark(Unit) \/ Stop(Unit)
    BY <1>2, <2>1 DEF Work, Try, Refuse, Check, Mark, Arm, Load, Confirm, WriteBoot,
       WriteService, Reload, Enable, Accept, UndoBoot, UndoService, UndoEnable
  <2> QED BY <1>0, <2>2, <2>3 DEF Rollback, Restore, Unmark, Stop, Restored, Goto, Exit
<1> QED BY <1>1, <1>2

(* The tables, files and flags a command writes.                           *)
LEMMA WorkTypes ==
    ASSUME Typed, NEW p \in Processes, Work(p), StageInv
    PROVE  /\ runtime' \in Tables /\ boot' \in Tables /\ candidate' \in Tables
           /\ previous' \in Tables /\ agreed' \in Tables /\ confirmed' \in Tables
           /\ service' \in BOOLEAN /\ enabled' \in BOOLEAN /\ pending' \in BOOLEAN
           /\ armed' \in BOOLEAN /\ torn' \in BOOLEAN
           /\ stuck' \in SUBSET Processes /\ lived' \in SUBSET Policies
           /\ old' \in Boots
           /\ UNCHANGED <<command, ops, kills, reboots>>
<1> USE DEF Typed, Tables, run, persistent, history, bounds
<1>1. ASSUME Try(p) \/ Refuse(p) \/ Check(p) \/ Mark(p) \/ Rollback(p) \/ Unmark(p) \/ Stop(p)
      PROVE  /\ candidate' \in Tables /\ previous' \in Tables
             /\ pending' \in BOOLEAN /\ armed' \in BOOLEAN
             /\ UNCHANGED <<runtime, persistent, command, old, history, bounds>>
  BY <1>1 DEF Try, Refuse, Check, Mark, Rollback, Unmark, Stop, RemoveMarker
<1>2. ASSUME Arm(p) \/ Load(p) \/ Restore(p)
      PROVE  /\ runtime' \in Tables /\ armed' \in BOOLEAN
             /\ lived' \in SUBSET Policies /\ stuck' \in SUBSET Processes
             /\ UNCHANGED <<persistent, run, command, old, agreed, confirmed, torn, bounds>>
  <2>1. CASE Arm(p)
    BY <2>1 DEF Arm
  <2>2. CASE Load(p)
    <3>1. pending /\ candidate \in Policies
      BY <2>2 DEF Load, StageInv, Stage
    <3> QED BY <2>2, <3>1 DEF Load
  <2>3. CASE Restore(p)
    BY <2>3 DEF Restore
  <2> QED BY <1>2, <2>1, <2>2, <2>3
<1>3. ASSUME WriteBoot(p) \/ WriteService(p) \/ Reload(p) \/ Enable(p) \/ Accept(p)
      PROVE  /\ boot' \in Tables /\ service' \in BOOLEAN /\ enabled' \in BOOLEAN
             /\ pending' \in BOOLEAN /\ agreed' \in Tables /\ confirmed' \in Tables
             /\ UNCHANGED <<runtime, candidate, previous, armed, command, old, lived,
                            stuck, torn, bounds>>
  BY <1>3 DEF WriteBoot, WriteService, Reload, Enable, Accept
<1>4. ASSUME UndoBoot(p) \/ UndoService(p) \/ UndoEnable(p)
      PROVE  /\ boot' \in Tables /\ service' \in BOOLEAN /\ enabled' \in BOOLEAN
             /\ torn' \in BOOLEAN
             /\ UNCHANGED <<runtime, run, armed, command, old, lived, agreed,
                            confirmed, stuck, bounds>>
  <2>1. old[1] \in Tables /\ old[2] \in BOOLEAN /\ old[3] \in BOOLEAN
    BY DEF Boots
  <2>2. CASE UndoBoot(p)
    BY <2>1, <2>2 DEF UndoBoot, UndoFails, OldBoot
  <2>3. CASE UndoService(p)
    BY <2>1, <2>3 DEF UndoService, UndoFails
  <2>4. CASE UndoEnable(p)
    BY <2>1, <2>4 DEF UndoEnable, UndoFails
  <2> QED BY <1>4, <2>2, <2>3, <2>4
<1>5. ASSUME Confirm(p)
      PROVE  old' \in Boots /\ UNCHANGED <<runtime, persistent, run, armed, command, history, bounds>>
  BY <1>5 DEF Confirm, Boots
<1>6. \/ Try(p) \/ Refuse(p) \/ Check(p) \/ Mark(p) \/ Rollback(p) \/ Unmark(p) \/ Stop(p)
      \/ Arm(p) \/ Load(p) \/ Restore(p)
      \/ WriteBoot(p) \/ WriteService(p) \/ Reload(p) \/ Enable(p) \/ Accept(p)
      \/ UndoBoot(p) \/ UndoService(p) \/ UndoEnable(p) \/ Confirm(p)
  BY DEF Work
<1> QED BY <1>1, <1>2, <1>3, <1>4, <1>5, <1>6

(* The initial state is typed.                                             *)
LEMMA TypedInit == Init => Typed
<1> SUFFICES ASSUME Init PROVE Typed
  OBVIOUS
<1>1. Unit \in Processes /\ None \notin Processes
  BY TrialAssumption DEF Processes
<1>2. "idle" \notin Steps /\ "rollback" \in Commands
  BY DEF Steps, Commands
<1>3. /\ step \in [Processes -> {"idle"} \cup Commands \cup Steps]
      /\ step[Unit] = "idle"
      /\ \A p \in Processes : lock = p <=> step[p] \in Steps
  BY <1>1, <1>2 DEF Init
<1>4. command \in [Processes -> Commands] /\ command[Unit] = "rollback"
  BY <1>1, <1>2 DEF Init
<1>5. old \in Boots
  BY DEF Init, Boots, Tables
<1> QED BY <1>3, <1>4, <1>5 DEF Init, Typed, Tables

(* The types are kept by every step.                                       *)
LEMMA TypedStep == Typed /\ StageInv /\ [Next]_vars => Typed'
<1> SUFFICES ASSUME Typed, StageInv, [Next]_vars PROVE Typed'
  OBVIOUS
<1>0. Unit \in Processes /\ Unit \notin Admins /\ None \notin Processes /\ Admins \subseteq Processes
  BY TrialAssumption DEF Processes
<1>1. ASSUME NEW a \in Admins, NEW c \in Commands, Call(a, c) PROVE Typed'
  <2>1. /\ step[a] = "idle" /\ step' = [step EXCEPT ![a] = c] /\ lock' = lock
        /\ command' = [command EXCEPT ![a] = c] /\ ops' = ops + 1
        /\ UNCHANGED <<runtime, persistent, run, armed, old, history, kills, reboots>>
    BY <1>1 DEF Call, Goto
  <2>2. c \notin Steps /\ "idle" \notin Steps
    BY DEF Commands, Steps
  <2> QED BY <1>0, <2>1, <2>2 DEF Typed, persistent, run, history
<1>2. ASSUME NEW a \in Admins, Kill(a) PROVE Typed'
  <2>1. /\ step' = [step EXCEPT ![a] = "idle"] /\ kills' = kills + 1
        /\ lock' = IF lock = a THEN None ELSE lock
        /\ torn' \in BOOLEAN
        /\ UNCHANGED <<runtime, persistent, run, armed, command, old, lived, agreed,
                       confirmed, stuck, ops, reboots>>
    BY <1>2 DEF Kill, Typed
  <2>2. "idle" \notin Steps
    BY DEF Steps
  <2> QED BY <1>0, <2>1, <2>2 DEF Typed, persistent, run
<1>3. ASSUME Elapse PROVE Typed'
  <2>1. /\ step[Unit] = "idle" /\ step' = [step EXCEPT ![Unit] = "rollback"] /\ lock' = lock
        /\ command' = [command EXCEPT ![Unit] = "rollback"] /\ armed' = FALSE
        /\ UNCHANGED <<runtime, persistent, run, old, history, bounds>>
    BY <1>3 DEF Elapse, Goto
  <2>2. "rollback" \in Commands /\ "rollback" \notin Steps /\ "idle" \notin Steps
    BY DEF Commands, Steps
  <2> QED BY <1>0, <2>1, <2>2 DEF Typed, persistent, run, history, bounds
<1>4. ASSUME Reboot PROVE Typed'
  <2>1. /\ runtime' \in Tables /\ agreed' = runtime' /\ torn' \in BOOLEAN
        /\ pending' = FALSE /\ candidate' = None /\ previous' = None
        /\ armed' = FALSE /\ lock' = None /\ stuck' = {} /\ reboots' = reboots + 1
        /\ step' = [p \in Processes |-> "idle"]
        /\ UNCHANGED <<persistent, command, old, lived, confirmed, ops, kills>>
    BY <1>4 DEF Reboot, Typed, Tables
  <2>2. "idle" \notin Steps
    BY DEF Steps
  <2>3. /\ step' \in [Processes -> {"idle"} \cup Commands \cup Steps]
        /\ step'[Unit] = "idle"
        /\ \A p \in Processes : lock' = p <=> step'[p] \in Steps
    BY <1>0, <2>1, <2>2
  <2>4. /\ runtime' \in Tables /\ agreed' \in Tables
        /\ candidate' \in Tables /\ previous' \in Tables
    BY <2>1 DEF Tables
  <2>5. /\ boot' \in Tables /\ service' \in BOOLEAN /\ enabled' \in BOOLEAN
        /\ command' \in [Processes -> Commands] /\ command'[Unit] = "rollback"
        /\ old' \in Boots /\ lived' \in SUBSET Policies /\ confirmed' \in Tables
    BY <2>1 DEF Typed, persistent
  <2>6. pending' \in BOOLEAN /\ armed' \in BOOLEAN /\ torn' \in BOOLEAN
    BY <2>1, Zenon
  <2>7. /\ stuck' \in SUBSET Processes /\ lock' \in Processes \cup {None}
        /\ ops' \in Nat /\ kills' \in Nat /\ reboots' \in Nat
    BY <2>1 DEF Typed
  <2> QED BY <2>3, <2>4, <2>5, <2>6, <2>7 DEF Typed
<1>5. ASSUME NEW p \in Processes, Work(p) PROVE Typed'
  BY <1>5, WorkTypes, Alone, UnitRollsBack DEF Typed
<1>6. ASSUME UNCHANGED vars PROVE Typed'
  BY <1>6 DEF vars, persistent, run, history, bounds, Typed
<1> QED BY <1>1, <1>2, <1>3, <1>4, <1>5, <1>6 DEF Next
-----------------------------------------------------------------------------
(* Who waits or is idle relies on nothing.                                 *)
LEMMA StageFree ==
    ASSUME NEW s, s \notin Steps
    PROVE  Stage(s) /\ s \notin Persisting /\ s # "boot"
BY DEF Stage, Steps, Persisting

(* What holds at the step a command goes to.                               *)
LEMMA StageWork ==
    ASSUME Typed, StageInv, NEW p \in Processes, Work(p)
    PROVE  /\ Stage(step[p])'
           /\ pending' => previous' = agreed' /\ candidate' \in Policies
           /\ ~pending' => runtime' = agreed'
<1> DEFINE Kept ==
      /\ Stage(step[p])'
      /\ pending' => previous' = agreed' /\ candidate' \in Policies
      /\ ~pending' => runtime' = agreed'
<1>1. /\ step \in [Processes -> {"idle"} \cup Commands \cup Steps]
      /\ pending \in BOOLEAN /\ armed \in BOOLEAN
  BY DEF Typed
<1>2. /\ Stage(step[p])
      /\ pending => previous = agreed /\ candidate \in Policies
      /\ ~pending => runtime = agreed
  BY DEF StageInv
<1>3. p = Unit => step[Unit] \in {"idle", "rollback", "restore", "unmark", "stop"}
  BY DEF Typed
<1> USE <1>1, <1>2 DEF Stage, Persisting, Goto, Exit, persistent, run, history, bounds
<1>4. ASSUME Try(p) PROVE Kept
  BY <1>4 DEF Try
<1>5. ASSUME Refuse(p) PROVE Kept
  BY <1>5 DEF Refuse
<1>6. ASSUME Check(p) PROVE Kept
  BY <1>6 DEF Check
<1>7. ASSUME Mark(p) PROVE Kept
  BY <1>7 DEF Mark
<1>8. ASSUME Arm(p) PROVE Kept
  <2>1. pending /\ runtime = previous /\ p # Unit
    BY <1>3, <1>8 DEF Arm
  <2>2. CASE armed' = TRUE /\ Goto(p, "load")
    BY <1>8, <2>1, <2>2 DEF Arm
  <2>3. CASE Goto(p, "restore")
    BY <1>8, <2>1, <2>3 DEF Arm
  <2> QED BY <1>8, <2>2, <2>3 DEF Arm, AfterFailure
<1>9. ASSUME Load(p) PROVE Kept
  BY <1>9 DEF Load
<1>10. ASSUME Rollback(p) PROVE Kept
  BY <1>10 DEF Rollback
<1>11. ASSUME Restore(p) PROVE Kept
  <2>1. CASE ~pending /\ Restored(p) /\ runtime' = runtime
    BY <1>11, <2>1 DEF Restore, Restored
  <2>2. CASE pending /\ runtime' = previous /\ Goto(p, "unmark")
    BY <1>11, <2>2 DEF Restore
  <2>3. CASE Exit(p) /\ runtime' = runtime
    BY <1>11, <2>3 DEF Restore
  <2> QED BY <1>11, <2>1, <2>2, <2>3 DEF Restore, RestoreNeeded
<1>12. ASSUME Unmark(p) PROVE Kept
  BY <1>12 DEF Unmark, RemoveMarker, Restored
<1>13. ASSUME Stop(p) PROVE Kept
  BY <1>13 DEF Stop
<1>14. ASSUME Confirm(p) PROVE Kept
  BY <1>14 DEF Confirm
<1>15. ASSUME WriteBoot(p) PROVE Kept
  BY <1>15 DEF WriteBoot
<1>16. ASSUME WriteService(p) PROVE Kept
  BY <1>16 DEF WriteService
<1>17. ASSUME Reload(p) PROVE Kept
  BY <1>17 DEF Reload
<1>18. ASSUME Enable(p) PROVE Kept
  BY <1>18 DEF Enable
<1>19. ASSUME Accept(p) PROVE Kept
  BY <1>19 DEF Accept
<1>20. ASSUME UndoBoot(p) PROVE Kept
  BY <1>20 DEF UndoBoot, UndoFails
<1>21. ASSUME UndoService(p) PROVE Kept
  BY <1>21 DEF UndoService, UndoFails
<1>22. ASSUME UndoEnable(p) PROVE Kept
  BY <1>22 DEF UndoEnable, UndoFails
<1> HIDE DEF Kept
<1>23. Kept
  BY <1>4, <1>5, <1>6, <1>7, <1>8, <1>9, <1>10, <1>11, <1>12, <1>13, <1>14, <1>15,
     <1>16, <1>17, <1>18, <1>19, <1>20, <1>21, <1>22 DEF Work
<1> QED BY <1>23 DEF Kept

(* At first there is no trial.                                             *)
LEMMA StageInit == Init => StageInv /\ ArmedInv
<1> SUFFICES ASSUME Init PROVE StageInv /\ ArmedInv
  OBVIOUS
<1>1. \A p \in Processes : Stage(step[p])
  BY DEF Init, Stage, Persisting
<1> QED BY <1>1 DEF Init, StageInv, ArmedInv

(* What the commands rely on is kept by every step.                        *)
LEMMA StageStep == Typed /\ StageInv /\ [Next]_vars => StageInv'
<1> SUFFICES ASSUME Typed, StageInv, [Next]_vars PROVE StageInv'
  OBVIOUS
<1>0. /\ Unit \in Processes /\ Unit \notin Admins /\ Admins \subseteq Processes
      /\ step \in [Processes -> {"idle"} \cup Commands \cup Steps]
      /\ "idle" \notin Steps /\ \A c \in Commands : c \notin Steps
  BY TrialAssumption DEF Processes, Typed, Commands, Steps
<1>1. ASSUME NEW a \in Admins, NEW c \in Commands, Call(a, c) PROVE StageInv'
  <2>1. step' = [step EXCEPT ![a] = c] /\ UNCHANGED <<runtime, run, armed, agreed>>
    BY <1>1 DEF Call, Goto, history
  <2>2. \A p \in Processes : Stage(step[p])'
    <3> SUFFICES ASSUME NEW p \in Processes PROVE Stage(step[p])'
      OBVIOUS
    <3>1. CASE p = a
      BY <1>0, <2>1, <3>1 DEF Stage, Persisting, Commands
    <3>2. CASE p # a
      BY <1>0, <2>1, <3>2 DEF StageInv, Stage, run
    <3> QED BY <3>1, <3>2
  <2> QED BY <2>1, <2>2 DEF StageInv, run
<1>2. ASSUME NEW a \in Admins, Kill(a) PROVE StageInv'
  <2>1. step' = [step EXCEPT ![a] = "idle"] /\ UNCHANGED <<runtime, run, armed, agreed>>
    BY <1>2 DEF Kill
  <2>2. \A p \in Processes : Stage(step[p])'
    <3> SUFFICES ASSUME NEW p \in Processes PROVE Stage(step[p])'
      OBVIOUS
    <3>1. CASE p = a
      BY <1>0, <2>1, <3>1 DEF Stage, Persisting
    <3>2. CASE p # a
      BY <1>0, <2>1, <3>2 DEF StageInv, Stage, run
    <3> QED BY <3>1, <3>2
  <2> QED BY <2>1, <2>2 DEF StageInv, run
<1>3. ASSUME Elapse PROVE StageInv'
  <2>1. step' = [step EXCEPT ![Unit] = "rollback"] /\ UNCHANGED <<runtime, run, agreed>>
    BY <1>3 DEF Elapse, Goto, history
  <2>2. \A p \in Processes : Stage(step[p])'
    <3> SUFFICES ASSUME NEW p \in Processes PROVE Stage(step[p])'
      OBVIOUS
    <3>1. CASE p = Unit
      BY <1>0, <2>1, <3>1 DEF Stage, Persisting
    <3>2. CASE p # Unit
      BY <1>0, <2>1, <3>2 DEF StageInv, Stage, run
    <3> QED BY <3>1, <3>2
  <2> QED BY <2>1, <2>2 DEF StageInv, run
<1>4. ASSUME Reboot PROVE StageInv'
  <2>1. /\ pending' = FALSE /\ agreed' = runtime'
        /\ step' = [p \in Processes |-> "idle"]
    BY <1>4 DEF Reboot
  <2>2. \A p \in Processes : Stage(step[p])'
    BY <2>1 DEF Stage, Persisting
  <2> QED BY <2>1, <2>2 DEF StageInv
<1>5. ASSUME NEW p \in Processes, Work(p) PROVE StageInv'
  <2>1. \A q \in Processes : q # p => step'[q] \notin Steps
    BY <1>5, Alone
  <2>2. \A q \in Processes : q # p => Stage(step[q])'
    BY <2>1 DEF Stage, Steps, Persisting
  <2> QED BY <1>5, <2>2, StageWork DEF StageInv
<1>6. ASSUME UNCHANGED vars PROVE StageInv'
  BY <1>6 DEF vars, run, history, StageInv, Stage
<1> QED BY <1>1, <1>2, <1>3, <1>4, <1>5, <1>6 DEF Next

(* The rollback of a live unconfirmed policy is kept by a working command: *)
(* the timer is stopped only once the trial is over, and its service is    *)
(* through only then or having failed.                                     *)
LEMMA ArmedWork ==
    ASSUME Typed, StageInv, ArmedInv, NEW p \in Processes, Work(p)
    PROVE  ArmedInv'
<1>1. /\ step \in [Processes -> {"idle"} \cup Commands \cup Steps]
      /\ pending \in BOOLEAN /\ armed \in BOOLEAN
      /\ Unit \in Processes /\ command[Unit] = "rollback"
      /\ Stage(step[p])
      /\ p = Unit => step[Unit] \in {"idle", "rollback", "restore", "unmark", "stop"}
      /\ p # Unit => step'[Unit] = step[Unit]
  BY Alone DEF Typed, Processes, StageInv
<1> USE <1>1 DEF Stage, Persisting, Goto, Exit, persistent, run, history, bounds, ArmedInv
<1>2. ASSUME Try(p) \/ Refuse(p) \/ Rollback(p) \/ Confirm(p) PROVE ArmedInv'
  <2>1. UNCHANGED <<pending, runtime, previous, armed, stuck>>
    BY <1>2 DEF Try, Refuse, Rollback, Confirm
  <2>2. p = Unit => step'[Unit] # "idle"
    BY <1>2 DEF Try, Refuse, Rollback, Confirm
  <2> QED BY <2>1, <2>2
<1>3. ASSUME Check(p) \/ Mark(p) PROVE ArmedInv'
  BY <1>3 DEF Check, Mark
<1>4. ASSUME Arm(p) PROVE ArmedInv'
  BY <1>4 DEF Arm
<1>5. ASSUME Load(p) PROVE ArmedInv'
  BY <1>5 DEF Load
<1>6. ASSUME Restore(p) PROVE ArmedInv'
  <2>1. UNCHANGED <<pending, previous, armed>> /\ stuck' \in SUBSET (stuck \cup {p})
        /\ stuck \subseteq stuck'
    BY <1>6 DEF Restore
  <2>2. CASE ~pending
    BY <2>1, <2>2
  <2>3. CASE pending /\ runtime' = previous
    BY <2>1, <2>3
  <2>4. CASE stuck' = stuck \cup {p} /\ runtime' = runtime
    <3>1. CASE p = Unit
      BY <2>4, <3>1
    <3>2. CASE p # Unit
      BY <2>1, <2>4, <3>2
    <3> QED BY <3>1, <3>2
  <2> QED BY <1>6, <2>2, <2>3, <2>4 DEF Restore, RestoreNeeded
<1>7. ASSUME Unmark(p) \/ Stop(p) PROVE ArmedInv'
  BY <1>7 DEF Unmark, Stop, RemoveMarker
<1>8. ASSUME \/ WriteBoot(p) \/ WriteService(p) \/ Reload(p) \/ Enable(p) \/ Accept(p)
             \/ UndoBoot(p) \/ UndoService(p) \/ UndoEnable(p)
      PROVE  ArmedInv'
  <2>1. /\ p # Unit /\ UNCHANGED <<runtime, previous, armed, stuck>>
        /\ pending' => pending
    BY <1>8 DEF WriteBoot, WriteService, Reload, Enable, Accept, UndoBoot, UndoService,
                UndoEnable
  <2> QED BY <2>1
<1> QED BY <1>2, <1>3, <1>4, <1>5, <1>6, <1>7, <1>8 DEF Work

(* And by every other step.                                                *)
LEMMA ArmedStep == Typed /\ StageInv /\ ArmedInv /\ [Next]_vars => ArmedInv'
<1> SUFFICES ASSUME Typed, StageInv, ArmedInv, [Next]_vars PROVE ArmedInv'
  OBVIOUS
<1>0. /\ Unit \in Processes /\ Unit \notin Admins
      /\ step \in [Processes -> {"idle"} \cup Commands \cup Steps]
  BY TrialAssumption DEF Processes, Typed
<1>1. ASSUME NEW a \in Admins, NEW c \in Commands, Call(a, c) PROVE ArmedInv'
  BY <1>0, <1>1 DEF Call, Goto, run, history, ArmedInv
<1>2. ASSUME NEW a \in Admins, Kill(a) PROVE ArmedInv'
  BY <1>0, <1>2 DEF Kill, run, ArmedInv
<1>3. ASSUME Elapse PROVE ArmedInv'
  BY <1>0, <1>3 DEF Elapse, Goto, ArmedInv
<1>4. ASSUME Reboot PROVE ArmedInv'
  BY <1>4 DEF Reboot, ArmedInv
<1>5. ASSUME UNCHANGED vars PROVE ArmedInv'
  BY <1>5 DEF vars, run, history, ArmedInv
<1> QED BY <1>1, <1>2, <1>3, <1>4, <1>5, ArmedWork DEF Next
-----------------------------------------------------------------------------
(* Nothing is persisted at first.                                          *)
LEMMA PersistInit == Init => PersistInv
<1> SUFFICES ASSUME Init PROVE PersistInv
  OBVIOUS
<1>1. \A p \in Processes : Progress(step[p])
  BY DEF Init, Progress, Persisting
<1> QED BY <1>1 DEF Init, PersistInv, Clean

(* How far a confirm has come after a step of it, and that it leaves the   *)
(* persisted pieces whole when it is through.                              *)
LEMMA PersistWork ==
    ASSUME Typed, StageInv, PersistInv, NEW p \in Processes, Work(p), ~torn'
    PROVE  Progress(step[p])' /\ (step'[p] \notin Persisting => Clean')
<1> DEFINE Kept == Progress(step[p])' /\ (step'[p] \notin Persisting => Clean')
<1>1. /\ step \in [Processes -> {"idle"} \cup Commands \cup Steps]
      /\ service \in BOOLEAN /\ enabled \in BOOLEAN /\ torn \in BOOLEAN
      /\ old[2] \in BOOLEAN /\ old[3] \in BOOLEAN
  BY DEF Typed, Boots
<1>2. ~torn
  BY DEF Work, Try, Refuse, Check, Mark, Arm, Load, Rollback, Restore, Unmark, Stop,
         Confirm, WriteBoot, WriteService, Reload, Enable, Accept, UndoBoot, UndoService,
         UndoEnable, UndoFails, history
<1>3. \A q \in Processes : q # p => step[q] \notin Persisting
  BY Alone DEF Persisting, Steps
<1>4. Progress(step[p]) /\ (step[p] \notin Persisting => Clean)
  BY <1>2, <1>3 DEF PersistInv
<1>5. Stage(step[p]) /\ (pending => candidate # None)
  BY TrialAssumption DEF StageInv
<1> USE <1>1, <1>4 DEF Progress, Clean, Persisting, Goto, Exit, persistent, run, history
<1>6. ASSUME UNCHANGED <<persistent, confirmed>>, step[p] \notin Persisting,
             step'[p] \notin Persisting, step'[p] # "boot"
      PROVE  Kept
  BY <1>6
<1>7. ASSUME \/ Try(p) \/ Refuse(p) \/ Check(p) \/ Mark(p) \/ Arm(p) \/ Load(p)
             \/ Rollback(p) \/ Restore(p) \/ Unmark(p) \/ Stop(p)
      PROVE  Kept
  <2>1. /\ UNCHANGED <<persistent, confirmed>> /\ step[p] \notin Persisting
    BY <1>7 DEF Try, Refuse, Check, Mark, Arm, Load, Rollback, Restore, Unmark, Stop
  <2>2. step'[p] \notin Persisting /\ step'[p] # "boot"
    BY <1>7 DEF Try, Refuse, Check, Mark, Arm, Load, Rollback, Restore, Unmark, Stop,
                Restored, AfterFailure
  <2> QED BY <1>6, <2>1, <2>2
<1>8. ASSUME Confirm(p) PROVE Kept
  <2>1. /\ step[p] = "confirm" /\ step'[p] = "boot" /\ old' = <<boot, service, enabled>>
        /\ UNCHANGED <<boot, service, enabled, candidate, confirmed>>
    BY <1>8 DEF Confirm
  <2>2. old'[1] = boot /\ old'[2] = service /\ old'[3] = enabled
    BY <2>1
  <2> QED BY <2>1, <2>2
<1>9. ASSUME WriteBoot(p) PROVE Kept
  BY <1>9 DEF WriteBoot
<1>10. ASSUME WriteService(p) PROVE Kept
  BY <1>10 DEF WriteService
<1>11. ASSUME Reload(p) PROVE Kept
  BY <1>11 DEF Reload
<1>12. ASSUME Enable(p) PROVE Kept
  BY <1>12 DEF Enable
<1>13. ASSUME Accept(p) PROVE Kept
  <2>1. boot = candidate /\ service /\ enabled /\ boot # None
    BY <1>5, <1>13 DEF Accept, Stage
  <2>2. confirmed' = boot /\ step'[p] = "stop" /\ UNCHANGED <<boot, service, enabled>>
    BY <1>13 DEF Accept
  <2> QED BY <2>1, <2>2
<1>14. ASSUME UndoBoot(p) PROVE Kept
  BY <1>14 DEF UndoBoot, UndoFails, OldBoot
<1>15. ASSUME UndoService(p) PROVE Kept
  BY <1>15 DEF UndoService, UndoFails
<1>16. ASSUME UndoEnable(p) PROVE Kept
  BY <1>16 DEF UndoEnable, UndoFails
<1> HIDE DEF Kept
<1>17. Kept
  BY <1>7, <1>8, <1>9, <1>10, <1>11, <1>12, <1>13, <1>14, <1>15, <1>16 DEF Work
<1> QED BY <1>17 DEF Kept

(* The persisted pieces are whole after every step, but for a confirm at   *)
(* work.                                                                   *)
LEMMA PersistStep ==
    Typed /\ StageInv /\ PersistInv /\ [Next]_vars => PersistInv'
<1> SUFFICES ASSUME Typed, StageInv, PersistInv, [Next]_vars, ~torn'
             PROVE  /\ \A p \in Processes : Progress(step[p])'
                    /\ (\A p \in Processes : step'[p] \notin Persisting) => Clean'
  BY DEF PersistInv
<1>0. /\ Unit \in Processes /\ Admins \subseteq Processes
      /\ step \in [Processes -> {"idle"} \cup Commands \cup Steps]
      /\ torn \in BOOLEAN
  BY DEF Processes, Typed
<1> DEFINE Kept == /\ \A p \in Processes : Progress(step[p])'
                   /\ (\A p \in Processes : step'[p] \notin Persisting) => Clean'
<1>1. ASSUME NEW q \in Processes, NEW s, s \notin Persisting, s # "boot",
             step[q] \notin Persisting, step' = [step EXCEPT ![q] = s],
             UNCHANGED <<persistent, candidate, confirmed, old, torn>>
      PROVE  Kept
  <2>1. \A p \in Processes : Progress(step[p]) /\ (p # q => step'[p] = step[p])
    BY <1>0, <1>1 DEF PersistInv
  <2>2. step'[q] = s
    BY <1>0, <1>1
  <2>3. \A p \in Processes : Progress(step[p])'
    <3> SUFFICES ASSUME NEW p \in Processes PROVE Progress(step[p])'
      OBVIOUS
    <3>1. CASE p = q
      BY <1>1, <2>2, <3>1 DEF Progress, Persisting
    <3>2. CASE p # q
      BY <1>1, <2>1, <3>2 DEF Progress, persistent
    <3> QED BY <3>1, <3>2
  <2>4. ASSUME \A p \in Processes : step'[p] \notin Persisting PROVE Clean'
    <3>1. \A p \in Processes : step[p] \notin Persisting
      BY <1>1, <2>1, <2>4
    <3> QED BY <1>1, <3>1 DEF PersistInv, Clean, persistent
  <2> QED BY <2>3, <2>4
<1>2. ASSUME NEW a \in Admins, NEW c \in Commands, Call(a, c) PROVE Kept
  <2>1. /\ step[a] = "idle" /\ step' = [step EXCEPT ![a] = c]
        /\ UNCHANGED <<persistent, candidate, confirmed, old, torn>>
    BY <1>2 DEF Call, Goto, run, history
  <2>2. c \notin Persisting /\ c # "boot" /\ "idle" \notin Persisting
    BY DEF Commands, Persisting
  <2> HIDE DEF Kept
  <2> QED BY <1>0, <1>1, <2>1, <2>2
<1>3. ASSUME NEW a \in Admins, Kill(a) PROVE Kept
  <2>1. /\ step' = [step EXCEPT ![a] = "idle"]
        /\ torn' = (torn \/ step[a] \in Persisting)
        /\ UNCHANGED <<persistent, candidate, confirmed, old>>
    BY <1>3 DEF Kill, run
  <2>2. torn' = torn /\ step[a] \notin Persisting
    BY <1>0, <2>1
  <2>3. "idle" \notin Persisting
    BY DEF Persisting
  <2> HIDE DEF Kept
  <2> QED BY <1>0, <1>1, <2>1, <2>2, <2>3
<1>4. ASSUME Elapse PROVE Kept
  <2>1. /\ step[Unit] = "idle" /\ step' = [step EXCEPT ![Unit] = "rollback"]
        /\ UNCHANGED <<persistent, candidate, confirmed, old, torn>>
    BY <1>4 DEF Elapse, Goto, run, history
  <2>2. "rollback" \notin Persisting /\ "idle" \notin Persisting
    BY DEF Persisting
  <2> HIDE DEF Kept
  <2> QED BY <1>0, <1>1, <2>1, <2>2
<1>5. ASSUME Reboot PROVE Kept
  <2>1. /\ step' = [p \in Processes |-> "idle"]
        /\ torn' = (torn \/ \E p \in Processes : step[p] \in Persisting)
        /\ UNCHANGED <<persistent, confirmed>>
    BY <1>5 DEF Reboot
  <2>2. ~torn /\ \A p \in Processes : step[p] \notin Persisting
    BY <1>0, <2>1
  <2>3. Clean
    BY <2>2 DEF PersistInv
  <2> QED BY <2>1, <2>3 DEF Clean, Progress, Persisting, persistent
<1>6. ASSUME NEW p \in Processes, Work(p) PROVE Kept
  <2>1. \A q \in Processes : q # p => step'[q] \notin Steps
    BY <1>6, Alone
  <2>2. \A q \in Processes : q # p => Progress(step[q])'
    BY <2>1 DEF Progress, Steps, Persisting
  <2> QED BY <1>6, <2>2, PersistWork
<1>7. ASSUME UNCHANGED vars PROVE Kept
  BY <1>7 DEF vars, persistent, run, history, PersistInv, Progress, Clean
<1> QED BY <1>2, <1>3, <1>4, <1>5, <1>6, <1>7 DEF Next
-----------------------------------------------------------------------------
(* There is no trial at first.                                             *)
LEMMA LivedInit == Init => LivedInv
BY DEF Init, LivedInv

(* While a command that is no try works in a trial that nobody cut off,    *)
(* the candidate has been live.                                            *)
LEMMA CandidateLived ==
    ASSUME Typed, LivedInv, NEW p \in Processes, Work(p),
           kills = 0, stuck \subseteq {Unit}, pending
    PROVE  \/ candidate \in lived
           \/ p \in Admins /\ step[p] \in {"arm", "load", "restore", "unmark"}
<1>1. \A q \in Processes : q # p => step[q] \notin {"arm", "load", "restore", "unmark"}
  BY Alone DEF Steps
<1> QED BY <1>1 DEF LivedInv, Processes

(* A working command leaves a trial with a candidate that has been live,   *)
(* or is itself a try on its way there or back.                            *)
LEMMA LivedWork ==
    ASSUME Typed, StageInv, LivedInv, NEW p \in Processes, Work(p)
    PROVE  LivedInv'
<1> DEFINE Trying == p \in Admins /\ step[p] \in {"arm", "load", "restore", "unmark"}
           Going == p \in Admins /\ step'[p] \in {"arm", "load", "restore", "unmark"}
<1>1. /\ step \in [Processes -> {"idle"} \cup Commands \cup Steps]
      /\ p \in Admins \/ p = Unit
      /\ p = Unit => step[p] \in {"idle", "rollback", "restore", "unmark", "stop"}
      /\ pending \in BOOLEAN
  BY DEF Typed, Processes
<1>2. stuck \subseteq stuck' /\ kills' = kills
  BY DEF Work, Try, Refuse, Check, Mark, Arm, Load, Rollback, Restore, Unmark, Stop,
         Confirm, WriteBoot, WriteService, Reload, Enable, Accept, UndoBoot, UndoService,
         UndoEnable, history, bounds
<1> SUFFICES ASSUME kills = 0, stuck \subseteq {Unit}, stuck' \subseteq {Unit}, pending'
             PROVE  candidate' \in lived' \/ Going
  BY <1>2 DEF LivedInv
<1>3. pending => candidate \in lived \/ Trying
  BY CandidateLived
<1>4. Stage(step[p])
  BY DEF StageInv
<1> USE <1>1, <1>3, <1>4 DEF Stage, Goto, Exit, run, history
<1>5. CASE Try(p) \/ Refuse(p) \/ Rollback(p) \/ Confirm(p)
  <2>1. UNCHANGED <<pending, lived>> /\ ~Trying /\ (pending => candidate' = candidate)
    BY <1>5 DEF Try, Refuse, Rollback, Confirm
  <2> QED BY <2>1
<1>6. CASE Check(p)
  BY <1>6 DEF Check
<1>7. CASE Mark(p)
  BY <1>7 DEF Mark
<1>8. CASE Arm(p)
  BY <1>8 DEF Arm, AfterFailure
<1>9. CASE Load(p)
  BY <1>9 DEF Load
<1>10. CASE Restore(p)
  <2>1. UNCHANGED <<pending, candidate, lived>>
    BY <1>10 DEF Restore
  <2>2. CASE Goto(p, "unmark")
    BY <2>1, <2>2
  <2>3. CASE stuck' = stuck \cup {p}
    BY <2>1, <2>3, TrialAssumption
  <2>4. pending
    BY <2>1
  <2>5. Goto(p, "unmark") \/ stuck' = stuck \cup {p}
    BY <1>10, <2>4, Zenon DEF Restore, RestoreNeeded
  <2> QED BY <2>2, <2>3, <2>5
<1>11. CASE Unmark(p)
  BY <1>11 DEF Unmark, RemoveMarker
<1>12. CASE Stop(p)
  BY <1>12 DEF Stop
<1>13. CASE \/ WriteBoot(p) \/ WriteService(p) \/ Reload(p) \/ Enable(p) \/ Accept(p)
            \/ UndoBoot(p) \/ UndoService(p) \/ UndoEnable(p)
  <2>1. /\ ~Trying /\ UNCHANGED <<candidate, lived>> /\ (pending' => pending)
    BY <1>13 DEF WriteBoot, WriteService, Reload, Enable, Accept, UndoBoot, UndoService,
                 UndoEnable
  <2> QED BY <2>1
<1> QED BY <1>5, <1>6, <1>7, <1>8, <1>9, <1>10, <1>11, <1>12, <1>13 DEF Work

(* And so does every other step.                                           *)
LEMMA LivedStep == Typed /\ StageInv /\ LivedInv /\ [Next]_vars => LivedInv'
<1> SUFFICES ASSUME Typed, StageInv, LivedInv, [Next]_vars PROVE LivedInv'
  OBVIOUS
<1>0. /\ Unit \notin Admins /\ Admins \subseteq Processes
      /\ step \in [Processes -> {"idle"} \cup Commands \cup Steps] /\ kills \in Nat
  BY TrialAssumption DEF Processes, Typed
<1>1. ASSUME NEW a \in Admins, NEW c \in Commands, Call(a, c) PROVE LivedInv'
  <2>1. /\ step[a] = "idle" /\ step' = [step EXCEPT ![a] = c]
        /\ UNCHANGED <<pending, candidate, lived, stuck, kills>>
    BY <1>1 DEF Call, Goto, run, history
  <2>2. \A b \in Admins : step[b] \in {"arm", "load", "restore", "unmark"}
          => step'[b] = step[b]
    BY <1>0, <2>1
  <2> QED BY <2>1, <2>2 DEF LivedInv
<1>2. ASSUME NEW a \in Admins, Kill(a) PROVE LivedInv'
  BY <1>0, <1>2 DEF Kill, LivedInv
<1>3. ASSUME Elapse PROVE LivedInv'
  <2>1. /\ step' = [step EXCEPT ![Unit] = "rollback"]
        /\ UNCHANGED <<pending, candidate, lived, stuck, kills>>
    BY <1>3 DEF Elapse, Goto, run, history, bounds
  <2>2. \A b \in Admins : step'[b] = step[b]
    BY <1>0, <2>1
  <2> QED BY <2>1, <2>2 DEF LivedInv
<1>4. ASSUME Reboot PROVE LivedInv'
  BY <1>4 DEF Reboot, LivedInv
<1>5. ASSUME UNCHANGED vars PROVE LivedInv'
  BY <1>5 DEF vars, run, history, bounds, LivedInv
<1> QED BY <1>1, <1>2, <1>3, <1>4, <1>5, LivedWork DEF Next
-----------------------------------------------------------------------------
(* The inductive invariant holds in every reachable state.                 *)
THEOREM Inductive == Spec => []IInv
<1>1. Init => IInv
  BY TypedInit, StageInit, PersistInit, LivedInit DEF IInv
<1>2. IInv /\ [Next]_vars => IInv'
  BY TypedStep, StageStep, ArmedStep, PersistStep, LivedStep DEF IInv
<1> QED BY <1>1, <1>2, PTL DEF Spec

(* Between commands and outside a trial the live table is the agreed one,  *)
(* and the persisted pieces are those of the last successful confirm.      *)
THEOREM Trials == Spec => []TrialInv
<1>1. IInv => TrialInv
  <2> SUFFICES ASSUME IInv PROVE TrialInv
    OBVIOUS
  <2> USE DEF IInv
  <2>1. TypeOK
    <3>1. {runtime, boot, candidate, previous, agreed, confirmed} \subseteq Policies \cup {None}
      BY DEF Typed, Tables
    <3>2. {service, enabled, pending, armed, torn} \subseteq BOOLEAN
      BY DEF Typed
    <3> QED BY <3>1, <3>2 DEF Typed, TypeOK
  <2>2. Settled
    BY DEF StageInv, Settled
  <2>3. BootConfirmed
    <3> SUFFICES ASSUME Quiet, ~torn
                 PROVE  /\ boot = confirmed
                        /\ service = (confirmed # None) /\ enabled = (confirmed # None)
      BY DEF BootConfirmed
    <3>1. \A p \in Processes : step[p] \notin Steps
      BY TrialAssumption DEF Typed, Quiet
    <3>2. Clean
      BY <3>1 DEF PersistInv, Persisting, Steps
    <3>3. service \in BOOLEAN /\ enabled \in BOOLEAN
      BY DEF Typed
    <3> QED BY <3>2, <3>3 DEF Clean
  <2> QED BY <2>1, <2>2, <2>3 DEF TrialInv
<1> QED BY <1>1, Inductive, PTL

(* An unconfirmed policy is live only while its rollback is waiting or at  *)
(* work, unless that rollback has itself failed, wherever the commands     *)
(* were cut off.                                                           *)
THEOREM Armed == Spec => []RollbackArmed
<1>1. IInv => RollbackArmed
  BY DEF IInv, ArmedInv, RollbackArmed
<1> QED BY <1>1, Inductive, PTL

(* As long as no command is cut off and no failed try fails again, only    *)
(* rules that were live in a trial, or were persisted before, are          *)
(* persisted.                                                              *)
THEOREM Persisted == Spec => PersistedUnlessCut
<1>1. IInv /\ [Next]_vars
        => [boot' # boot /\ kills = 0 /\ stuck \subseteq {Unit}
              => boot' \in lived \cup {OldBoot}]_vars
  <2> SUFFICES ASSUME IInv, Next, boot' # boot, kills = 0, stuck \subseteq {Unit}
               PROVE  boot' \in lived \cup {OldBoot}
    OBVIOUS
  <2> USE DEF IInv
  <2>1. PICK p \in Processes : Work(p)
    BY DEF Next, Call, Kill, Elapse, Reboot, persistent
  <2>2. WriteBoot(p) \/ UndoBoot(p)
    BY <2>1 DEF Work, Try, Refuse, Check, Mark, Arm, Load, Rollback, Restore, Unmark, Stop,
       Confirm, WriteService, Reload, Enable, Accept, UndoService, UndoEnable, UndoFails,
       persistent
  <2>3. CASE WriteBoot(p)
    <3>1. step[p] = "boot" /\ boot' = candidate
      BY <2>3 DEF WriteBoot
    <3>2. pending
      BY <3>1 DEF StageInv, Stage
    <3>3. candidate \in lived
      BY <2>1, <3>1, <3>2, CandidateLived
    <3> QED BY <3>1, <3>3
  <2>4. CASE UndoBoot(p)
    BY <2>4 DEF UndoBoot, UndoFails, persistent
  <2> QED BY <2>2, <2>3, <2>4
<1> QED BY <1>1, Inductive, PTL DEF Spec, PersistedUnlessCut
-----------------------------------------------------------------------------
(* A network is matched by the rule of its version exactly when it covers  *)
(* the address: splitting the sources by version (source_rules) loses and  *)
(* adds nothing.                                                           *)
LEMMA SourceRules ==
    ASSUME NEW networks \in SUBSET Networks, NEW p \in Attempts
    PROVE  From(networks, p) <=> Member(networks, p.src)
  <1>1. \A n \in networks : \A a \in n.hosts : Family[a] = n.version
    BY PolicyAssumption DEF PolicyAssumption
  <1> QED BY <1>1 DEF From, Member

(* A valid SSH port is not published, so its packets meet the input hook.  *)
LEMMA SshOnHost ==
    ASSUME nat \subseteq Translated, NEW c \in Settings, Valid(c),
           NEW p \in Attempts, p.proto = "tcp", p.port = c.ssh
    PROVE  ~Natted(p)
  <1>1. Family[p.src] \in {4, 6}
    BY PolicyAssumption DEF PolicyAssumption, Connection
  <1>2. <<Family[p.src], "tcp", c.ssh>> \notin Translated
    BY <1>1, PolicyAssumption DEF PolicyAssumption, Valid
  <1> QED BY <1>2 DEF Natted

(* The table of settings that load accepts lets in exactly what is         *)
(* promised, whichever ports Docker has published.                         *)
LEMMA ExactFor ==
    ASSUME nat \subseteq Translated, NEW c \in Settings, Valid(c),
           NEW p \in Attempts, p.iif \in c.external \ Bridges
    PROVE  Accepts(c, p) <=> Permitted(c, p)
  <1>1. c # Nothing /\ c.admin \in SUBSET Networks /\ c.mqtt \in SUBSET Networks
    BY PolicyAssumption DEF PolicyAssumption, SettingsType
  <1>2. /\ From(c.admin, p) <=> Member(c.admin, p.src)
        /\ From(c.mqtt, p) <=> Member(c.mqtt, p.src)
    BY <1>1, SourceRules
  <1>3. /\ p.proto \in {"tcp", "udp", "icmp"}
        /\ p.dest \in {"host", "container"}
        /\ p.iif # Loopback
    BY PolicyAssumption DEF PolicyAssumption, Connection, Valid
  <1>4. CASE Natted(p)
    <2>1. p.proto \in {"tcp", "udp"}
      <3>1. <<Family[p.src], p.proto, p.port>> \in {4, 6} \X {"tcp", "udp"} \X Ports
        BY <1>4, PolicyAssumption DEF PolicyAssumption, Natted
      <3> QED BY <3>1
    <2>2. p.dest = "host" /\ (p.proto = "tcp" => p.port # c.ssh)
      BY <1>4, SshOnHost DEF Natted
    <2>3. Accepts(c, p) <=>
            p.proto = "tcp" /\ (p.port \in Web \/ (p.port = Mqtt /\ From(c.mqtt, p)))
      BY <1>1, <1>4, <2>2 DEF Accepts, Forwarded, ForwardAccepts
    <2> QED BY <1>2, <1>4, <2>1, <2>2, <2>3 DEF Permitted
  <1>5. CASE ~Natted(p) /\ p.dest = "container"
    BY <1>1, <1>5 DEF Accepts, Forwarded, ForwardAccepts, Permitted
  <1>6. CASE ~Natted(p) /\ p.dest = "host"
    <2>1. Destination(p) = p.port
      BY <1>6 DEF Destination
    <2>2. Accepts(c, p) <=> InputAccepts(c, p)
      BY <1>1, <1>6 DEF Accepts, Forwarded
    <2>3. Dhcp(c, p) <=>
            /\ p.proto = "udp"
            /\ \/ c.dhcp4 /\ p.sport = 67 /\ p.port = 68
               \/ c.dhcp6 /\ Family[p.src] = 6 /\ p.local /\ p.sport = 547 /\ p.port = 546
      BY <2>1 DEF Dhcp
    <2> QED BY <1>2, <1>3, <1>6, <2>1, <2>2, <2>3 DEF InputAccepts, Permitted
  <1> QED BY <1>3, <1>4, <1>5, <1>6

(* The table accepts exactly what is promised, in every state.             *)
LEMMA ExactInState ==
    ASSUME PolicyTypeOK, PolicyChecked
    PROVE  PolicyExact
  <1>1. policy # Nothing => policy \in Settings /\ Valid(policy)
    BY DEF PolicyTypeOK, PolicyChecked
  <1>2. nat \subseteq Translated
    BY DEF PolicyTypeOK
  <1> QED BY <1>1, <1>2, ExactFor DEF PolicyExact

(* The administrator of a trial is let in, in every state.                 *)
LEMMA AccessInState ==
    ASSUME PolicyTypeOK, PolicyChecked
    PROVE  AdminKeepsAccess
  <1> SUFFICES ASSUME session # Nothing, session.iif \in policy.external
               PROVE  ~Forwarded(session) /\ Accepts(policy, session)
    BY DEF AdminKeepsAccess
  <1>1. /\ session \in Attempts /\ policy # Nothing
        /\ session.proto = "tcp" /\ session.dest = "host"
        /\ KeepsSession(policy, session)
    BY DEF PolicyChecked
  <1>2. policy \in Settings /\ Valid(policy)
    BY <1>1 DEF PolicyTypeOK, PolicyChecked
  <1>3. session.port = policy.ssh /\ Member(policy.admin, session.src)
    BY <1>1 DEF KeepsSession, Member
  <1>4. ~Natted(session)
    BY <1>1, <1>2, <1>3, SshOnHost DEF PolicyTypeOK
  <1>5. From(policy.admin, session)
    <2>1. policy.admin \in SUBSET Networks
      BY <1>2, PolicyAssumption DEF PolicyAssumption, SettingsType
    <2> QED BY <1>1, <1>3, <2>1, SourceRules
  <1>6. Destination(session) = policy.ssh
    BY <1>3, <1>4 DEF Destination
  <1> QED BY <1>1, <1>4, <1>5, <1>6 DEF Forwarded, Accepts, InputAccepts

LEMMA PolicyInitCorrect == PolicyInit => PolicyTypeOK /\ PolicyChecked
  BY DEF PolicyInit, PolicyTypeOK, PolicyChecked

(* Every action keeps types and the checks behind each policy.             *)
LEMMA PolicyStepCorrect ==
    ASSUME PolicyTypeOK, PolicyChecked, [PolicyNext]_policyVars
    PROVE  PolicyTypeOK' /\ PolicyChecked'
  <1> USE DEF PolicyTypeOK, PolicyChecked
  <1>1. ASSUME NEW t \in Translated, Publish(t) PROVE PolicyTypeOK' /\ PolicyChecked'
    BY <1>1 DEF Publish
  <1>2. ASSUME NEW f \in flows, Close(f) PROVE PolicyTypeOK' /\ PolicyChecked'
    BY <1>2 DEF Close
  <1>3. ASSUME NEW c \in Settings, NEW s \in Sessions \cup {Nothing}, TryPolicy(c, s)
        PROVE  PolicyTypeOK' /\ PolicyChecked'
    <2>1. c # Nothing
      BY PolicyAssumption DEF PolicyAssumption
    <2>2. s # Nothing => /\ s \in Attempts /\ s.proto = "tcp" /\ s.dest = "host"
                      /\ KeepsSession(c, s)
      BY <1>3 DEF Sessions, TryPolicy
    <2> QED BY <1>3, <2>1, <2>2 DEF TryPolicy
  <1>4. ASSUME ConfirmPolicy PROVE PolicyTypeOK' /\ PolicyChecked'
    BY <1>4 DEF ConfirmPolicy
  <1>5. ASSUME RollbackPolicy PROVE PolicyTypeOK' /\ PolicyChecked'
    BY <1>5 DEF RollbackPolicy
  <1>6. ASSUME NEW p \in Attempts, Open(p) PROVE PolicyTypeOK' /\ PolicyChecked'
    BY <1>6 DEF Open
  <1>7. CASE UNCHANGED policyVars
    BY <1>7 DEF policyVars, KeepsSession
  <1> QED BY <1>1, <1>2, <1>3, <1>4, <1>5, <1>6, <1>7 DEF PolicyNext

LEMMA Checked == PolicySpec => [](PolicyTypeOK /\ PolicyChecked)
  <1>1. PolicyTypeOK /\ PolicyChecked /\ [PolicyNext]_policyVars => (PolicyTypeOK /\ PolicyChecked)'
    BY PolicyStepCorrect
  <1> QED BY PolicyInitCorrect, <1>1, PTL DEF PolicySpec

(* Whatever Docker publishes and however policies replace each other, the  *)
(* table in force accepts what the documentation permits and nothing else. *)
THEOREM TableExact == PolicySpec => []PolicyInv
  <1>1. PolicyTypeOK /\ PolicyChecked => PolicyInv
    BY ExactInState DEF PolicyInv
  <1> QED BY Checked, <1>1, PTL

(* An administrator who tries a policy over SSH is not locked out by it.   *)
THEOREM TrialKeepsAdmin == PolicySpec => []AdminKeepsAccess
  <1>1. PolicyTypeOK /\ PolicyChecked => AdminKeepsAccess
    BY AccessInState
  <1> QED BY Checked, <1>1, PTL

(* What the commands of firewall.py leave live, wherever they are cut off  *)
(* and whenever the host reboots, lets in exactly what is permitted: they  *)
(* are given only settings that load accepts (render.py).                  *)
THEOREM LiveTableExact ==
    ASSUME Policies \subseteq {c \in Settings : Valid(c)}
    PROVE  Spec /\ [](nat \subseteq Translated) =>
             [](runtime # None =>
                  \A p \in Attempts :
                      p.iif \in runtime.external \ Bridges =>
                          (Accepts(runtime, p) <=> Permitted(runtime, p)))
  <1>1. IInv /\ nat \subseteq Translated =>
          (runtime # None =>
             \A p \in Attempts :
                 p.iif \in runtime.external \ Bridges =>
                     (Accepts(runtime, p) <=> Permitted(runtime, p)))
    <2>1. IInv /\ runtime # None => runtime \in Settings /\ Valid(runtime)
      BY DEF IInv, Typed, Tables
    <2> QED BY <2>1, ExactFor
  <1> QED BY Inductive, <1>1, PTL
=============================================================================
