--------------------------- MODULE FirewallTrial ---------------------------
(***************************************************************************)
(* The five-minute trial of a host firewall policy                         *)
(* (security/debian/firewall.py): administrators run try, confirm and      *)
(* rollback, and a transient systemd timer runs rollback on its own.  All  *)
(* commands work under one flock.  Any command may be killed between two   *)
(* of its steps, or end by KeyboardInterrupt, which no handler catches;    *)
(* a reboot clears /run and loads what is enabled for boot.                *)
(*                                                                         *)
(* The nftables table, the files and the unit change in one step each.     *)
(***************************************************************************)
EXTENDS Integers, FiniteSets

CONSTANTS Policies,   \* rules that can be tried
          Admins,     \* administrators' commands run as one of these
          Unit,       \* the rollback service that the timer starts
          Fallible,   \* names of the commands that may fail
          MaxOps,     \* bound: commands given by administrators
          MaxKills,   \* bound: killed commands
          MaxReboots, \* bound: reboots
          None        \* no table, no file, nobody

Processes == Admins \cup {Unit}
Commands == {"try", "confirm", "rollback"}
Steps == {"check", "mark", "arm", "load", "restore", "unmark", "stop", "boot",
          "service", "reload", "enable", "accept", "undoBoot", "undoService", "undoEnable"}
Persisting == {"service", "reload", "enable", "accept", "undoBoot", "undoService", "undoEnable"}
Fallibles == {"check", "arm", "load", "restore", "write", "reload", "enable", "undo", "stop"}

ASSUME TrialAssumption ==
    /\ Unit \notin Admins /\ None \notin Policies \cup Processes
    /\ Fallible \subseteq Fallibles
    /\ MaxOps \in Nat /\ MaxKills \in Nat /\ MaxReboots \in Nat

VARIABLES
    runtime,   \* the managed nftables table
    boot,      \* PERSIST/firewall.nft
    service,   \* SERVICE exists
    enabled,   \* the service is enabled for boot
    pending,   \* STATE/pending exists
    candidate, \* STATE/candidate.nft
    previous,  \* STATE/previous.nft
    armed,     \* the timer unit is waiting
    lock,      \* holder of the flock
    step,      \* per process: "idle", a command that waits for the lock, or a step
    command,   \* per process, what it was called for
    old,       \* what confirm read of boot, service and enabled
    lived,     \* history: policies that were loaded in a trial
    agreed,    \* history: the table the administrators settled for
    confirmed, \* history: what the last successful confirm persisted
    stuck,     \* history: who could not load the old rules
    torn,      \* history: a confirm was cut off among its writes, or could not undo them
    ops, kills, reboots

persistent == <<boot, service, enabled>>
run == <<pending, candidate, previous>>
history == <<lived, agreed, confirmed, stuck, torn>>
bounds == <<ops, kills, reboots>>
vars == <<runtime, persistent, run, armed, lock, step, command, old, history, bounds>>

Init ==
    /\ runtime = None /\ boot = None /\ service = FALSE /\ enabled = FALSE
    /\ pending = FALSE /\ candidate = None /\ previous = None
    /\ armed = FALSE /\ lock = None
    /\ step = [p \in Processes |-> "idle"]
    /\ command = [p \in Processes |-> "rollback"]
    /\ old = <<None, FALSE, FALSE>>
    /\ lived = {} /\ agreed = None /\ confirmed = None
    /\ stuck = {} /\ torn = FALSE
    /\ ops = 0 /\ kills = 0 /\ reboots = 0
-----------------------------------------------------------------------------
Fails(c) == c \in Fallible
Goto(p, s) == step' = [step EXCEPT ![p] = s] /\ UNCHANGED lock
Exit(p) == step' = [step EXCEPT ![p] = "idle"] /\ lock' = None

(* fcntl.flock(lock, LOCK_EX).                                             *)
TakeLock(p) == lock = None /\ lock' = p

(* main: a command is given, and waits for the lock.                       *)
Call(a, c) ==
    /\ step[a] = "idle" /\ ops < MaxOps
    /\ ops' = ops + 1
    /\ command' = [command EXCEPT ![a] = c]
    /\ Goto(a, c)
    /\ UNCHANGED <<runtime, persistent, run, armed, old, history, kills, reboots>>

(* The timer elapses and starts the service.                               *)
Elapse ==
    /\ armed /\ step[Unit] = "idle"
    /\ armed' = FALSE
    /\ command' = [command EXCEPT ![Unit] = "rollback"]
    /\ Goto(Unit, "rollback")
    /\ UNCHANGED <<runtime, persistent, run, old, history, bounds>>

(* try_policy, to the candidate files.                                     *)
Try(p) ==
    /\ step[p] = "try"
    /\ TakeLock(p)
    /\ ~pending
    /\ \E policy \in Policies : candidate' = policy
    /\ step' = [step EXCEPT ![p] = "check"]
    /\ UNCHANGED <<runtime, persistent, pending, previous, armed, command, old, history, bounds>>

(* A pending trial, the settings or the host forbid a try; no trial is     *)
(* pending, or its directory is not private, for confirm.                  *)
Refuse(p) ==
    /\ step[p] \in {"try", "confirm"}
    /\ lock = None
    /\ Exit(p)
    /\ UNCHANGED <<runtime, persistent, run, armed, command, old, history, bounds>>

(* nft --check, then the snapshot of the present table.                    *)
Check(p) ==
    /\ step[p] = "check"
    /\ \/ Fails("check") /\ Exit(p) /\ UNCHANGED previous
       \/ previous' = runtime /\ Goto(p, "mark")
    /\ UNCHANGED <<runtime, persistent, pending, candidate, armed, command, old, history, bounds>>

Mark(p) ==
    /\ step[p] = "mark"
    /\ pending' = TRUE
    /\ Goto(p, "arm")
    /\ UNCHANGED <<runtime, persistent, candidate, previous, armed, command, old, history, bounds>>

(* Regression: the policy is loaded although no rollback could be armed.   *)
LoadAnyway == "load"

(* The exception handler of try_policy.                                    *)
AfterFailure == "restore"

(* systemd-run refuses a unit name that is in use, by a waiting timer or   *)
(* by a running service.                                                   *)
UnitFree == ~armed /\ step[Unit] = "idle"

Arm(p) ==
    /\ step[p] = "arm"
    /\ \/ UnitFree /\ armed' = TRUE /\ Goto(p, "load")
       \/ (Fails("arm") \/ ~UnitFree) /\ UNCHANGED armed /\ Goto(p, AfterFailure)
    /\ UNCHANGED <<runtime, persistent, run, command, old, history, bounds>>

Load(p) ==
    /\ step[p] = "load"
    /\ \/ Fails("load") /\ Goto(p, "restore") /\ UNCHANGED <<runtime, lived>>
       \/ runtime' = candidate /\ lived' = lived \cup {candidate} /\ Exit(p)
    /\ UNCHANGED <<persistent, run, armed, command, old, agreed, confirmed, stuck, torn, bounds>>
-----------------------------------------------------------------------------
Rollback(p) ==
    /\ step[p] = "rollback"
    /\ TakeLock(p)
    /\ step' = [step EXCEPT ![p] = "restore"]
    /\ UNCHANGED <<runtime, persistent, run, armed, command, old, history, bounds>>

(* rollback goes on to stop the timer; a handler raises again.             *)
Restored(p) == IF command[p] = "rollback" THEN Goto(p, "stop") ELSE Exit(p)

(* Regressions: rules are restored without a trial, or never.              *)
RestoreAlways == TRUE
RestoreNever == FALSE

(* if pending()                                                            *)
RestoreNeeded == pending

Restore(p) ==
    /\ step[p] = "restore"
    /\ \/ ~RestoreNeeded /\ Restored(p) /\ UNCHANGED <<runtime, stuck>>
       \/ RestoreNeeded /\ runtime' = previous /\ Goto(p, "unmark") /\ UNCHANGED stuck
       \/ /\ RestoreNeeded /\ Fails("restore")
          /\ stuck' = stuck \cup {p}
          /\ Exit(p)
          /\ UNCHANGED runtime
    /\ UNCHANGED <<persistent, run, armed, command, old, lived, agreed, confirmed, torn, bounds>>

(* Regression: the marker stays.                                           *)
MarkerStays == UNCHANGED pending

(* (STATE / 'pending').unlink() of restore.                                *)
RemoveMarker == pending' = FALSE

Unmark(p) ==
    /\ step[p] = "unmark"
    /\ RemoveMarker
    /\ Restored(p)
    /\ UNCHANGED <<runtime, persistent, candidate, previous, armed, command, old, history, bounds>>

(* systemctl stop of the timer, whose failure is ignored.                  *)
Stop(p) ==
    /\ step[p] = "stop"
    /\ \/ armed' = FALSE
       \/ Fails("stop") /\ UNCHANGED armed
    /\ Exit(p)
    /\ UNCHANGED <<runtime, persistent, run, command, old, history, bounds>>
-----------------------------------------------------------------------------
(* confirm reads what is persisted, and keeps copies.                      *)
Confirm(p) ==
    /\ step[p] = "confirm"
    /\ TakeLock(p)
    /\ pending
    /\ old' = <<boot, service, enabled>>
    /\ step' = [step EXCEPT ![p] = "boot"]
    /\ UNCHANGED <<runtime, persistent, run, armed, command, history, bounds>>

WriteBoot(p) ==
    /\ step[p] = "boot"
    /\ \/ boot' = candidate /\ Goto(p, "service")
       \/ Fails("write") /\ Goto(p, "undoBoot") /\ UNCHANGED boot
    /\ UNCHANGED <<runtime, service, enabled, run, armed, command, old, history, bounds>>

WriteService(p) ==
    /\ step[p] = "service"
    /\ \/ service' = TRUE /\ Goto(p, "reload")
       \/ Fails("write") /\ Goto(p, "undoBoot") /\ UNCHANGED service
    /\ UNCHANGED <<runtime, boot, enabled, run, armed, command, old, history, bounds>>

Reload(p) ==
    /\ step[p] = "reload"
    /\ \/ Goto(p, "enable")
       \/ Fails("reload") /\ Goto(p, "undoBoot")
    /\ UNCHANGED <<runtime, persistent, run, armed, command, old, history, bounds>>

Enable(p) ==
    /\ step[p] = "enable"
    /\ \/ enabled' = TRUE /\ Goto(p, "accept")
       \/ Fails("enable") /\ Goto(p, "undoBoot") /\ UNCHANGED enabled
    /\ UNCHANGED <<runtime, boot, service, run, armed, command, old, history, bounds>>

(* The trial is over before its timer is stopped: a rollback that already  *)
(* waits for the lock finds nothing to do.                                 *)
Accept(p) ==
    /\ step[p] = "accept"
    /\ pending' = FALSE
    /\ agreed' = runtime
    /\ confirmed' = boot
    /\ Goto(p, "stop")
    /\ UNCHANGED <<runtime, persistent, candidate, previous, armed, command, old, lived, stuck, torn, bounds>>

(* The exception handler: the old files, the old enablement, daemon-reload *)
(* and restore.  A write that fails again ends it, the rest is not undone; *)
(* a failing systemctl is passed over.                                     *)
OldBoot == old[1]

UndoFails ==
    /\ Fails("undo")
    /\ torn' = TRUE
    /\ UNCHANGED persistent

UndoBoot(p) ==
    /\ step[p] = "undoBoot"
    /\ \/ boot' = OldBoot /\ Goto(p, "undoService") /\ UNCHANGED <<service, enabled, torn>>
       \/ UndoFails /\ Exit(p)
    /\ UNCHANGED <<runtime, run, armed, command, old, lived, agreed, confirmed, stuck, bounds>>

UndoService(p) ==
    /\ step[p] = "undoService"
    /\ \/ service' = old[2] /\ Goto(p, "undoEnable") /\ UNCHANGED <<boot, enabled, torn>>
       \/ UndoFails /\ Exit(p)
    /\ UNCHANGED <<runtime, run, armed, command, old, lived, agreed, confirmed, stuck, bounds>>

UndoEnable(p) ==
    /\ step[p] = "undoEnable"
    /\ \/ enabled' = (enabled /\ old[3]) /\ UNCHANGED <<boot, service, torn>>
       \/ UndoFails
    /\ Goto(p, "restore")
    /\ UNCHANGED <<runtime, run, armed, command, old, lived, agreed, confirmed, stuck, bounds>>
-----------------------------------------------------------------------------
(* A command ends between two steps; its flock goes with it.  The nft or    *)
(* systemctl it was waiting for is done, or not begun, before anyone else  *)
(* goes on.                                                                *)
Kill(a) ==
    /\ step[a] # "idle" /\ kills < MaxKills
    /\ kills' = kills + 1
    /\ step' = [step EXCEPT ![a] = "idle"]
    /\ lock' = IF lock = a THEN None ELSE lock
    /\ torn' = (torn \/ step[a] \in Persisting)
    /\ UNCHANGED <<runtime, persistent, run, armed, command, old, lived, agreed, confirmed, stuck, ops, reboots>>

(* Nothing in /run survives; the enabled service loads the boot file.      *)
Reboot ==
    /\ reboots < MaxReboots
    /\ reboots' = reboots + 1
    /\ runtime' = IF enabled /\ service THEN boot ELSE None
    /\ pending' = FALSE /\ candidate' = None /\ previous' = None
    /\ armed' = FALSE /\ lock' = None
    /\ step' = [p \in Processes |-> "idle"]
    /\ agreed' = runtime'
    /\ torn' = (torn \/ \E p \in Processes : step[p] \in Persisting)
    /\ stuck' = {}
    /\ UNCHANGED <<persistent, command, old, lived, confirmed, ops, kills>>

(* What the program does once a command was given.                         *)
Work(p) ==
    \/ Try(p) \/ Refuse(p) \/ Check(p) \/ Mark(p) \/ Arm(p) \/ Load(p)
    \/ Rollback(p) \/ Restore(p) \/ Unmark(p) \/ Stop(p)
    \/ Confirm(p) \/ WriteBoot(p) \/ WriteService(p) \/ Reload(p) \/ Enable(p) \/ Accept(p)
    \/ UndoBoot(p) \/ UndoService(p) \/ UndoEnable(p)

Next ==
    \/ \E a \in Admins, c \in Commands : Call(a, c)
    \/ \E a \in Admins : Kill(a)
    \/ Elapse
    \/ Reboot
    \/ \E p \in Processes : Work(p)

Spec == Init /\ [][Next]_vars

(* The timer elapses, and a command that was given goes on.  The number of *)
(* commands is bounded, so nobody waits for the lock for ever.             *)
FairSpec == Spec /\ WF_vars(Elapse) /\ \A p \in Processes : WF_vars(Work(p))
-----------------------------------------------------------------------------
(* Type correctness; a process is past its wait exactly if it has the lock.*)
TypeOK ==
    /\ {runtime, boot, candidate, previous, agreed, confirmed} \subseteq Policies \cup {None}
    /\ {service, enabled, pending, armed, torn} \subseteq BOOLEAN
    /\ stuck \subseteq Processes
    /\ step \in [Processes -> {"idle"} \cup Commands \cup Steps]
    /\ command \in [Processes -> Commands]
    /\ \A p \in Processes : lock = p <=> step[p] \in Steps
    /\ lived \subseteq Policies

Quiet == lock = None

(* Between commands and outside a trial the live table is the one the      *)
(* administrators settled for: a failed, abandoned or expired trial leaves *)
(* nothing behind, and no late timer undoes a confirmed policy.            *)
Settled == Quiet /\ ~pending => runtime = agreed

(* An unconfirmed policy is live only while its rollback is waiting or at  *)
(* work, unless that rollback has itself failed ("otherwise rollback is    *)
(* automatic", firewall.py:104), wherever the commands were cut off.       *)
RollbackArmed ==
    Quiet /\ pending /\ runtime # previous
        => armed \/ step[Unit] # "idle" \/ Unit \in stuck

(* The three persisted pieces change together and only by a successful     *)
(* confirm; a failed one restores all of them.  Not so if it was cut off   *)
(* among its writes, or its undoing failed too.                            *)
BootConfirmed ==
    Quiet /\ ~torn =>
        /\ boot = confirmed
        /\ service = (confirmed # None)
        /\ enabled = (confirmed # None)

(* A finished command leaves the live table and the boot configuration     *)
(* whole, and the lock free for the next one.                              *)
TrialInv == TypeOK /\ Settled /\ BootConfirmed

(* What is persisted has been live in a trial ("Install persistence only   *)
(* after the administrator has tested a new connection", firewall.py:111). *)
PersistedWasLive == boot # None => boot \in lived

(* It is so as long as no command is cut off, and no failed try fails      *)
(* again when it takes its marker back; undoing a confirm brings back what *)
(* was persisted before.                                                   *)
PersistedUnlessCut ==
    [][boot' # boot /\ kills = 0 /\ stuck \subseteq {Unit} => boot' \in lived \cup {OldBoot}]_vars

(* An unconfirmed policy does not stay live for ever, wherever commands    *)
(* are cut off, if only the old rules can be loaded.                       *)
TrialsEnd == (pending /\ runtime # previous) ~> (~pending \/ runtime = previous \/ Unit \in stuck)
=============================================================================
