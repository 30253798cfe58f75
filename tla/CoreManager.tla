---------------------------- MODULE CoreManager ----------------------------
(***************************************************************************)
(* CoreManager (core/manager): one Mihomo core, started as a sidecar       *)
(* process or through the Windows service, restarted when it dies, replaced*)
(* by the updater and stopped when the program exits.                      *)
(*                                                                         *)
(* run_core, the recovery task, upgrade_core and stop_core take turns under*)
(* the async mutex core_operation.  Termination events and the service     *)
(* monitor do not: they run on other threads at any time and touch the     *)
(* atomics and the sidecar slot directly; generations tell them whether the*)
(* core they speak of is still the current one.                            *)
(*                                                                         *)
(* A step is the code between two points where another thread's step makes *)
(* a difference.  While a process holds the mutex nobody else draws a      *)
(* generation, so its local "generation" is the counter itself.            *)
(*                                                                         *)
(* Definitions whose names begin with Bug are mistakes the code does not   *)
(* make: substituted for the definition they precede, each must break the  *)
(* property its comment names.                                             *)
(***************************************************************************)
EXTENDS Integers, FiniteSets

CONSTANTS
    Boot,             \* the task that CoreManager::init spawns
    Callers,          \* other callers of run_core: settings, tray, commands
    Recoverers,       \* slots for the tasks schedule_core_recovery spawns
    Upgrader,         \* the caller of upgrade_core
    Exit,             \* the thread that runs resolve_reset and exits
    Free,             \* nobody holds core_operation
    ServiceSettings,  \* values enable_service_mode takes
    UpgradeOutcomes,  \* answers of the core's upgrade API in this instance
    MaxFaults         \* bound: crashes, failed starts and failed calls

Starters == {Boot} \cup Callers \cup Recoverers \cup {Upgrader}

Processes == Starters \cup {Exit}

ASSUME CoreManagerAssumption ==
    /\ Free \notin Processes
    /\ Boot \notin Callers \cup Recoverers \cup {Upgrader, Exit}
    /\ Upgrader \notin Callers \cup Recoverers \cup {Exit}
    /\ Exit \notin Callers \cup Recoverers
    /\ Callers \cap Recoverers = {}
    /\ ServiceSettings \subseteq BOOLEAN
    /\ UpgradeOutcomes \subseteq {"current", "refused", "broken", "updated"}
    /\ MaxFaults \in Nat

VARIABLES
    desired_running, core_ready, generation, active_generation,
    sidecar,             \* generation of the child in the slot, 0: empty
    use_service_mode, recovery_scheduled, proxy_initialized,
    core_operation,      \* holder of the mutex, or Free
    pc,
    alive,               \* generations whose sidecar process runs
    exited,              \* ended sidecars whose Terminated event is not handled yet
    handling,            \* handle_core_terminated calls past their compare-exchange
    service_core,        \* the Windows service runs a core
    unmanaged,           \* a core restarted by its own updater runs
    monitors,            \* service monitors [generation, failures, probing]
    initializing,        \* some task is inside initialize_sysproxy_after_core_ready
    enable_service_mode, \* the setting
    saved,               \* upgrade_core's locals
    gave_up,             \* history: a failed update could not be rolled back
    faults               \* faults that have happened, up to MaxFaults

stateVars == <<desired_running, core_ready, active_generation, sidecar>>
worldVars == <<alive, exited, service_core, unmanaged>>
taskVars  == <<recovery_scheduled, proxy_initialized, initializing, monitors>>
constVars == <<enable_service_mode, saved, gave_up>>
vars == <<desired_running, core_ready, generation, active_generation, sidecar,
          use_service_mode, recovery_scheduled, proxy_initialized, core_operation, pc,
          alive, exited, handling, service_core, unmanaged, monitors, initializing,
          enable_service_mode, saved, gave_up, faults>>

StartPlaces == {"begin", "kill", "settle", "service", "undo", "spawn", "wait", "confirm"}

Starting(p) == pc[p] \in StartPlaces

Places == StartPlaces \cup
    {"idle", "lock", "started", "failed", "report", "done", "loop", "sleep", "after",
     "upgrade", "restore", "store", "replace", "activate", "rollback", "stop", "stopped",
     "killed", "exited"}

NotSaved == [desired |-> FALSE, ready |-> FALSE, generation |-> 0, service |-> FALSE,
             active |-> FALSE, rolling |-> FALSE]

Init ==
    /\ desired_running = FALSE /\ core_ready = FALSE
    /\ generation = 0 /\ active_generation = 0 /\ sidecar = 0
    /\ use_service_mode = FALSE
    /\ recovery_scheduled = FALSE /\ proxy_initialized = FALSE /\ initializing = FALSE
    /\ core_operation = Free
    /\ pc = [p \in Processes |-> "idle"]
    /\ alive = {} /\ exited = {} /\ handling = {}
    /\ service_core = FALSE /\ unmanaged = FALSE
    /\ monitors = {}
    /\ enable_service_mode \in ServiceSettings
    /\ saved = NotSaved /\ gave_up = FALSE
    /\ faults = 0

Goto(p, place) == pc' = [pc EXCEPT ![p] = place]

Fault == faults < MaxFaults /\ faults' = faults + 1

\* Breaks RecoveryIsSingle: the flag is stored without being compared.
BugScheduleRecovery(at) ==
    /\ recovery_scheduled' = TRUE
    /\ \E r \in Recoverers : at[r] = "idle" /\ pc' = [at EXCEPT ![r] = "loop"]

\* schedule_core_recovery: the compare-exchange on recovery_scheduled lets one
\* caller through, which spawns the task.  "at" is the program counter the
\* caller's own step leaves behind.
ScheduleRecovery(at) ==
    \/ /\ recovery_scheduled
       /\ pc' = at
       /\ UNCHANGED recovery_scheduled
    \/ /\ ~recovery_scheduled
       /\ recovery_scheduled' = TRUE
       /\ \E r \in Recoverers : at[r] = "idle" /\ pc' = [at EXCEPT ![r] = "loop"]

NoRecovery(at) == pc' = at /\ UNCHANGED recovery_scheduled

\* start_service_monitor: a one-shot task per generation; scheduling it again
\* while it waits replaces it.
StartMonitor(g, failures) ==
    monitors' = {m \in monitors : m.generation # g \/ m.probing}
                    \cup {[generation |-> g, failures |-> failures, probing |-> FALSE]}

\* Breaks AliveIsOwned: the child is taken out of the slot and not killed.
BugKillSidecar == sidecar' = 0 /\ UNCHANGED <<alive, exited>>

\* CommandChild::kill of the child in the slot, if there is one.
KillSidecar ==
    /\ alive' = alive \ {sidecar}
    /\ exited' = exited \cup (alive \cap {sidecar})
    /\ sidecar' = 0

\* stop_core_by_service.  A failed call leaves the core running.
StopByService ==
    \/ service_core' = FALSE /\ UNCHANGED faults
    \/ UNCHANGED service_core /\ Fault

-----------------------------------------------------------------------------
(* run_core, and the mutex.                                                *)

\* desired_running is set before the mutex is asked for.
RunCore(p) ==
    /\ p \in {Boot} \cup Callers
    /\ pc[p] = "idle"
    /\ pc[Boot] # "idle" \/ p = Boot
    /\ desired_running' = TRUE
    /\ \/ p = Boot /\ UNCHANGED enable_service_mode
       \/ p \in Callers /\ enable_service_mode' \in ServiceSettings
    /\ Goto(p, "lock")
    /\ UNCHANGED <<core_ready, generation, active_generation, sidecar, use_service_mode,
                   core_operation, worldVars, handling, taskVars, saved, gave_up, faults>>

\* The mutex is granted to run_core_inner.
AcquireRun(p) ==
    /\ p \in {Boot} \cup Callers
    /\ pc[p] = "lock"
    /\ core_operation = Free
    /\ core_operation' = p
    /\ Goto(p, "begin")
    /\ UNCHANGED <<stateVars, generation, use_service_mode, worldVars, handling, taskVars,
                   constVars, faults>>

\* run_core_inner returns and the mutex is released.
ReturnRun(p) ==
    /\ p \in {Boot} \cup Callers
    /\ pc[p] \in {"started", "failed"}
    /\ core_operation' = Free
    /\ Goto(p, IF pc[p] = "failed" THEN "report" ELSE "done")
    /\ IF p = Boot /\ pc[p] = "started" /\ ~proxy_initialized
       THEN initializing' = TRUE ELSE UNCHANGED initializing
    /\ UNCHANGED <<stateVars, generation, use_service_mode, worldVars, handling,
                   recovery_scheduled, proxy_initialized, monitors, constVars, faults>>

\* A failed run_core asks for recovery; the boot task asks in any case.
ReportFailure(p) ==
    /\ pc[p] = "report"
    /\ IF (desired_running /\ ~core_ready) \/ p = Boot
       THEN ScheduleRecovery([pc EXCEPT ![p] = "done"])
       ELSE NoRecovery([pc EXCEPT ![p] = "done"])
    /\ UNCHANGED <<stateVars, generation, use_service_mode, core_operation, worldVars, handling,
                   proxy_initialized, monitors, initializing, constVars, faults>>

-----------------------------------------------------------------------------
(* start_core_locked.                                                      *)

\* The runtime configuration file could not be written: nothing else happens.
StartNoConfig(p) ==
    /\ pc[p] = "begin"
    /\ Fault
    /\ Goto(p, "failed")
    /\ UNCHANGED <<stateVars, generation, use_service_mode, core_operation, worldVars, handling,
                   taskVars, constVars>>

\* Not ready, a new generation, and it is the active one.
StartBegin(p) ==
    /\ pc[p] = "begin"
    /\ core_ready' = FALSE
    /\ generation' = generation + 1
    /\ active_generation' = generation + 1
    /\ Goto(p, "kill")
    /\ UNCHANGED <<desired_running, sidecar, use_service_mode, core_operation, worldVars,
                   handling, taskVars, constVars, faults>>

\* The previous core is stopped, in whichever mode it runs.
StartKill(p) ==
    /\ pc[p] = "kill"
    /\ KillSidecar
    /\ IF use_service_mode THEN StopByService ELSE UNCHANGED <<service_core, faults>>
    /\ Goto(p, "settle")
    /\ UNCHANGED <<desired_running, core_ready, generation, active_generation, use_service_mode,
                   core_operation, unmanaged, handling, taskVars, constVars>>

\* After the settling time the mode is read anew.  A handle_core_terminated
\* call that is past its compare-exchange has no await left and is over by now.
StartSettle(p) ==
    /\ pc[p] = "settle"
    /\ handling = {}
    /\ use_service_mode' = enable_service_mode
    /\ Goto(p, IF enable_service_mode THEN "service" ELSE "spawn")
    /\ UNCHANGED <<stateVars, generation, core_operation, worldVars, handling, taskVars,
                   constVars, faults>>

\* run_core_by_service reports a ready core: monitor it.
StartServiceOk(p) ==
    /\ pc[p] = "service"
    /\ service_core' = TRUE
    /\ core_ready' = TRUE
    /\ StartMonitor(generation, 0)
    /\ Goto(p, "started")
    /\ UNCHANGED <<desired_running, generation, active_generation, sidecar, use_service_mode,
                   core_operation, alive, exited, unmanaged, handling, recovery_scheduled,
                   proxy_initialized, initializing, constVars, faults>>

\* It fails, possibly with the core running but not ready.
StartServiceErr(p) ==
    /\ pc[p] = "service"
    /\ Fault
    /\ service_core' \in {service_core, TRUE}
    /\ active_generation' = 0
    /\ core_ready' = FALSE
    /\ Goto(p, "undo")
    /\ UNCHANGED <<desired_running, generation, sidecar, use_service_mode, core_operation,
                   alive, exited, unmanaged, handling, taskVars, constVars>>

StartServiceUndo(p) ==
    /\ pc[p] = "undo"
    /\ StopByService
    /\ Goto(p, "failed")
    /\ UNCHANGED <<stateVars, generation, use_service_mode, core_operation, alive, exited,
                   unmanaged, handling, taskVars, constVars>>

\* The sidecar is spawned, put in the slot and listened to.
StartSpawn(p) ==
    /\ pc[p] = "spawn"
    /\ alive' = alive \cup {generation}
    /\ sidecar' = generation
    /\ Goto(p, "wait")
    /\ UNCHANGED <<desired_running, core_ready, generation, active_generation, use_service_mode,
                   core_operation, exited, service_core, unmanaged, handling, taskVars, constVars,
                   faults>>

StartSpawnErr(p) ==
    /\ pc[p] = "spawn"
    /\ Fault
    /\ active_generation' = 0
    /\ Goto(p, "failed")
    /\ UNCHANGED <<desired_running, core_ready, generation, sidecar, use_service_mode,
                   core_operation, worldVars, handling, taskVars, constVars>>

\* wait_for_core_ready times out: with a process that lives only by a fault.
StartWaitErr(p) ==
    /\ pc[p] = "wait"
    /\ IF generation \in alive THEN Fault ELSE UNCHANGED faults
    /\ IF active_generation = generation
       THEN active_generation' = 0 /\ KillSidecar
       ELSE UNCHANGED <<active_generation, sidecar, alive, exited>>
    /\ core_ready' = FALSE
    /\ Goto(p, "failed")
    /\ UNCHANGED <<desired_running, generation, use_service_mode, core_operation, service_core,
                   unmanaged, handling, taskVars, constVars>>

\* It answered; the generation is compared, and if it still is the active one ...
StartWaitOk(p) ==
    /\ pc[p] = "wait"
    /\ generation \in alive
    /\ Goto(p, IF active_generation = generation THEN "confirm" ELSE "failed")
    /\ UNCHANGED <<stateVars, generation, use_service_mode, core_operation, worldVars, handling,
                   taskVars, constVars, faults>>

\* ... core_ready is stored.
StartConfirm(p) ==
    /\ pc[p] = "confirm"
    /\ core_ready' = TRUE
    /\ Goto(p, "started")
    /\ UNCHANGED <<desired_running, generation, active_generation, sidecar, use_service_mode,
                   core_operation, worldVars, handling, taskVars, constVars, faults>>

StartStep(p) ==
    \/ StartNoConfig(p) \/ StartBegin(p) \/ StartKill(p) \/ StartSettle(p)
    \/ StartServiceOk(p) \/ StartServiceErr(p) \/ StartServiceUndo(p)
    \/ StartSpawn(p) \/ StartSpawnErr(p) \/ StartWaitErr(p) \/ StartWaitOk(p) \/ StartConfirm(p)

-----------------------------------------------------------------------------
(* Termination events: handle_core_terminated on the event task's thread.  *)

\* Breaks OldEventsHarmless: any core is active, not the one the event is about.
BugIsActive(g) == active_generation # 0

IsActive(g) == active_generation = g

\* The compare-exchange: only the active generation's event goes on.
HandleTerminated(g) ==
    /\ g \in exited
    /\ exited' = exited \ {g}
    /\ IF IsActive(g)
       THEN active_generation' = 0 /\ handling' = handling \cup {g}
       ELSE UNCHANGED <<active_generation, handling>>
    /\ UNCHANGED <<desired_running, core_ready, generation, sidecar, use_service_mode,
                   core_operation, pc, alive, service_core, unmanaged, taskVars, constVars, faults>>

FinishTerminated(g) ==
    /\ g \in handling
    /\ handling' = handling \ {g}
    /\ sidecar' = 0
    /\ core_ready' = FALSE
    /\ IF desired_running THEN ScheduleRecovery(pc) ELSE NoRecovery(pc)
    /\ UNCHANGED <<desired_running, generation, active_generation, use_service_mode,
                   core_operation, worldVars, proxy_initialized, monitors, initializing,
                   constVars, faults>>

-----------------------------------------------------------------------------
(* The recovery task.                                                      *)

RecoverLoop(r) ==
    /\ pc[r] = "loop"
    /\ Goto(r, IF desired_running /\ ~core_ready THEN "sleep" ELSE "stop")
    /\ UNCHANGED <<stateVars, generation, use_service_mode, core_operation, worldVars, handling,
                   taskVars, constVars, faults>>

\* After the delay the wish and the state are looked at again.
RecoverWake(r) ==
    /\ pc[r] = "sleep"
    /\ Goto(r, IF desired_running /\ ~core_ready THEN "lock" ELSE "stop")
    /\ UNCHANGED <<stateVars, generation, use_service_mode, core_operation, worldVars, handling,
                   taskVars, constVars, faults>>

\* Breaks RecoveryIsWanted: nothing is looked at again under the mutex.
BugRecoverAcquire(r) ==
    /\ r \in Recoverers
    /\ pc[r] = "lock"
    /\ core_operation = Free
    /\ core_operation' = r
    /\ Goto(r, "begin")
    /\ UNCHANGED <<stateVars, generation, use_service_mode, worldVars, handling, taskVars,
                   constVars, faults>>

\* recover_core_if_needed looks once more under the mutex.
RecoverAcquire(r) ==
    /\ r \in Recoverers
    /\ pc[r] = "lock"
    /\ core_operation = Free
    /\ \/ /\ desired_running /\ ~core_ready
          /\ core_operation' = r
          /\ Goto(r, "begin")
       \/ /\ ~desired_running \/ core_ready
          /\ UNCHANGED core_operation
          /\ Goto(r, "stop")
    /\ UNCHANGED <<stateVars, generation, use_service_mode, worldVars, handling, taskVars,
                   constVars, faults>>

RecoverReturn(r) ==
    /\ r \in Recoverers
    /\ pc[r] \in {"started", "failed"}
    /\ core_operation' = Free
    /\ Goto(r, IF pc[r] = "started" THEN "stop" ELSE "loop")
    /\ UNCHANGED <<stateVars, generation, use_service_mode, worldVars, handling, taskVars,
                   constVars, faults>>

\* recovery_scheduled.store(false).
RecoverClear(r) ==
    /\ r \in Recoverers
    /\ pc[r] = "stop"
    /\ recovery_scheduled' = FALSE
    /\ Goto(r, "after")
    /\ UNCHANGED <<stateVars, generation, use_service_mode, core_operation, worldVars, handling,
                   proxy_initialized, initializing, monitors, constVars, faults>>

\* Breaks ProxyFollowsCore: only the boot task initializes the system proxy.
BugInitializeAfterRecovery == UNCHANGED initializing

InitializeAfterRecovery == initializing' = (initializing \/ ~proxy_initialized)

\* Breaks Recovered: the state is not looked at again after the flag is cleared.
BugRecoverAgain(at) == NoRecovery(at)

RecoverAgain(at) == ScheduleRecovery(at)

\* A core lost between the loop's last look and the store is recovered here.
RecoverAfter(r) ==
    /\ pc[r] = "after"
    /\ \/ /\ desired_running /\ core_ready
          /\ NoRecovery([pc EXCEPT ![r] = "idle"])
          /\ InitializeAfterRecovery
       \/ /\ desired_running /\ ~core_ready
          /\ RecoverAgain([pc EXCEPT ![r] = "idle"])
          /\ UNCHANGED initializing
       \/ /\ ~desired_running
          /\ NoRecovery([pc EXCEPT ![r] = "idle"])
          /\ UNCHANGED initializing
    /\ UNCHANGED <<stateVars, generation, use_service_mode, core_operation, worldVars, handling,
                   proxy_initialized, monitors, constVars, faults>>

RecoverStep(r) ==
    \/ RecoverLoop(r) \/ RecoverWake(r) \/ RecoverReturn(r) \/ RecoverClear(r) \/ RecoverAfter(r)

\* initialize_sysproxy_after_core_ready: retried while the core is wanted and
\* ready, until init_sysproxy succeeds.
InitializeSysproxy ==
    /\ initializing
    /\ \/ /\ desired_running /\ core_ready
          /\ proxy_initialized' = TRUE /\ initializing' = FALSE
          /\ UNCHANGED faults
       \/ /\ desired_running /\ core_ready
          /\ Fault
          /\ UNCHANGED <<proxy_initialized, initializing>>
       \/ /\ ~(desired_running /\ core_ready)
          /\ initializing' = FALSE
          /\ UNCHANGED <<proxy_initialized, faults>>
    /\ UNCHANGED <<stateVars, generation, use_service_mode, core_operation, pc, worldVars,
                   handling, recovery_scheduled, monitors, constVars>>

-----------------------------------------------------------------------------
(* The service monitor: a chain of one-shot tasks, two seconds apart.      *)

\* Breaks TypeOK: one failure too many is counted before the core is given up.
BugTolerates(m) == m.failures <= 2

Tolerates(m) == m.failures < 2

\* The task fires: the chain ends, or the service is asked.
MonitorTick(m) ==
    /\ m \in monitors /\ ~m.probing
    /\ IF desired_running /\ active_generation = m.generation /\ use_service_mode
       THEN monitors' = (monitors \ {m}) \cup {[m EXCEPT !.probing = TRUE]}
       ELSE monitors' = monitors \ {m}
    /\ UNCHANGED <<stateVars, generation, use_service_mode, core_operation, pc, worldVars,
                   handling, recovery_scheduled, proxy_initialized, initializing, constVars, faults>>

\* The answer: running, and the count starts again.
MonitorRunning(m) ==
    /\ m \in monitors /\ m.probing
    /\ service_core
    /\ monitors' = {x \in monitors \ {m} : x.generation # m.generation \/ x.probing}
                       \cup {[m EXCEPT !.probing = FALSE, !.failures = 0]}
    /\ UNCHANGED <<stateVars, generation, use_service_mode, core_operation, pc, worldVars,
                   handling, recovery_scheduled, proxy_initialized, initializing, constVars, faults>>

\* No core, or no answer although there is one; the third time in a row the
\* core is given up.
MonitorFailure(m) ==
    LET others == {x \in monitors \ {m} : x.generation # m.generation \/ x.probing}
    IN  /\ m \in monitors /\ m.probing
        /\ IF service_core THEN Fault ELSE UNCHANGED faults
        /\ \/ /\ Tolerates(m)
              /\ monitors' = others \cup {[m EXCEPT !.probing = FALSE, !.failures = @ + 1]}
              /\ NoRecovery(pc)
              /\ UNCHANGED <<active_generation, core_ready>>
           \/ /\ ~Tolerates(m)
              /\ monitors' = monitors \ {m}
              /\ IF active_generation = m.generation
                 THEN active_generation' = 0 /\ core_ready' = FALSE /\ ScheduleRecovery(pc)
                 ELSE NoRecovery(pc) /\ UNCHANGED <<active_generation, core_ready>>
        /\ UNCHANGED <<desired_running, sidecar, generation, use_service_mode, core_operation,
                       worldVars, handling, proxy_initialized, initializing, constVars>>

-----------------------------------------------------------------------------
(* upgrade_core.                                                           *)

\* Under the mutex, with a ready core: desired_running is swapped to false and
\* the running state saved while the core's upgrade API is called.
UpgradeAcquire ==
    /\ pc[Upgrader] = "idle" /\ pc[Boot] # "idle"
    /\ UpgradeOutcomes # {}
    /\ core_operation = Free
    /\ core_ready
    /\ core_operation' = Upgrader
    /\ saved' = [NotSaved EXCEPT !.desired = desired_running, !.ready = core_ready,
                                 !.generation = active_generation, !.service = use_service_mode]
    /\ desired_running' = FALSE
    /\ Goto(Upgrader, "upgrade")
    /\ UNCHANGED <<core_ready, active_generation, sidecar, generation, use_service_mode,
                   worldVars, handling, taskVars, enable_service_mode, gave_up, faults>>

\* Breaks WishIsKept: the update returns at once and restores nothing.
BugUpgradeUnchanged ==
    /\ pc[Upgrader] = "upgrade"
    /\ UpgradeOutcomes \cap {"current", "refused"} # {}
    /\ Goto(Upgrader, "started")
    /\ UNCHANGED <<stateVars, generation, use_service_mode, core_operation, worldVars, handling,
                   taskVars, constVars, faults>>

\* Already current, or refused with no file replaced.
UpgradeUnchanged ==
    /\ pc[Upgrader] = "upgrade"
    /\ UpgradeOutcomes \cap {"current", "refused"} # {}
    /\ Goto(Upgrader, "restore")
    /\ UNCHANGED <<stateVars, generation, use_service_mode, core_operation, worldVars, handling,
                   taskVars, constVars, faults>>

\* The executable was replaced, and Mihomo starts the new one by itself; with
\* "broken" the API then reported an error and the update is rolled back.
UpgradeReplaced ==
    /\ pc[Upgrader] = "upgrade"
    /\ \E outcome \in UpgradeOutcomes \cap {"updated", "broken"} :
          /\ Goto(Upgrader, IF outcome = "updated" THEN "replace" ELSE "rollback")
          /\ outcome = "broken" => faults < MaxFaults
          /\ faults' = IF outcome = "broken" THEN faults + 1 ELSE faults
    /\ alive' = {} /\ exited' = exited \cup alive
    /\ service_core' = FALSE
    /\ unmanaged' = TRUE
    /\ UNCHANGED <<stateVars, generation, use_service_mode, core_operation, handling, taskVars,
                   constVars>>

\* restore_running_state_after_unchanged_update: is the core still the active one?
RestoreCheck ==
    /\ pc[Upgrader] = "restore"
    /\ saved' = [saved EXCEPT !.active = saved.generation # 0
                                            /\ active_generation = saved.generation]
    /\ Goto(Upgrader, "store")
    /\ UNCHANGED <<stateVars, generation, use_service_mode, core_operation, worldVars, handling,
                   taskVars, enable_service_mode, gave_up, faults>>

\* Breaks Recovered: a core that died during the update is not asked for again.
BugRestoreRecovery(ready, at) == NoRecovery(at)

RestoreRecovery(ready, at) ==
    IF saved.desired /\ ~ready THEN ScheduleRecovery(at) ELSE NoRecovery(at)

RestoreStore ==
    LET ready == saved.ready /\ saved.active
        left  == [pc EXCEPT ![Upgrader] = "done"]
    IN  /\ pc[Upgrader] = "store"
        /\ desired_running' = saved.desired
        /\ core_ready' = ready
        /\ IF saved.desired /\ ready /\ saved.service
           THEN StartMonitor(saved.generation, 0) ELSE UNCHANGED monitors
        /\ RestoreRecovery(ready, left)
        /\ core_operation' = Free
        /\ UNCHANGED <<active_generation, sidecar, generation, use_service_mode, worldVars,
                       handling, proxy_initialized, initializing, constVars, faults>>

\* Breaks NoUnmanagedCore: the self-restarted process is not reaped.
BugStopAfterUpdate ==
    /\ active_generation' = 0
    /\ core_ready' = FALSE
    /\ service_core' = FALSE
    /\ UNCHANGED unmanaged
    /\ KillSidecar

\* stop_core_after_self_update_locked: every core process is stopped, also the
\* one Mihomo started by itself.
StopAfterUpdate ==
    /\ active_generation' = 0
    /\ core_ready' = FALSE
    /\ service_core' = FALSE
    /\ unmanaged' = FALSE
    /\ KillSidecar

UpgradeStop ==
    /\ pc[Upgrader] \in {"replace", "rollback"}
    /\ StopAfterUpdate
    /\ desired_running' = IF pc[Upgrader] = "rollback" THEN FALSE ELSE desired_running
    /\ saved' = [saved EXCEPT !.rolling = pc[Upgrader] = "rollback"]
    /\ Goto(Upgrader, "activate")
    /\ UNCHANGED <<generation, use_service_mode, core_operation, handling, taskVars,
                   enable_service_mode, gave_up, faults>>

\* activate_updated_core_locked: validated, then started if it was running.
UpgradeActivate ==
    /\ pc[Upgrader] = "activate"
    /\ desired_running' = saved.desired
    /\ Goto(Upgrader, IF saved.desired THEN "begin" ELSE "started")
    /\ UNCHANGED <<core_ready, active_generation, sidecar, generation, use_service_mode,
                   core_operation, worldVars, handling, taskVars, constVars, faults>>

\* Validation fails, or in a rollback the old executable cannot be put back.
UpgradeActivateErr ==
    /\ pc[Upgrader] = "activate"
    /\ Fault
    /\ Goto(Upgrader, "failed")
    /\ UNCHANGED <<stateVars, generation, use_service_mode, core_operation, worldVars, handling,
                   taskVars, constVars>>

\* A failed activation is rolled back once; then upgrade_core returns.
UpgradeReturn ==
    \/ /\ pc[Upgrader] = "failed" /\ ~saved.rolling
       /\ Goto(Upgrader, "rollback")
       /\ UNCHANGED <<stateVars, generation, use_service_mode, core_operation, worldVars,
                      handling, taskVars, constVars, faults>>
    \/ /\ pc[Upgrader] = "started" \/ (pc[Upgrader] = "failed" /\ saved.rolling)
       /\ gave_up' = (pc[Upgrader] = "failed")
       /\ core_operation' = Free
       /\ Goto(Upgrader, "done")
       /\ UNCHANGED <<stateVars, generation, use_service_mode, worldVars, handling, taskVars,
                      enable_service_mode, saved, faults>>

UpgradeStep ==
    \/ UpgradeUnchanged \/ UpgradeReplaced \/ RestoreCheck \/ RestoreStore \/ UpgradeStop
    \/ UpgradeActivate \/ UpgradeActivateErr \/ UpgradeReturn

-----------------------------------------------------------------------------
(* shutdown_app: resolve_reset with stop_core, and the end of the program.  *)

\* cancel_all drops the waiting one-shot tasks, the service monitors with them;
\* a monitor that already runs goes on.
ResetBegin ==
    /\ pc[Exit] = "idle" /\ pc[Boot] # "idle"
    /\ monitors' = {m \in monitors : m.probing}
    /\ Goto(Exit, "lock")
    /\ UNCHANGED <<stateVars, generation, use_service_mode, core_operation, worldVars, handling,
                   recovery_scheduled, proxy_initialized, initializing, constVars, faults>>

StopAcquire ==
    /\ pc[Exit] = "lock"
    /\ core_operation = Free
    /\ core_operation' = Exit
    /\ desired_running' = FALSE
    /\ core_ready' = FALSE
    /\ active_generation' = 0
    /\ Goto(Exit, "stop")
    /\ UNCHANGED <<sidecar, generation, use_service_mode, worldVars, handling, taskVars,
                   constVars, faults>>

StopCore ==
    /\ pc[Exit] = "stop"
    /\ \/ /\ use_service_mode
          /\ StopByService
          /\ UNCHANGED <<alive, exited, sidecar>>
       \/ /\ ~use_service_mode
          /\ KillSidecar
          /\ UNCHANGED <<service_core, faults>>
    /\ core_operation' = Free
    /\ Goto(Exit, "stopped")
    /\ UNCHANGED <<desired_running, core_ready, active_generation, generation, use_service_mode,
                   unmanaged, handling, taskVars, constVars>>

\* kill_children: every sidecar process that runs by now.
KillChildren ==
    /\ pc[Exit] = "stopped"
    /\ alive' = {} /\ exited' = exited \cup alive
    /\ Goto(Exit, "killed")
    /\ UNCHANGED <<stateVars, generation, use_service_mode, core_operation, service_core,
                   unmanaged, handling, taskVars, constVars, faults>>

ExitProcess ==
    /\ pc[Exit] = "killed"
    /\ Goto(Exit, "exited")
    /\ UNCHANGED <<stateVars, generation, use_service_mode, core_operation, worldVars, handling,
                   taskVars, constVars, faults>>

-----------------------------------------------------------------------------

\* A core process dies by itself.
Crash ==
    /\ Fault
    /\ \/ \E g \in alive : alive' = alive \ {g} /\ exited' = exited \cup {g} /\ UNCHANGED service_core
       \/ service_core /\ service_core' = FALSE /\ UNCHANGED <<alive, exited>>
    /\ UNCHANGED <<stateVars, generation, use_service_mode, core_operation, pc, unmanaged,
                   handling, taskVars, constVars>>

Acquire(p) == AcquireRun(p) \/ RecoverAcquire(p)

ProcessStep(p) ==
    \/ StartStep(p) \/ ReturnRun(p) \/ ReportFailure(p)
    \/ p \in Recoverers /\ RecoverStep(p)
    \/ p = Upgrader /\ UpgradeStep

Next ==
    /\ pc[Exit] # "exited"
    /\ \/ \E p \in Starters : RunCore(p) \/ Acquire(p) \/ ProcessStep(p)
       \/ \E g \in exited : HandleTerminated(g)
       \/ \E g \in handling : FinishTerminated(g)
       \/ \E m \in monitors : MonitorTick(m) \/ MonitorRunning(m) \/ MonitorFailure(m)
       \/ InitializeSysproxy
       \/ UpgradeAcquire \/ ResetBegin \/ StopAcquire \/ StopCore \/ KillChildren \/ ExitProcess
       \/ Crash

\* Tasks and threads keep running and the mutex is fair (tokio's queues its
\* waiters); nobody is obliged to call run_core, upgrade_core or stop_core.
Fairness ==
    /\ \A p \in Starters : WF_vars(pc[Exit] # "exited" /\ ProcessStep(p))
                           /\ SF_vars(pc[Exit] # "exited" /\ Acquire(p))
    /\ SF_vars(pc[Exit] # "exited" /\ StopAcquire) /\ WF_vars(pc[Exit] # "exited" /\ StopCore)
    /\ WF_vars(pc[Exit] # "exited" /\ \E g \in exited : HandleTerminated(g))
    /\ WF_vars(pc[Exit] # "exited" /\ \E g \in handling : FinishTerminated(g))
    /\ WF_vars(pc[Exit] # "exited" /\ \E m \in monitors : MonitorTick(m))
    /\ WF_vars(pc[Exit] # "exited" /\ \E m \in monitors : MonitorRunning(m) \/ MonitorFailure(m))
    /\ WF_vars(pc[Exit] # "exited" /\ InitializeSysproxy)

SafetySpec == Init /\ [][Next]_vars

Spec == SafetySpec /\ Fairness

-----------------------------------------------------------------------------

TypeOK ==
    /\ desired_running \in BOOLEAN /\ core_ready \in BOOLEAN
    /\ generation \in Nat /\ active_generation \in 0..generation /\ sidecar \in 0..generation
    /\ use_service_mode \in BOOLEAN /\ recovery_scheduled \in BOOLEAN
    /\ proxy_initialized \in BOOLEAN /\ initializing \in BOOLEAN
    /\ core_operation \in Processes \cup {Free}
    /\ pc \in [Processes -> Places]
    /\ alive \subseteq 1..generation /\ exited \subseteq 1..generation
    /\ handling \subseteq 1..generation
    /\ service_core \in BOOLEAN /\ unmanaged \in BOOLEAN
    /\ monitors \subseteq [generation : 1..generation, failures : 0..2, probing : BOOLEAN]
    /\ enable_service_mode \in BOOLEAN
    /\ saved \in [desired : BOOLEAN, ready : BOOLEAN, generation : 0..generation,
                  service : BOOLEAN, active : BOOLEAN, rolling : BOOLEAN]
    /\ gave_up \in BOOLEAN
    /\ faults \in 0..MaxFaults

\* Every sidecar process that runs sits in the slot from which it can be
\* killed: no start, timeout, late termination event or update leaves a core
\* behind that nobody owns, and there are never two.
AliveIsOwned == alive \subseteq {sidecar}

\* A ready core that lives loses "ready" only to an operation under the mutex;
\* the termination event of an older generation cannot take it away.
OldEventsHarmless ==
    [][core_ready /\ ~core_ready' /\ sidecar \in alive => core_operation' # Free]_vars

\* At most one recovery task is between taking the flag and clearing it, and
\* the flag tells whether there is one.
RecoveryIsSingle ==
    \A r, s \in Recoverers :
        /\ pc[r] \notin {"idle", "after"} => recovery_scheduled
        /\ pc[r] \notin {"idle", "after"} /\ pc[s] \notin {"idle", "after"} => r = s

\* A recovery never starts a core that is no longer wanted, although stop_core
\* and upgrade_core may have run while it slept or waited for the mutex.
RecoveryIsWanted == \A r \in Recoverers : Starting(r) => desired_running

\* Once the boot task has asked for a core, it stays wanted until the program
\* stops it, while no update is in progress: an update that changed nothing, or
\* was rolled back, puts the wish back.
WishIsKept ==
    /\ pc[Boot] # "idle" /\ pc[Exit] \in {"idle", "lock"}
    /\ core_operation # Upgrader /\ ~gave_up
    => desired_running

\* The core that Mihomo's own updater starts never outlives the update.
NoUnmanagedCore == unmanaged => core_operation = Upgrader

\* A core that is wanted and not ready is started again, however the starts,
\* deaths, monitors and recoveries overlap; only a rollback that failed gives up.
Recovered ==
    desired_running /\ ~core_ready /\ ~gave_up
        ~> ~desired_running \/ core_ready \/ gave_up \/ pc[Exit] = "exited"

\* If the core ends up wanted and ready for good, the system proxy is
\* initialized, also when the boot task's own attempt was cut short; an update
\* that ends the attempt leaves the rest to the guard.
ProxyFollowsCore ==
    <>[](desired_running /\ core_ready /\ pc[Upgrader] = "idle" /\ pc[Exit] # "exited")
        => <>proxy_initialized
=============================================================================
