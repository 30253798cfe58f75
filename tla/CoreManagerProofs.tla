-------------------------- MODULE CoreManagerProofs --------------------------
(***************************************************************************)
(* Proofs about CoreManager, for any callers, recovery slots, outcomes of  *)
(* an update and bound on the faults.                                      *)
(***************************************************************************)
EXTENDS CoreManager, TLAPS

\* The places where a task holds core_operation.
Held == StartPlaces \cup
    {"started", "failed", "upgrade", "restore", "store", "replace", "activate", "rollback"}

\* The mutex, which only upgrade_core leaves by a known way; only run_core's
\* callers report a failure.
ControlOK ==
    /\ \A p \in Starters : /\ pc[p] \in Held => core_operation = p
                           /\ pc[p] = "report" => p \in {Boot} \cup Callers
    /\ pc[Exit] = "stop" => core_operation = Exit
    /\ core_operation = Upgrader => pc[Upgrader] \in Held
    /\ pc[Boot] = "idle" => pc[Upgrader] = "idle"
    /\ unmanaged => pc[Upgrader] \in {"replace", "rollback"}

\* A process that runs is the one in the slot, and its event is still to come.
\* A handler that empties the slot finds no process there, nor can the event of
\* the current generation come while an older process is in the slot.
SidecarOK ==
    /\ AliveIsOwned
    /\ alive \cap (exited \cup handling) = {}
    /\ active_generation \in {0, generation}
    /\ handling # {} => alive = {}
    /\ alive # {} /\ generation \notin alive => generation \notin exited
    /\ active_generation = 0 /\ alive # {} => pc[Exit] = "stop"

\* What a start that is under way relies on: from the drawing of a generation on,
\* nobody knows of it; once the old process is killed there is none.
StartAt(p) ==
    /\ pc[p] \in {"kill", "settle", "service", "spawn"} =>
          /\ generation # 0 /\ active_generation = generation
          /\ generation \notin alive \cup exited \cup handling
          /\ \A m \in monitors : m.generation # generation
    /\ pc[p] \in {"settle", "service", "undo", "spawn"} => alive = {}
    /\ pc[p] \in {"service", "spawn"} => handling = {}
    /\ pc[p] = "spawn" => ~use_service_mode

StartOK == \A p \in Starters : StartAt(p)

\* A core that runs in the service, or is watched there, is no sidecar.
ModeOK ==
    /\ use_service_mode => alive = {}
    /\ \A m \in monitors : m.generation = generation => alive = {}

\* What upgrade_core has saved is what it restores.
SavedOK ==
    /\ saved.active => saved.generation # 0
    /\ pc[Upgrader] \in {"upgrade", "restore", "store"} =>
          /\ saved.ready /\ saved.service = use_service_mode
          /\ saved.generation \in {0, generation}
    /\ pc[Upgrader] \in {"upgrade", "restore"} => active_generation \in {0, saved.generation}
    /\ pc[Upgrader] = "store" => saved.active \/ alive = {}

\* The wish, or its copy while an update has taken it down.
WishOK ==
    /\ gave_up => pc[Upgrader] = "done"
    /\ pc[Boot] # "idle" /\ pc[Exit] \in {"idle", "lock"} =>
          /\ core_operation # Upgrader /\ ~gave_up => desired_running
          /\ core_operation = Upgrader => saved.desired
          /\ core_operation = Upgrader /\ (Starting(Upgrader) \/ pc[Upgrader] = "started")
                => desired_running

RecoveryOK == RecoveryIsSingle /\ RecoveryIsWanted

IInv == /\ TypeOK /\ ControlOK /\ SidecarOK /\ StartOK /\ ModeOK /\ SavedOK /\ WishOK
        /\ RecoveryOK

-----------------------------------------------------------------------------
(* General facts.                                                          *)

LEMMA Roles ==
  /\ Boot \in Starters /\ Upgrader \in Starters /\ Exit \notin Starters
  /\ Free \notin Processes /\ Starters \subseteq Processes /\ Exit \in Processes
  /\ Boot # Upgrader /\ Upgrader \notin Recoverers /\ Boot \notin Recoverers
  /\ \A p \in {Boot} \cup Callers : p # Upgrader /\ p \notin Recoverers
  /\ Recoverers \subseteq Starters /\ {Boot} \cup Callers \subseteq Starters
  BY CoreManagerAssumption DEF Starters, Processes

\* TypeOK in parts.
FlagsTyped ==
    /\ desired_running \in BOOLEAN /\ core_ready \in BOOLEAN /\ use_service_mode \in BOOLEAN
    /\ recovery_scheduled \in BOOLEAN /\ proxy_initialized \in BOOLEAN /\ initializing \in BOOLEAN
    /\ service_core \in BOOLEAN /\ unmanaged \in BOOLEAN /\ enable_service_mode \in BOOLEAN
    /\ gave_up \in BOOLEAN

WorldTyped ==
    /\ generation \in Nat /\ active_generation \in 0..generation /\ sidecar \in 0..generation
    /\ alive \subseteq 1..generation /\ exited \subseteq 1..generation
    /\ handling \subseteq 1..generation

RecordsTyped ==
    /\ monitors \subseteq [generation : 1..generation, failures : 0..2, probing : BOOLEAN]
    /\ saved \in [desired : BOOLEAN, ready : BOOLEAN, generation : 0..generation,
                  service : BOOLEAN, active : BOOLEAN, rolling : BOOLEAN]

TasksTyped ==
    /\ core_operation \in Processes \cup {Free} /\ pc \in [Processes -> Places]
    /\ faults \in 0..MaxFaults

LEMMA Types ==
  /\ TypeOK <=> FlagsTyped /\ WorldTyped /\ RecordsTyped /\ TasksTyped
  /\ TypeOK' <=> FlagsTyped' /\ WorldTyped' /\ RecordsTyped' /\ TasksTyped'
  BY DEF TypeOK, FlagsTyped, WorldTyped, RecordsTyped, TasksTyped

\* A fault is counted.
LEMMA FaultTyped == faults \in 0..MaxFaults /\ (Fault \/ UNCHANGED faults) => faults' \in 0..MaxFaults
  BY CoreManagerAssumption DEF Fault

\* A start of the monitor adds one task and takes none of another generation away.
LEMMA MonitorStarted ==
  ASSUME NEW g \in 1..generation, StartMonitor(g, 0), TypeOK, generation' = generation
  PROVE  /\ monitors' \subseteq [generation : 1..generation, failures : 0..2, probing : BOOLEAN]
         /\ \A m \in monitors' : m \in monitors \/ m.generation = g
  <1> DEFINE kept == {m \in monitors : m.generation # g \/ m.probing}
             new  == [generation |-> g, failures |-> 0, probing |-> FALSE]
  <1>1. new \in [generation : 1..generation, failures : 0..2, probing : BOOLEAN] /\ new.generation = g
    OBVIOUS
  <1>2. monitors' = kept \cup {new}
    BY DEF StartMonitor
  <1>3. kept \subseteq monitors
    OBVIOUS
  <1>4. monitors \subseteq [generation : 1..generation, failures : 0..2, probing : BOOLEAN]
    BY DEF TypeOK
  <1> QED
    BY <1>1, <1>2, <1>3, <1>4

\* The child in the slot is the only process, so killing it leaves none.
LEMMA Killed ==
  ASSUME SidecarOK, KillSidecar, exited \subseteq 1..generation, alive \subseteq 1..generation
  PROVE  alive' = {} /\ exited' \subseteq 1..generation /\ sidecar' = 0 /\ exited' = exited \cup alive
  BY DEF SidecarOK, AliveIsOwned, KillSidecar

\* Asking for a recovery changes no program counter but that of a free slot.
LEMMA Asks ==
  ASSUME NEW at \in [Processes -> Places], ScheduleRecovery(at) \/ NoRecovery(at),
         recovery_scheduled \in BOOLEAN
  PROVE  /\ pc' \in [Processes -> Places]
         /\ recovery_scheduled' \in BOOLEAN
         /\ \A p \in Processes : \/ pc'[p] = at[p]
                                 \/ p \in Recoverers /\ at[p] = "idle" /\ pc'[p] = "loop"
  BY Roles DEF ScheduleRecovery, NoRecovery, Places

\* The flag lets one recovery through.
LEMMA AsksOnce ==
  ASSUME NEW at \in [Processes -> Places], ScheduleRecovery(at) \/ NoRecovery(at),
         \A r, s \in Recoverers :
            /\ at[r] \notin {"idle", "after"} => recovery_scheduled
            /\ at[r] \notin {"idle", "after"} /\ at[s] \notin {"idle", "after"} => r = s
  PROVE  RecoveryIsSingle'
  <1>1. CASE ScheduleRecovery(at) /\ ~recovery_scheduled
    <2>1. PICK r \in Recoverers : at[r] = "idle" /\ pc' = [at EXCEPT ![r] = "loop"]
      BY <1>1 DEF ScheduleRecovery
    <2>2. \A s \in Recoverers : s # r => pc'[s] \in {"idle", "after"}
      BY <1>1, <2>1, Roles
    <2>3. recovery_scheduled'
      BY <1>1 DEF ScheduleRecovery
    <2> QED
      BY <2>2, <2>3 DEF RecoveryIsSingle
  <1>2. CASE NoRecovery(at) \/ recovery_scheduled
    <2>1. pc' = at /\ (recovery_scheduled => recovery_scheduled')
      BY <1>2 DEF ScheduleRecovery, NoRecovery
    <2> QED
      BY <2>1 DEF RecoveryIsSingle
  <1> QED
    BY <1>1, <1>2

\* A task moves on.
LEMMA GotoMoves ==
  ASSUME TypeOK, NEW p \in Processes, NEW place \in Places, Goto(p, place)
  PROVE  /\ pc' \in [Processes -> Places]
         /\ pc'[p] = place /\ \A q \in Processes : q # p => pc'[q] = pc[q]
  BY DEF TypeOK, Goto

-----------------------------------------------------------------------------
(* The parts of the invariant that many actions leave alone.               *)

\* What the world's part of the invariant is about, but for the counters.
world == <<alive, exited, handling, sidecar, generation, active_generation, monitors,
           use_service_mode>>

\* Nobody begins a start's later steps, and the world stays as it is.
LEMMA WorldStays ==
  ASSUME SidecarOK, StartOK, ModeOK, UNCHANGED world,
         \A p \in Starters : pc'[p] \in {"kill", "settle", "service", "undo", "spawn"} => pc'[p] = pc[p],
         pc[Exit] = "stop" => pc'[Exit] = "stop"
  PROVE  SidecarOK' /\ StartOK' /\ ModeOK'
  <1>1. SidecarOK' /\ ModeOK'
    BY DEF world, SidecarOK, AliveIsOwned, ModeOK
  <1>2. StartOK'
    <2> SUFFICES ASSUME NEW p \in Starters PROVE StartAt(p)'
      BY DEF StartOK
    <2>1. StartAt(p)
      BY DEF StartOK
    <2> QED
      BY <2>1 DEF world, StartAt
  <1> QED
    BY <1>1, <1>2

\* The update goes on as it was.
LEMMA SavedStays ==
  ASSUME SavedOK, UNCHANGED <<saved, generation, active_generation, use_service_mode>>,
         alive' \subseteq alive,
         pc'[Upgrader] \in {"upgrade", "restore", "store"} => pc'[Upgrader] = pc[Upgrader]
  PROVE  SavedOK'
  BY DEF SavedOK

\* A task that does not hold the mutex, nor takes it, moves on.
LEMMA Outside ==
  ASSUME ControlOK, UNCHANGED <<core_operation, unmanaged>>,
         pc'[Exit] = "stop" => pc[Exit] = "stop",
         pc'[Upgrader] = pc[Upgrader], pc'[Boot] = "idle" => pc[Boot] = "idle",
         \A p \in Starters : pc'[p] = pc[p] \/ pc'[p] \notin Held \cup {"report"}
  PROVE  ControlOK'
  BY DEF ControlOK

\* The wish, when neither it nor the update nor the program's end is touched.
LEMMA WishStays ==
  ASSUME WishOK, UNCHANGED <<desired_running, gave_up, saved>>,
         pc'[Upgrader] = pc[Upgrader], pc[Boot] = "idle" => pc'[Boot] = "idle",
         pc'[Exit] \in {"idle", "lock"} => pc[Exit] \in {"idle", "lock"},
         core_operation' = Upgrader <=> core_operation = Upgrader
  PROVE  WishOK'
  BY DEF WishOK, Starting

LEMMA WantedStays ==
  ASSUME RecoveryIsWanted, UNCHANGED desired_running,
         \A r \in Recoverers : pc'[r] \in StartPlaces => pc[r] \in StartPlaces
  PROVE  RecoveryIsWanted'
  BY DEF RecoveryIsWanted, Starting

LEMMA SingleStays ==
  ASSUME RecoveryIsSingle, UNCHANGED recovery_scheduled,
         \A r \in Recoverers : pc'[r] \notin {"idle", "after"} => pc[r] \notin {"idle", "after"}
  PROVE  RecoveryIsSingle'
  BY DEF RecoveryIsSingle

-----------------------------------------------------------------------------
(* start_core_locked.                                                      *)

\* Whoever is under way in start_core_locked holds the mutex and is alone there.
LEMMA StartMoves ==
  ASSUME IInv, NEW p \in Starters, pc[p] \in StartPlaces,
         NEW place \in StartPlaces \cup {"started", "failed"}, Goto(p, place),
         UNCHANGED <<core_operation, desired_running, recovery_scheduled, gave_up, saved, unmanaged>>
  PROVE  /\ pc' \in [Processes -> Places] /\ pc'[p] = place
         /\ core_operation = p /\ \A q \in Starters : q # p => pc'[q] \notin Held
         /\ pc'[Exit] = pc[Exit] /\ pc[Exit] # "stop"
         /\ ControlOK' /\ SavedOK' /\ WishOK' /\ RecoveryOK'
  <1>1. core_operation = p /\ p \in Processes /\ p # Exit
    BY Roles DEF IInv, ControlOK, Held
  <1>2. /\ place \in Places /\ place \in Held /\ pc[p] \in Held
        /\ place \notin {"idle", "after", "report", "upgrade", "restore", "store", "replace",
                         "rollback", "done"}
        /\ pc[p] \notin {"idle", "after", "report", "replace", "rollback", "done"}
    BY DEF Places, Held, StartPlaces
  <1>3. /\ pc' \in [Processes -> Places] /\ pc'[p] = place
        /\ \A q \in Processes : q # p => pc'[q] = pc[q]
    BY <1>1, <1>2, GotoMoves DEF IInv
  <1>4. \A q \in Starters : q # p => pc'[q] = pc[q] /\ pc[q] \notin Held
    BY <1>1, <1>3, Roles DEF IInv, ControlOK
  <1>5. pc'[Exit] = pc[Exit] /\ pc[Exit] # "stop"
    BY <1>1, <1>3, Roles DEF IInv, ControlOK
  <1>6. ControlOK'
    BY <1>1, <1>2, <1>3, <1>4, <1>5, Roles DEF IInv, ControlOK
  <1>7. SavedOK'
    <2>1. pc'[Upgrader] \notin {"upgrade", "restore", "store"}
      BY <1>2, <1>3, <1>4, Roles DEF Held
    <2> QED
      BY <2>1 DEF IInv, SavedOK
  <1>8. WishOK'
    BY <1>1, <1>2, <1>3, <1>4, <1>5, Roles DEF IInv, WishOK, Starting, Held
  <1>9. RecoveryIsSingle'
    BY <1>2, <1>3, <1>4, Roles DEF IInv, RecoveryOK, RecoveryIsSingle
  <1>10. RecoveryIsWanted'
    <2>1. SUFFICES ASSUME NEW r \in Recoverers, pc'[r] \in StartPlaces PROVE pc[r] \in StartPlaces
      BY WantedStays DEF IInv, RecoveryOK
    <2> QED
      BY <1>4, <2>1, Roles
  <1> QED
    BY <1>1, <1>3, <1>4, <1>5, <1>6, <1>7, <1>8, <1>9, <1>10 DEF RecoveryOK

\* The others are outside, so only the start's own place counts.
LEMMA StartAlone ==
  ASSUME NEW p \in Starters, \A q \in Starters : q # p => pc'[q] \notin Held, StartAt(p)'
  PROVE  StartOK'
  <1> SUFFICES ASSUME NEW q \in Starters, q # p PROVE StartAt(q)'
    BY DEF StartOK
  <1> QED
    BY DEF StartAt, Held, StartPlaces

LEMMA StartNoConfigKeeps ==
  ASSUME IInv, NEW p \in Starters, StartNoConfig(p)
  PROVE  IInv'
  <1>1. /\ pc[p] = "begin" /\ Goto(p, "failed") /\ UNCHANGED world /\ (Fault \/ UNCHANGED faults)
        /\ UNCHANGED <<desired_running, recovery_scheduled, gave_up, saved, core_operation>>
        /\ UNCHANGED <<core_ready, proxy_initialized, initializing, enable_service_mode>>
        /\ UNCHANGED <<service_core, unmanaged>>
    BY DEF StartNoConfig, world, stateVars, worldVars, taskVars, constVars
  <1>2. /\ pc' \in [Processes -> Places] /\ pc'[p] = "failed" /\ pc'[Exit] = pc[Exit]
        /\ \A q \in Starters : q # p => pc'[q] \notin Held
        /\ ControlOK' /\ SavedOK' /\ WishOK' /\ RecoveryOK'
    BY <1>1, StartMoves DEF StartPlaces
  <1>3. TypeOK'
    BY <1>1, <1>2, FaultTyped DEF IInv, TypeOK, world
  <1>4. StartOK' /\ SidecarOK' /\ ModeOK'
    <2>1. \A q \in Starters : pc'[q] \notin {"kill", "settle", "service", "undo", "spawn"}
      BY <1>2 DEF Held, StartPlaces
    <2> QED
      BY <1>1, <1>2, <2>1, WorldStays DEF IInv
  <1> QED
    BY <1>2, <1>3, <1>4 DEF IInv

LEMMA StartBeginKeeps ==
  ASSUME IInv, NEW p \in Starters, StartBegin(p)
  PROVE  IInv'
  <1>1. /\ pc[p] = "begin" /\ Goto(p, "kill")
        /\ core_ready' = FALSE /\ generation' = generation + 1 /\ active_generation' = generation + 1
        /\ UNCHANGED <<desired_running, recovery_scheduled, gave_up, saved, core_operation>>
        /\ UNCHANGED <<proxy_initialized, initializing, enable_service_mode, faults>>
        /\ UNCHANGED <<service_core, unmanaged, sidecar, use_service_mode, monitors>>
        /\ UNCHANGED <<alive, exited, handling>>
    BY DEF StartBegin, worldVars, taskVars, constVars
  <1>3. generation \in Nat /\ 1..generation \subseteq 1..generation' /\ 0..generation \subseteq 0..generation'
        /\ generation' \in Nat
    BY <1>1 DEF IInv, TypeOK
  <1>5. generation' \notin alive \cup exited \cup handling
        /\ \A m \in monitors : m.generation # generation'
    BY <1>1 DEF IInv, TypeOK
  <1>2. /\ pc' \in [Processes -> Places] /\ pc'[p] = "kill" /\ pc'[Exit] = pc[Exit]
        /\ \A q \in Starters : q # p => pc'[q] \notin Held
        /\ ControlOK' /\ WishOK' /\ RecoveryOK' /\ SavedOK'
    BY <1>1, StartMoves DEF StartPlaces
  <1>4. TypeOK'
    <2>1. saved' \in [desired : BOOLEAN, ready : BOOLEAN, generation : 0..generation',
                      service : BOOLEAN, active : BOOLEAN, rolling : BOOLEAN]
      BY <1>1, <1>3 DEF IInv, TypeOK
    <2>2. monitors' \subseteq [generation : 1..generation', failures : 0..2, probing : BOOLEAN]
      BY <1>1, <1>3 DEF IInv, TypeOK
    <2>3. /\ alive' \subseteq 1..generation' /\ exited' \subseteq 1..generation'
          /\ handling' \subseteq 1..generation' /\ sidecar' \in 0..generation'
          /\ active_generation' \in 0..generation'
      BY <1>1, <1>3 DEF IInv, TypeOK
    <2> QED
      BY <1>1, <1>2, <1>3, <2>1, <2>2, <2>3 DEF IInv, TypeOK
  <1>6. SidecarOK'
    BY <1>1, <1>3, <1>5 DEF IInv, SidecarOK, AliveIsOwned
  <1>7. StartAt(p)'
    BY <1>1, <1>2, <1>3, <1>5 DEF StartAt
  <1>8. ModeOK'
    BY <1>1, <1>5 DEF IInv, ModeOK
  <1> QED
    BY <1>2, <1>4, <1>6, <1>7, <1>8, StartAlone DEF IInv

LEMMA StartKillKeeps ==
  ASSUME IInv, NEW p \in Starters, StartKill(p)
  PROVE  IInv'
  <1>1. /\ pc[p] = "kill" /\ Goto(p, "settle") /\ KillSidecar
        /\ service_core' \in BOOLEAN /\ (Fault \/ UNCHANGED faults)
        /\ UNCHANGED <<desired_running, recovery_scheduled, gave_up, saved, core_operation>>
        /\ UNCHANGED <<core_ready, proxy_initialized, initializing, enable_service_mode>>
        /\ UNCHANGED <<generation, active_generation, unmanaged, use_service_mode, monitors, handling>>
    BY DEF StartKill, StopByService, taskVars, constVars, IInv, TypeOK
  <1>2. /\ pc' \in [Processes -> Places] /\ pc'[p] = "settle" /\ pc'[Exit] = pc[Exit]
        /\ \A q \in Starters : q # p => pc'[q] \notin Held
        /\ ControlOK' /\ SavedOK' /\ WishOK' /\ RecoveryOK'
    BY <1>1, StartMoves DEF StartPlaces
  <1>3. alive' = {} /\ exited' \subseteq 1..generation /\ sidecar' = 0 /\ exited' = exited \cup alive
    BY <1>1, Killed DEF IInv, TypeOK
  <1>4. TypeOK'
    BY <1>1, <1>2, <1>3, FaultTyped DEF IInv, TypeOK
  <1>5. SidecarOK' /\ ModeOK'
    BY <1>1, <1>3 DEF IInv, SidecarOK, AliveIsOwned, ModeOK
  <1>6. StartAt(p)'
    BY <1>1, <1>2, <1>3 DEF IInv, StartOK, StartAt
  <1> QED
    BY <1>2, <1>4, <1>5, <1>6, StartAlone DEF IInv

LEMMA StartSettleKeeps ==
  ASSUME IInv, NEW p \in Starters, StartSettle(p)
  PROVE  IInv'
  <1>1. /\ pc[p] = "settle" /\ handling = {} /\ use_service_mode' = enable_service_mode
        /\ Goto(p, IF enable_service_mode THEN "service" ELSE "spawn")
        /\ UNCHANGED <<desired_running, recovery_scheduled, gave_up, saved, core_operation>>
        /\ UNCHANGED <<core_ready, proxy_initialized, initializing, enable_service_mode, faults>>
        /\ UNCHANGED <<generation, active_generation, unmanaged, service_core, monitors, handling>>
        /\ UNCHANGED <<alive, exited, sidecar>>
    BY DEF StartSettle, stateVars, worldVars, taskVars, constVars
  <1>2. /\ pc' \in [Processes -> Places] /\ pc'[Exit] = pc[Exit]
        /\ pc'[p] = IF enable_service_mode THEN "service" ELSE "spawn"
        /\ \A q \in Starters : q # p => pc'[q] \notin Held
        /\ ControlOK' /\ SavedOK' /\ WishOK' /\ RecoveryOK'
    BY <1>1, StartMoves DEF StartPlaces
  <1>3. StartAt(p) /\ alive = {}
    BY <1>1 DEF IInv, StartOK, StartAt
  <1>4. TypeOK'
    BY <1>1, <1>2 DEF IInv, TypeOK
  <1>5. SidecarOK' /\ ModeOK'
    BY <1>1, <1>3 DEF IInv, SidecarOK, AliveIsOwned, ModeOK
  <1>6. StartAt(p)'
    BY <1>1, <1>2, <1>3 DEF StartAt
  <1> QED
    BY <1>2, <1>4, <1>5, <1>6, StartAlone DEF IInv

LEMMA StartServiceOkKeeps ==
  ASSUME IInv, NEW p \in Starters, StartServiceOk(p)
  PROVE  IInv'
  <1>1. /\ pc[p] = "service" /\ Goto(p, "started") /\ StartMonitor(generation, 0)
        /\ core_ready' = TRUE /\ service_core' = TRUE
        /\ UNCHANGED <<desired_running, recovery_scheduled, gave_up, saved, core_operation>>
        /\ UNCHANGED <<proxy_initialized, initializing, enable_service_mode, faults>>
        /\ UNCHANGED <<generation, active_generation, unmanaged, use_service_mode, handling>>
        /\ UNCHANGED <<alive, exited, sidecar>>
    BY DEF StartServiceOk, constVars
  <1>2. /\ pc' \in [Processes -> Places] /\ pc'[p] = "started" /\ pc'[Exit] = pc[Exit]
        /\ \A q \in Starters : q # p => pc'[q] \notin Held
        /\ ControlOK' /\ SavedOK' /\ WishOK' /\ RecoveryOK'
    BY <1>1, StartMoves DEF StartPlaces
  <1>3. StartAt(p) /\ alive = {} /\ generation \in 1..generation
    BY <1>1 DEF IInv, StartOK, StartAt, TypeOK
  <1>4. monitors' \subseteq [generation : 1..generation, failures : 0..2, probing : BOOLEAN]
    BY <1>1, <1>3, MonitorStarted DEF IInv
  <1>5. TypeOK'
    BY <1>1, <1>2, <1>4 DEF IInv, TypeOK
  <1>6. SidecarOK' /\ ModeOK'
    BY <1>1, <1>3 DEF IInv, SidecarOK, AliveIsOwned, ModeOK
  <1>7. StartAt(p)'
    BY <1>2 DEF StartAt
  <1> QED
    BY <1>2, <1>5, <1>6, <1>7, StartAlone DEF IInv

LEMMA StartServiceErrKeeps ==
  ASSUME IInv, NEW p \in Starters, StartServiceErr(p) \/ StartServiceUndo(p)
  PROVE  IInv'
  <1>1. /\ pc[p] \in {"service", "undo"}
        /\ \E place \in {"undo", "failed"} : Goto(p, place)
        /\ core_ready' \in BOOLEAN /\ service_core' \in BOOLEAN /\ (Fault \/ UNCHANGED faults)
        /\ active_generation' \in {0, active_generation}
        /\ UNCHANGED <<desired_running, recovery_scheduled, gave_up, saved, core_operation>>
        /\ UNCHANGED <<proxy_initialized, initializing, enable_service_mode, monitors>>
        /\ UNCHANGED <<generation, unmanaged, use_service_mode, handling>>
        /\ UNCHANGED <<alive, exited, sidecar>>
    BY DEF StartServiceErr, StartServiceUndo, StopByService, stateVars, taskVars, constVars, IInv, TypeOK
  <1>2. PICK place \in {"undo", "failed"} : Goto(p, place)
    BY <1>1
  <1>3. /\ pc' \in [Processes -> Places] /\ pc'[p] = place /\ pc'[Exit] = pc[Exit]
        /\ \A q \in Starters : q # p => pc'[q] \notin Held
        /\ ControlOK' /\ SavedOK' /\ WishOK' /\ RecoveryOK'
    BY <1>1, <1>2, StartMoves DEF StartPlaces
  <1>4. alive = {}
    BY <1>1 DEF IInv, StartOK, StartAt
  <1>5. TypeOK'
    BY <1>1, <1>3, FaultTyped DEF IInv, TypeOK
  <1>6. SidecarOK' /\ ModeOK'
    BY <1>1, <1>4 DEF IInv, SidecarOK, AliveIsOwned, ModeOK
  <1>7. StartAt(p)'
    BY <1>1, <1>3, <1>4 DEF StartAt
  <1> QED
    BY <1>3, <1>5, <1>6, <1>7, StartAlone DEF IInv

LEMMA StartSpawnKeeps ==
  ASSUME IInv, NEW p \in Starters, StartSpawn(p)
  PROVE  IInv'
  <1>1. /\ pc[p] = "spawn" /\ Goto(p, "wait")
        /\ alive' = alive \cup {generation} /\ sidecar' = generation
        /\ UNCHANGED <<desired_running, recovery_scheduled, gave_up, saved, core_operation>>
        /\ UNCHANGED <<core_ready, proxy_initialized, initializing, enable_service_mode, monitors>>
        /\ UNCHANGED <<generation, active_generation, unmanaged, use_service_mode, handling>>
        /\ UNCHANGED <<exited, service_core, faults>>
    BY DEF StartSpawn, taskVars, constVars
  <1>2. /\ pc' \in [Processes -> Places] /\ pc'[p] = "wait" /\ pc'[Exit] = pc[Exit]
        /\ \A q \in Starters : q # p => pc'[q] \notin Held
        /\ ControlOK' /\ SavedOK' /\ WishOK' /\ RecoveryOK'
    BY <1>1, StartMoves DEF StartPlaces
  <1>3. /\ alive = {} /\ generation # 0 /\ active_generation = generation
        /\ generation \notin exited \cup handling /\ ~use_service_mode /\ handling = {}
        /\ \A m \in monitors : m.generation # generation
    BY <1>1 DEF IInv, StartOK, StartAt
  <1>4. TypeOK'
    BY <1>1, <1>2, <1>3 DEF IInv, TypeOK
  <1>5. SidecarOK' /\ ModeOK'
    BY <1>1, <1>3 DEF SidecarOK, AliveIsOwned, ModeOK
  <1>6. StartAt(p)'
    BY <1>2 DEF StartAt
  <1> QED
    BY <1>2, <1>4, <1>5, <1>6, StartAlone DEF IInv

LEMMA StartSpawnErrKeeps ==
  ASSUME IInv, NEW p \in Starters, StartSpawnErr(p)
  PROVE  IInv'
  <1>1. /\ pc[p] = "spawn" /\ Goto(p, "failed") /\ active_generation' = 0 /\ Fault
        /\ UNCHANGED <<desired_running, recovery_scheduled, gave_up, saved, core_operation>>
        /\ UNCHANGED <<core_ready, proxy_initialized, initializing, enable_service_mode, monitors>>
        /\ UNCHANGED <<generation, unmanaged, use_service_mode, handling>>
        /\ UNCHANGED <<alive, exited, sidecar, service_core>>
    BY DEF StartSpawnErr, worldVars, taskVars, constVars
  <1>2. /\ pc' \in [Processes -> Places] /\ pc'[p] = "failed" /\ pc'[Exit] = pc[Exit]
        /\ \A q \in Starters : q # p => pc'[q] \notin Held
        /\ ControlOK' /\ SavedOK' /\ WishOK' /\ RecoveryOK'
    BY <1>1, StartMoves DEF StartPlaces
  <1>3. alive = {}
    BY <1>1 DEF IInv, StartOK, StartAt
  <1>4. TypeOK'
    BY <1>1, <1>2, FaultTyped DEF IInv, TypeOK
  <1>5. SidecarOK' /\ ModeOK'
    BY <1>1, <1>3 DEF IInv, SidecarOK, AliveIsOwned, ModeOK
  <1>6. StartAt(p)'
    BY <1>2 DEF StartAt
  <1> QED
    BY <1>2, <1>4, <1>5, <1>6, StartAlone DEF IInv

LEMMA StartWaitErrKeeps ==
  ASSUME IInv, NEW p \in Starters, StartWaitErr(p)
  PROVE  IInv'
  <1>1. /\ pc[p] = "wait" /\ Goto(p, "failed") /\ core_ready' \in BOOLEAN /\ (Fault \/ UNCHANGED faults)
        /\ \/ active_generation' = 0 /\ KillSidecar
           \/ UNCHANGED <<active_generation, sidecar, alive, exited>>
        /\ UNCHANGED <<desired_running, recovery_scheduled, gave_up, saved, core_operation>>
        /\ UNCHANGED <<proxy_initialized, initializing, enable_service_mode, monitors>>
        /\ UNCHANGED <<generation, unmanaged, use_service_mode, handling, service_core>>
    BY DEF StartWaitErr, taskVars, constVars
  <1>2. /\ pc' \in [Processes -> Places] /\ pc'[p] = "failed" /\ pc'[Exit] = pc[Exit]
        /\ \A q \in Starters : q # p => pc'[q] \notin Held
        /\ ControlOK' /\ SavedOK' /\ WishOK' /\ RecoveryOK'
    BY <1>1, StartMoves DEF StartPlaces
  <1>3. \/ /\ active_generation' = 0 /\ alive' = {} /\ exited' \subseteq 1..generation /\ sidecar' = 0
           /\ exited' = exited \cup alive
        \/ UNCHANGED <<active_generation, sidecar, alive, exited>>
    BY <1>1, Killed DEF IInv, TypeOK
  <1>4. TypeOK'
    <2>1. active_generation' \in 0..generation /\ sidecar' \in 0..generation
      BY <1>3 DEF IInv, TypeOK
    <2>2. alive' \subseteq 1..generation /\ exited' \subseteq 1..generation
      BY <1>3 DEF IInv, TypeOK
    <2>3. faults' \in 0..MaxFaults
      BY <1>1, FaultTyped DEF IInv, TypeOK
    <2>4. UNCHANGED <<desired_running, recovery_scheduled, gave_up, saved, core_operation,
                      proxy_initialized, initializing, enable_service_mode, monitors,
                      generation, unmanaged, use_service_mode, handling, service_core>>
          /\ core_ready' \in BOOLEAN
      BY <1>1
    <2>5. FlagsTyped' /\ WorldTyped' /\ RecordsTyped' /\ TasksTyped'
      BY <1>2, <2>1, <2>2, <2>3, <2>4, Types
         DEF IInv, FlagsTyped, WorldTyped, RecordsTyped, TasksTyped
    <2> QED
      BY <2>5, Types
  <1>5. SidecarOK' /\ ModeOK'
    BY <1>1, <1>2, <1>3 DEF IInv, SidecarOK, AliveIsOwned, ModeOK
  <1>6. StartAt(p)'
    BY <1>2 DEF StartAt
  <1> QED
    BY <1>2, <1>4, <1>5, <1>6, StartAlone DEF IInv

LEMMA StartReadyKeeps ==
  ASSUME IInv, NEW p \in Starters, StartWaitOk(p) \/ StartConfirm(p)
  PROVE  IInv'
  <1>1. /\ pc[p] \in {"wait", "confirm"}
        /\ \E place \in {"confirm", "failed", "started"} : Goto(p, place)
        /\ UNCHANGED world /\ core_ready' \in BOOLEAN
        /\ UNCHANGED <<desired_running, recovery_scheduled, gave_up, saved, core_operation>>
        /\ UNCHANGED <<proxy_initialized, initializing, enable_service_mode, faults>>
        /\ UNCHANGED <<service_core, unmanaged>>
    BY DEF StartWaitOk, StartConfirm, world, stateVars, worldVars, taskVars, constVars, IInv, TypeOK
  <1>2. PICK place \in {"confirm", "failed", "started"} : Goto(p, place)
    BY <1>1
  <1>3. /\ pc' \in [Processes -> Places] /\ pc'[p] = place /\ pc'[Exit] = pc[Exit]
        /\ \A q \in Starters : q # p => pc'[q] \notin Held
        /\ ControlOK' /\ SavedOK' /\ WishOK' /\ RecoveryOK'
    BY <1>1, <1>2, StartMoves DEF StartPlaces
  <1>4. TypeOK'
    BY <1>1, <1>3 DEF IInv, TypeOK, world
  <1>5. StartOK' /\ SidecarOK' /\ ModeOK'
    <2>1. \A q \in Starters : pc'[q] \notin {"kill", "settle", "service", "undo", "spawn"}
      BY <1>3 DEF Held, StartPlaces
    <2> QED
      BY <1>1, <1>3, <2>1, WorldStays DEF IInv
  <1> QED
    BY <1>3, <1>4, <1>5 DEF IInv

LEMMA StartSteps ==
  ASSUME IInv, NEW p \in Starters, StartStep(p)
  PROVE  IInv'
  BY StartNoConfigKeeps, StartBeginKeeps, StartKillKeeps, StartSettleKeeps, StartServiceOkKeeps,
     StartServiceErrKeeps, StartSpawnKeeps, StartSpawnErrKeeps, StartWaitErrKeeps, StartReadyKeeps
     DEF StartStep

-----------------------------------------------------------------------------
(* run_core and the mutex.                                                 *)

LEMMA RunCoreKeeps ==
  ASSUME IInv, NEW p \in Starters, RunCore(p)
  PROVE  IInv'
  <1>1. /\ p \in {Boot} \cup Callers /\ pc[p] = "idle" /\ Goto(p, "lock")
        /\ desired_running' = TRUE /\ enable_service_mode' \in BOOLEAN
        /\ UNCHANGED world
        /\ UNCHANGED <<recovery_scheduled, gave_up, saved, core_operation>>
        /\ UNCHANGED <<core_ready, proxy_initialized, initializing, faults>>
        /\ UNCHANGED <<service_core, unmanaged>>
    BY CoreManagerAssumption DEF RunCore, world, worldVars, taskVars, IInv, TypeOK
  <1>2. pc[Boot] # "idle" \/ p = Boot
    BY DEF RunCore
  <1>3. /\ pc' \in [Processes -> Places] /\ pc'[p] = "lock" /\ p \in Processes
        /\ \A q \in Processes : q # p => pc'[q] = pc[q]
    BY <1>1, GotoMoves, Roles DEF Places, IInv
  <1>4. p # Upgrader /\ p # Exit /\ p \notin Recoverers
    BY <1>1, Roles
  <1>5. pc'[Exit] = pc[Exit] /\ pc'[Upgrader] = pc[Upgrader] /\ pc'[Boot] # "idle"
    BY <1>2, <1>3, <1>4, Roles
  <1>6. TypeOK'
    BY <1>1, <1>3 DEF IInv, TypeOK, world
  <1>7. ControlOK'
    <2>1. \A q \in Starters : pc'[q] = pc[q] \/ pc'[q] \notin Held \cup {"report"}
      BY <1>3, Roles DEF Held, StartPlaces
    <2> QED
      BY <1>1, <1>5, <2>1, Outside DEF IInv
  <1>8. SidecarOK' /\ StartOK' /\ ModeOK' /\ SavedOK'
    <2>1. \A q \in Starters : pc'[q] \in {"kill", "settle", "service", "undo", "spawn"} => pc'[q] = pc[q]
      BY <1>3, Roles
    <2> QED
      BY <1>1, <1>5, <2>1, WorldStays, SavedStays DEF IInv, world
  <1>9. WishOK'
    <2>1. pc[Boot] = "idle" => core_operation # Upgrader
      BY DEF IInv, ControlOK, Held, StartPlaces
    <2> QED
      BY <1>1, <1>5, <2>1 DEF IInv, WishOK
  <1>10. RecoveryOK'
    BY <1>1, <1>3, <1>4, Roles DEF IInv, RecoveryOK, RecoveryIsSingle, RecoveryIsWanted
  <1> QED
    BY <1>6, <1>7, <1>8, <1>9, <1>10 DEF IInv

\* The mutex is granted, to a recovery that still has a core to start.
LEMMA AcquireKeeps ==
  ASSUME IInv, NEW p \in Starters, p # Upgrader, pc[p] = "lock", core_operation = Free,
         core_operation' = p, Goto(p, "begin"), p \in Recoverers => desired_running,
         UNCHANGED <<stateVars, generation, use_service_mode, worldVars, handling, taskVars,
                     constVars, faults>>
  PROVE  IInv'
  <1>1. UNCHANGED <<world, desired_running, recovery_scheduled, gave_up, saved, unmanaged>>
    BY DEF world, stateVars, worldVars, taskVars, constVars
  <1>2. /\ pc' \in [Processes -> Places] /\ pc'[p] = "begin" /\ p \in Processes
        /\ \A q \in Processes : q # p => pc'[q] = pc[q]
    BY GotoMoves, Roles DEF Places, StartPlaces, IInv
  <1>3. pc'[Exit] = pc[Exit] /\ pc'[Upgrader] = pc[Upgrader] /\ (pc'[Boot] = "idle" <=> pc[Boot] = "idle")
    BY <1>2, Roles
  <1>4. TypeOK'
    BY <1>2 DEF IInv, TypeOK, stateVars, worldVars, taskVars, constVars
  <1>5. ControlOK'
    <2>1. \A q \in Starters : pc[q] \notin Held
      BY Roles DEF IInv, ControlOK
    <2>2. pc[Exit] # "stop"
      BY Roles DEF IInv, ControlOK
    <2> QED
      BY <1>1, <1>2, <1>3, <2>1, <2>2, Roles DEF IInv, ControlOK
  <1>6. SidecarOK' /\ StartOK' /\ ModeOK' /\ SavedOK'
    <2>1. \A q \in Starters : pc'[q] \in {"kill", "settle", "service", "undo", "spawn"} => pc'[q] = pc[q]
      BY <1>2, Roles
    <2> QED
      BY <1>1, <1>3, <2>1, WorldStays, SavedStays DEF IInv, world
  <1>7. WishOK'
    BY <1>1, <1>3, Roles, WishStays DEF IInv
  <1>8. RecoveryOK'
    BY <1>1, <1>2, Roles DEF IInv, RecoveryOK, RecoveryIsSingle, RecoveryIsWanted, Starting
  <1> QED
    BY <1>4, <1>5, <1>6, <1>7, <1>8 DEF IInv

\* A task moves on outside the mutex, or leaves it.
LEMMA LeaveKeeps ==
  ASSUME IInv, NEW p \in Starters, p # Upgrader, NEW place \in Places, Goto(p, place),
         place \notin Held, place \notin {"idle", "after"}, pc[p] \notin {"idle", "after"},
         place = "report" => p \in {Boot} \cup Callers,
         core_operation' = IF pc[p] \in Held THEN Free ELSE core_operation,
         initializing' \in BOOLEAN,
         UNCHANGED <<stateVars, generation, use_service_mode, worldVars, handling,
                     recovery_scheduled, proxy_initialized, monitors, constVars, faults>>
  PROVE  IInv'
  <1>1. UNCHANGED <<world, desired_running, recovery_scheduled, gave_up, saved, unmanaged>>
    BY DEF world, stateVars, worldVars, constVars
  <1>2. /\ pc' \in [Processes -> Places] /\ pc'[p] = place /\ p \in Processes
        /\ \A q \in Processes : q # p => pc'[q] = pc[q]
    BY GotoMoves, Roles DEF IInv
  <1>3. pc'[Exit] = pc[Exit] /\ pc'[Upgrader] = pc[Upgrader] /\ (pc'[Boot] = "idle" <=> pc[Boot] = "idle")
    BY <1>2, Roles
  <1>4. core_operation' \in Processes \cup {Free}
    BY DEF IInv, TypeOK
  <1>5. TypeOK'
    BY <1>2, <1>4 DEF IInv, TypeOK, stateVars, worldVars, constVars
  <1>6. ControlOK' /\ (core_operation' = Upgrader <=> core_operation = Upgrader)
    <2>1. \A q \in Starters : q # p /\ pc[p] \in Held => pc[q] \notin Held
      BY DEF IInv, ControlOK
    <2>2. pc[p] \in Held => pc[Exit] # "stop" /\ core_operation = p
      BY Roles DEF IInv, ControlOK
    <2> QED
      BY <1>1, <1>2, <1>3, <2>1, <2>2, Roles DEF IInv, ControlOK
  <1>7. SidecarOK' /\ StartOK' /\ ModeOK' /\ SavedOK'
    <2>1. \A q \in Starters : pc'[q] \in {"kill", "settle", "service", "undo", "spawn"} => pc'[q] = pc[q]
      BY <1>2, Roles DEF Held, StartPlaces
    <2> QED
      BY <1>1, <1>3, <2>1, WorldStays, SavedStays DEF IInv, world
  <1>8. WishOK'
    BY <1>1, <1>3, <1>6, WishStays DEF IInv
  <1>9. RecoveryIsSingle'
    <2>1. \A r \in Recoverers : pc'[r] \notin {"idle", "after"} => pc[r] \notin {"idle", "after"}
      BY <1>2, Roles
    <2> QED
      BY <1>1, <2>1, SingleStays DEF IInv, RecoveryOK
  <1>10. RecoveryIsWanted'
    <2>1. \A r \in Recoverers : pc'[r] \in StartPlaces => pc[r] \in StartPlaces
      BY <1>2, Roles DEF Held
    <2> QED
      BY <1>1, <2>1, WantedStays DEF IInv, RecoveryOK
  <1> QED
    BY <1>5, <1>6, <1>7, <1>8, <1>9, <1>10 DEF IInv, RecoveryOK

\* The steps of run_core and of the recovery task that take or leave the mutex, or
\* happen outside it.
LEMMA RunSteps ==
  ASSUME IInv, NEW p \in Starters, Acquire(p) \/ ReturnRun(p)
  PROVE  IInv'
  <1>1. CASE AcquireRun(p)
    BY <1>1, AcquireKeeps, Roles DEF AcquireRun
  <1>2. CASE RecoverAcquire(p)
    <2>1. CASE core_operation' = p /\ Goto(p, "begin") /\ desired_running
      BY <1>2, <2>1, AcquireKeeps, Roles DEF RecoverAcquire
    <2>2. CASE UNCHANGED core_operation /\ Goto(p, "stop")
      <3>1. pc[p] = "lock" /\ "lock" \notin Held /\ "stop" \notin Held /\ "stop" \in Places
        BY <1>2 DEF RecoverAcquire, Held, StartPlaces, Places
      <3>2. /\ p # Upgrader /\ initializing' \in BOOLEAN
            /\ UNCHANGED <<stateVars, generation, use_service_mode, worldVars, handling,
                           recovery_scheduled, proxy_initialized, monitors, constVars, faults>>
        BY <1>2, Roles DEF RecoverAcquire, taskVars, IInv, TypeOK
      <3> QED
        BY <2>2, <3>1, <3>2, LeaveKeeps
    <2> QED
      BY <1>2, <2>1, <2>2 DEF RecoverAcquire
  <1>3. CASE ReturnRun(p)
    <2>1. PICK place \in {"report", "done"} : Goto(p, place)
      BY <1>3 DEF ReturnRun
    <2>2. /\ pc[p] \in {"started", "failed"} /\ pc[p] \in Held /\ place \notin Held
          /\ place \in Places /\ p \in {Boot} \cup Callers
      BY <1>3 DEF ReturnRun, Held, StartPlaces, Places
    <2>3. /\ p # Upgrader /\ initializing' \in BOOLEAN /\ core_operation' = Free
          /\ UNCHANGED <<stateVars, generation, use_service_mode, worldVars, handling,
                         recovery_scheduled, proxy_initialized, monitors, constVars, faults>>
      BY <1>3, <2>2, Roles DEF ReturnRun, IInv, TypeOK
    <2> QED
      BY <2>1, <2>2, <2>3, LeaveKeeps
  <1> QED
    BY <1>1, <1>2, <1>3 DEF Acquire

LEMMA RecoverMoves ==
  ASSUME IInv, NEW r \in Recoverers, RecoverLoop(r) \/ RecoverWake(r) \/ RecoverReturn(r)
  PROVE  IInv'
  <1>1. PICK place \in {"sleep", "lock", "stop", "loop"} : Goto(r, place)
    BY DEF RecoverLoop, RecoverWake, RecoverReturn
  <1>2. /\ pc[r] \in {"loop", "sleep", "started", "failed"}
        /\ place \notin Held /\ place \in Places
        /\ pc[r] \in Held <=> pc[r] \in {"started", "failed"}
    BY DEF RecoverLoop, RecoverWake, RecoverReturn, Held, StartPlaces, Places
  <1>3. /\ r # Upgrader /\ r \in Starters /\ initializing' \in BOOLEAN
        /\ core_operation' = IF pc[r] \in Held THEN Free ELSE core_operation
        /\ UNCHANGED <<stateVars, generation, use_service_mode, worldVars, handling,
                       recovery_scheduled, proxy_initialized, monitors, constVars, faults>>
    BY <1>2, Roles DEF RecoverLoop, RecoverWake, RecoverReturn, taskVars, IInv, TypeOK
  <1> QED
    BY <1>1, <1>2, <1>3, LeaveKeeps

-----------------------------------------------------------------------------
(* Steps that may ask for a recovery.                                      *)

\* The step's own task moves to an end of its code, from a place outside the mutex.
LEMMA AskMoves ==
  ASSUME IInv, NEW at \in [Processes -> Places], ScheduleRecovery(at) \/ NoRecovery(at),
         \A q \in Starters : at[q] = pc[q] \/ at[q] \in {"done", "idle"},
         at[Exit] = pc[Exit], at[Upgrader] = pc[Upgrader], at[Boot] = "idle" <=> pc[Boot] = "idle",
         \A r \in Recoverers : at[r] \notin {"idle", "after"} => at[r] = pc[r],
         UNCHANGED <<core_operation, unmanaged, desired_running, gave_up, saved>>
  PROVE  /\ pc' \in [Processes -> Places] /\ recovery_scheduled' \in BOOLEAN
         /\ pc'[Exit] = pc[Exit] /\ pc'[Upgrader] = pc[Upgrader]
         /\ \A q \in Starters : pc'[q] = pc[q] \/ pc'[q] \in {"done", "idle", "loop"}
         /\ ControlOK' /\ WishOK' /\ RecoveryOK'
  <1>1. /\ pc' \in [Processes -> Places] /\ recovery_scheduled' \in BOOLEAN
        /\ \A p \in Processes : \/ pc'[p] = at[p]
                                \/ p \in Recoverers /\ at[p] = "idle" /\ pc'[p] = "loop"
    BY Asks DEF IInv, TypeOK
  <1>2. /\ pc'[Exit] = pc[Exit] /\ pc'[Upgrader] = pc[Upgrader]
        /\ pc'[Boot] = "idle" <=> pc[Boot] = "idle"
    BY <1>1, Roles
  <1>3. \A q \in Starters : pc'[q] = pc[q] \/ pc'[q] \in {"done", "idle", "loop"}
    BY <1>1, Roles
  <1>4. ControlOK'
    <2>1. \A q \in Starters : pc'[q] = pc[q] \/ pc'[q] \notin Held \cup {"report"}
      BY <1>3 DEF Held, StartPlaces
    <2> QED
      BY <1>2, <2>1, Outside DEF IInv
  <1>5. WishOK'
    BY <1>2, WishStays DEF IInv
  <1>6. RecoveryIsWanted'
    <2>1. \A r \in Recoverers : pc'[r] \in StartPlaces => pc[r] \in StartPlaces
      BY <1>3, Roles DEF StartPlaces
    <2> QED
      BY <2>1, WantedStays DEF IInv, RecoveryOK
  <1>7. RecoveryIsSingle'
    <2>1. \A r, s \in Recoverers :
             /\ at[r] \notin {"idle", "after"} => recovery_scheduled
             /\ at[r] \notin {"idle", "after"} /\ at[s] \notin {"idle", "after"} => r = s
      BY DEF IInv, RecoveryOK, RecoveryIsSingle
    <2> QED
      BY <2>1, AsksOnce
  <1> QED
    BY <1>1, <1>2, <1>3, <1>4, <1>5, <1>6, <1>7 DEF RecoveryOK

\* A step that asks, or not, and leaves the world as it is.
LEMMA AskKeeps ==
  ASSUME IInv, NEW p \in Starters, p # Upgrader, NEW place \in {"done", "idle"},
         place = "idle" => p # Boot, pc[p] # "idle",
         ScheduleRecovery([pc EXCEPT ![p] = place]) \/ NoRecovery([pc EXCEPT ![p] = place]),
         p \in Recoverers => place = "idle", initializing' \in BOOLEAN,
         UNCHANGED <<stateVars, generation, use_service_mode, core_operation, worldVars, handling,
                     proxy_initialized, monitors, constVars, faults>>
  PROVE  IInv'
  <1> DEFINE at == [pc EXCEPT ![p] = place]
  <1>1. UNCHANGED <<world, desired_running, gave_up, saved, unmanaged>>
    BY DEF world, stateVars, worldVars, constVars
  <1>2. /\ at \in [Processes -> Places] /\ at[p] = place /\ p \in Processes
        /\ \A q \in Processes : q # p => at[q] = pc[q]
    BY Roles DEF IInv, TypeOK, Places
  <1>3. /\ \A q \in Starters : at[q] = pc[q] \/ at[q] \in {"done", "idle"}
        /\ at[Exit] = pc[Exit] /\ at[Upgrader] = pc[Upgrader]
        /\ at[Boot] = "idle" <=> pc[Boot] = "idle"
        /\ \A r \in Recoverers : at[r] \notin {"idle", "after"} => at[r] = pc[r]
    BY <1>2, Roles
  <1> HIDE DEF at
  <1>4. ScheduleRecovery(at) \/ NoRecovery(at)
    BY DEF at
  <1>5. /\ pc' \in [Processes -> Places] /\ recovery_scheduled' \in BOOLEAN
        /\ pc'[Exit] = pc[Exit] /\ pc'[Upgrader] = pc[Upgrader]
        /\ \A q \in Starters : pc'[q] = pc[q] \/ pc'[q] \in {"done", "idle", "loop"}
        /\ ControlOK' /\ WishOK' /\ RecoveryOK'
    BY <1>1, <1>2, <1>3, <1>4, AskMoves
  <1>6. TypeOK'
    BY <1>5 DEF IInv, TypeOK, stateVars, worldVars, constVars
  <1>7. SidecarOK' /\ StartOK' /\ ModeOK' /\ SavedOK'
    <2>1. \A q \in Starters : pc'[q] \in {"kill", "settle", "service", "undo", "spawn"} => pc'[q] = pc[q]
      BY <1>5
    <2> QED
      BY <1>1, <1>5, <2>1, WorldStays, SavedStays DEF IInv, world
  <1> QED
    BY <1>5, <1>6, <1>7 DEF IInv

LEMMA AskSteps ==
  ASSUME IInv, NEW p \in Starters, ReportFailure(p) \/ (p \in Recoverers /\ RecoverAfter(p))
  PROVE  IInv'
  <1>1. CASE ReportFailure(p)
    <2>1. p \in {Boot} \cup Callers /\ p # Upgrader /\ p \notin Recoverers /\ pc[p] # "idle"
      BY <1>1, Roles DEF ReportFailure, IInv, ControlOK
    <2>2. /\ initializing' \in BOOLEAN
          /\ UNCHANGED <<stateVars, generation, use_service_mode, core_operation, worldVars, handling,
                         proxy_initialized, monitors, constVars, faults>>
      BY <1>1 DEF ReportFailure, IInv, TypeOK
    <2>3. ScheduleRecovery([pc EXCEPT ![p] = "done"]) \/ NoRecovery([pc EXCEPT ![p] = "done"])
      BY <1>1 DEF ReportFailure
    <2> QED
      BY <2>1, <2>2, <2>3, AskKeeps
  <1>2. CASE p \in Recoverers /\ RecoverAfter(p)
    <2>1. p # Upgrader /\ p # Boot /\ pc[p] # "idle"
      BY <1>2, Roles DEF RecoverAfter
    <2>2. /\ initializing' \in BOOLEAN
          /\ UNCHANGED <<stateVars, generation, use_service_mode, core_operation, worldVars, handling,
                         proxy_initialized, monitors, constVars, faults>>
      BY <1>2 DEF RecoverAfter, InitializeAfterRecovery, IInv, TypeOK
    <2>3. ScheduleRecovery([pc EXCEPT ![p] = "idle"]) \/ NoRecovery([pc EXCEPT ![p] = "idle"])
      BY <1>2 DEF RecoverAfter, RecoverAgain
    <2> QED
      BY <1>2, <2>1, <2>2, <2>3, AskKeeps
  <1> QED
    BY <1>1, <1>2

\* The task that clears the flag is the only one that it stood for.
LEMMA RecoverClearKeeps ==
  ASSUME IInv, NEW r \in Recoverers, RecoverClear(r)
  PROVE  IInv'
  <1>1. /\ pc[r] = "stop" /\ Goto(r, "after") /\ recovery_scheduled' \in BOOLEAN /\ UNCHANGED world
        /\ UNCHANGED <<desired_running, gave_up, saved, core_operation, unmanaged, service_core>>
        /\ UNCHANGED <<core_ready, proxy_initialized, initializing, enable_service_mode, faults>>
    BY DEF RecoverClear, world, stateVars, worldVars, constVars
  <1>2. /\ pc' \in [Processes -> Places] /\ pc'[r] = "after" /\ r \in Starters
        /\ \A q \in Processes : q # r => pc'[q] = pc[q]
    BY <1>1, GotoMoves, Roles DEF Places, IInv
  <1>3. /\ pc'[Exit] = pc[Exit] /\ pc'[Upgrader] = pc[Upgrader]
        /\ pc'[Boot] = pc[Boot]
    BY <1>2, Roles
  <1>4. \A q \in Starters : pc'[q] = pc[q] \/ pc'[q] = "after"
    BY <1>2, Roles
  <1>5. TypeOK'
    <2>1. FlagsTyped' /\ RecordsTyped'
      BY <1>1, <1>2, Types DEF IInv, FlagsTyped, RecordsTyped, world
    <2>2. WorldTyped' /\ TasksTyped'
      BY <1>1, <1>2, Types DEF IInv, WorldTyped, TasksTyped, world
    <2> QED
      BY <2>1, <2>2, Types
  <1>6. ControlOK'
    <2>1. "after" \notin Held \cup {"report"}
      BY DEF Held, StartPlaces
    <2> QED
      BY <1>1, <1>3, <1>4, <2>1, Outside DEF IInv
  <1>7. SidecarOK' /\ StartOK' /\ ModeOK' /\ SavedOK'
    BY <1>1, <1>3, <1>4, WorldStays, SavedStays DEF IInv, world
  <1>8. WishOK'
    BY <1>1, <1>3, WishStays DEF IInv
  <1>9. RecoveryIsSingle'
    <2>1. \A s \in Recoverers : s # r => pc'[s] \in {"idle", "after"}
      BY <1>1, <1>2, Roles DEF IInv, RecoveryOK, RecoveryIsSingle
    <2> QED
      BY <1>2, <2>1 DEF RecoveryIsSingle
  <1>10. RecoveryIsWanted'
    BY <1>1, <1>2, <1>4, Roles, WantedStays DEF IInv, RecoveryOK, StartPlaces
  <1> QED
    BY <1>5, <1>6, <1>7, <1>8, <1>9, <1>10 DEF IInv, RecoveryOK

-----------------------------------------------------------------------------
(* Events, monitors, the proxy's initialization and crashes.               *)

\* What these steps leave alone.
LEMMA AsideMoves ==
  ASSUME IInv, (pc' = pc /\ UNCHANGED recovery_scheduled) \/ ScheduleRecovery(pc) \/ NoRecovery(pc),
         UNCHANGED <<core_operation, unmanaged, desired_running, gave_up, saved>>
  PROVE  /\ pc' \in [Processes -> Places] /\ recovery_scheduled' \in BOOLEAN
         /\ pc'[Exit] = pc[Exit] /\ pc'[Upgrader] = pc[Upgrader]
         /\ \A q \in Starters : pc'[q] = pc[q] \/ pc'[q] \in {"done", "idle", "loop"}
         /\ ControlOK' /\ WishOK' /\ RecoveryOK'
  <1>1. pc \in [Processes -> Places]
    BY DEF IInv, TypeOK
  <1>2. ScheduleRecovery(pc) \/ NoRecovery(pc)
    BY DEF NoRecovery
  <1> QED
    BY <1>1, <1>2, AskMoves

\* A start relies on nothing that an event of another generation changes.
LEMMA AsideStarts ==
  ASSUME StartOK, UNCHANGED <<generation, use_service_mode>>,
         \A q \in Starters : pc'[q] = pc[q] \/ pc'[q] \in {"done", "idle", "loop"},
         alive' \subseteq alive, alive' \cup exited' \cup handling' \subseteq alive \cup exited \cup handling,
         \A m \in monitors' : \E n \in monitors : m.generation = n.generation,
         \A q \in Starters : pc[q] \in {"kill", "settle", "service", "spawn"} =>
                active_generation' = active_generation,
         \A q \in Starters : pc[q] \in {"service", "spawn"} => handling' = {}
  PROVE  StartOK'
  <1> SUFFICES ASSUME NEW q \in Starters PROVE StartAt(q)'
    BY DEF StartOK
  <1>1. CASE pc'[q] \in {"done", "idle", "loop"}
    BY <1>1 DEF StartAt
  <1>2. CASE pc'[q] = pc[q]
    <2>1. StartAt(q)
      BY DEF StartOK
    <2> QED
      BY <1>2, <2>1 DEF StartAt
  <1> QED
    BY <1>1, <1>2

LEMMA HandleTerminatedKeeps ==
  ASSUME IInv, NEW g \in exited, HandleTerminated(g)
  PROVE  IInv'
  <1>1. /\ exited' = exited \ {g} /\ UNCHANGED pc
        /\ \/ active_generation = g /\ active_generation' = 0 /\ handling' = handling \cup {g}
           \/ active_generation # g /\ UNCHANGED <<active_generation, handling>>
        /\ UNCHANGED <<desired_running, core_ready, generation, sidecar, use_service_mode>>
        /\ UNCHANGED <<core_operation, alive, service_core, unmanaged, recovery_scheduled>>
        /\ UNCHANGED <<proxy_initialized, initializing, monitors, enable_service_mode, saved, gave_up>>
        /\ UNCHANGED faults
    BY DEF HandleTerminated, IsActive, taskVars, constVars
  <1>2. /\ pc' \in [Processes -> Places] /\ recovery_scheduled' \in BOOLEAN
        /\ pc'[Exit] = pc[Exit] /\ pc'[Upgrader] = pc[Upgrader]
        /\ \A q \in Starters : pc'[q] = pc[q] \/ pc'[q] \in {"done", "idle", "loop"}
        /\ ControlOK' /\ WishOK' /\ RecoveryOK'
    BY <1>1, AsideMoves
  <1>3. g \in 1..generation
    BY DEF IInv, TypeOK
  <1>4. TypeOK'
    <2>1. FlagsTyped' /\ RecordsTyped'
      BY <1>1, <1>2, <1>3, Types DEF IInv, FlagsTyped, RecordsTyped
    <2>2. WorldTyped' /\ TasksTyped'
      BY <1>1, <1>2, <1>3, Types DEF IInv, WorldTyped, TasksTyped
    <2> QED
      BY <2>1, <2>2, Types
  <1>5. active_generation = g => alive = {} /\ g = generation
    BY <1>3 DEF IInv, SidecarOK, AliveIsOwned
  <1>6. SidecarOK' /\ ModeOK' /\ SavedOK'
    <2>1. SidecarOK'
      BY <1>1, <1>5 DEF IInv, SidecarOK, AliveIsOwned
    <2> QED
      BY <1>1, <2>1 DEF IInv, ModeOK, SavedOK
  <1>7. StartOK'
    <2>1. \A q \in Starters : pc[q] \in {"kill", "settle", "service", "spawn"} => active_generation # g
      BY <1>5 DEF IInv, StartOK, StartAt
    <2>2. \A q \in Starters : pc[q] \in {"service", "spawn"} => handling = {}
      BY DEF IInv, StartOK, StartAt
    <2> QED
      BY <1>1, <1>2, <2>1, <2>2, AsideStarts DEF IInv
  <1> QED
    BY <1>2, <1>4, <1>6, <1>7 DEF IInv

LEMMA FinishTerminatedKeeps ==
  ASSUME IInv, NEW g \in handling, FinishTerminated(g)
  PROVE  IInv' /\ alive = {}
  <1>1. /\ handling' = handling \ {g} /\ sidecar' = 0 /\ core_ready' \in BOOLEAN
        /\ ScheduleRecovery(pc) \/ NoRecovery(pc)
        /\ UNCHANGED <<desired_running, generation, active_generation, use_service_mode>>
        /\ UNCHANGED <<core_operation, alive, exited, service_core, unmanaged>>
        /\ UNCHANGED <<proxy_initialized, initializing, monitors, enable_service_mode, saved, gave_up>>
        /\ UNCHANGED faults
    BY DEF FinishTerminated, worldVars, constVars
  <1>2. /\ pc' \in [Processes -> Places] /\ recovery_scheduled' \in BOOLEAN
        /\ pc'[Exit] = pc[Exit] /\ pc'[Upgrader] = pc[Upgrader]
        /\ \A q \in Starters : pc'[q] = pc[q] \/ pc'[q] \in {"done", "idle", "loop"}
        /\ ControlOK' /\ WishOK' /\ RecoveryOK'
    BY <1>1, AsideMoves
  <1>3. TypeOK'
    <2>1. FlagsTyped' /\ RecordsTyped'
      BY <1>1, <1>2, Types DEF IInv, FlagsTyped, RecordsTyped
    <2>2. WorldTyped' /\ TasksTyped'
      BY <1>1, <1>2, Types DEF IInv, WorldTyped, TasksTyped
    <2> QED
      BY <2>1, <2>2, Types
  <1>4. alive = {}
    BY DEF IInv, SidecarOK
  <1>5. SidecarOK' /\ ModeOK' /\ SavedOK'
    BY <1>1, <1>2, <1>4 DEF IInv, SidecarOK, AliveIsOwned, ModeOK, SavedOK
  <1>6. StartOK'
    <2>1. \A q \in Starters : pc[q] \in {"service", "spawn"} => handling = {}
      BY DEF IInv, StartOK, StartAt
    <2> QED
      BY <1>1, <1>2, <2>1, AsideStarts DEF IInv
  <1> QED
    BY <1>2, <1>3, <1>4, <1>5, <1>6 DEF IInv

\* A monitor with another count, or another place, is a monitor of the same generation.
LEMMA MonitorChanged ==
  ASSUME TypeOK, NEW m \in monitors, NEW probing \in BOOLEAN
  PROVE  /\ [m EXCEPT !.probing = probing] \in [generation : 1..generation, failures : 0..2, probing : BOOLEAN]
         /\ [m EXCEPT !.probing = probing].generation = m.generation
         /\ [m EXCEPT !.probing = probing, !.failures = 0]
                \in [generation : 1..generation, failures : 0..2, probing : BOOLEAN]
         /\ [m EXCEPT !.probing = probing, !.failures = 0].generation = m.generation
         /\ m.failures < 2 =>
               [m EXCEPT !.probing = probing, !.failures = @ + 1]
                   \in [generation : 1..generation, failures : 0..2, probing : BOOLEAN]
         /\ [m EXCEPT !.probing = probing, !.failures = @ + 1].generation = m.generation
  <1> DEFINE M == [generation : 1..generation, failures : 0..2, probing : BOOLEAN]
  <1>1. m \in M
    BY DEF TypeOK
  <1>2. /\ [m EXCEPT !.probing = probing] \in M
        /\ [m EXCEPT !.probing = probing].generation = m.generation
    BY <1>1
  <1>3. /\ [m EXCEPT !.probing = probing, !.failures = 0] \in M
        /\ [m EXCEPT !.probing = probing, !.failures = 0].generation = m.generation
    <2>1. ASSUME NEW n \in 0..2
          PROVE  /\ [m EXCEPT !.probing = probing, !.failures = n] \in M
                 /\ [m EXCEPT !.probing = probing, !.failures = n].generation = m.generation
      BY <1>1
    <2>2. 0 \in 0..2
      OBVIOUS
    <2> QED
      BY <2>1, <2>2
  <1>4. ASSUME m.failures < 2
        PROVE  [m EXCEPT !.probing = probing, !.failures = @ + 1] \in M
    <2>1. m.failures + 1 \in 0..2
      BY <1>1, <1>4
    <2> QED
      BY <1>1, <2>1
  <1>5. [m EXCEPT !.probing = probing, !.failures = @ + 1].generation = m.generation
    BY <1>1
  <1> QED
    BY <1>2, <1>3, <1>4, <1>5

\* The monitors of other generations, and their own answers, stay.
LEMMA MonitorSteps ==
  ASSUME IInv, NEW m \in monitors, MonitorTick(m) \/ MonitorRunning(m) \/ MonitorFailure(m)
  PROVE  IInv' /\ (core_ready /\ ~core_ready' => alive = {})
  <1> DEFINE M == [generation : 1..generation, failures : 0..2, probing : BOOLEAN]
  <1>1. /\ monitors' \subseteq M
        /\ \A x \in monitors' : \E n \in monitors : x.generation = n.generation
    <2>1. monitors \subseteq M
      BY DEF IInv, TypeOK
    <2>2. \/ monitors' \subseteq monitors
          \/ \E x \in M : x.generation = m.generation /\ monitors' \subseteq monitors \cup {x}
      <3>1. CASE MonitorTick(m)
        <4>1. \/ monitors' = monitors \ {m}
              \/ monitors' = (monitors \ {m}) \cup {[m EXCEPT !.probing = TRUE]}
          BY <3>1 DEF MonitorTick
        <4>2. [m EXCEPT !.probing = TRUE] \in M /\ [m EXCEPT !.probing = TRUE].generation = m.generation
          BY MonitorChanged DEF IInv
        <4> QED
          BY <4>1, <4>2
      <3>2. CASE MonitorRunning(m)
        <4>1. monitors' \subseteq monitors \cup {[m EXCEPT !.probing = FALSE, !.failures = 0]}
          BY <3>2 DEF MonitorRunning
        <4>2. /\ [m EXCEPT !.probing = FALSE, !.failures = 0] \in M
              /\ [m EXCEPT !.probing = FALSE, !.failures = 0].generation = m.generation
          BY MonitorChanged DEF IInv
        <4> QED
          BY <4>1, <4>2
      <3>3. CASE MonitorFailure(m)
        <4>1. \/ monitors' \subseteq monitors
              \/ /\ m.failures < 2
                 /\ monitors' \subseteq monitors \cup {[m EXCEPT !.probing = FALSE, !.failures = @ + 1]}
          BY <3>3 DEF MonitorFailure, Tolerates
        <4>2. /\ m.failures < 2 => [m EXCEPT !.probing = FALSE, !.failures = @ + 1] \in M
              /\ [m EXCEPT !.probing = FALSE, !.failures = @ + 1].generation = m.generation
          BY MonitorChanged DEF IInv
        <4> QED
          BY <4>1, <4>2
      <3> QED
        BY <3>1, <3>2, <3>3
    <2> QED
      BY <2>1, <2>2
  <1>2. /\ UNCHANGED <<desired_running, generation, sidecar, use_service_mode, core_operation>>
        /\ UNCHANGED <<alive, exited, handling, service_core, unmanaged>>
        /\ UNCHANGED <<proxy_initialized, initializing, enable_service_mode, saved, gave_up>>
        /\ (pc' = pc /\ UNCHANGED recovery_scheduled) \/ ScheduleRecovery(pc) \/ NoRecovery(pc)
    BY DEF MonitorTick, MonitorRunning, MonitorFailure, stateVars, worldVars, constVars
  <1>3. \/ UNCHANGED <<active_generation, core_ready>>
        \/ active_generation = m.generation /\ active_generation' = 0 /\ core_ready' \in BOOLEAN
    BY DEF MonitorTick, MonitorRunning, MonitorFailure, stateVars
  <1>4. Fault \/ UNCHANGED faults
    BY DEF MonitorTick, MonitorRunning, MonitorFailure
  <1>5. active_generation = m.generation => m.generation = generation /\ alive = {}
    <2>1. m.generation \in 1..generation
      BY DEF IInv, TypeOK
    <2> QED
      BY <2>1 DEF IInv, SidecarOK, ModeOK
  <1>6. /\ pc' \in [Processes -> Places] /\ recovery_scheduled' \in BOOLEAN
        /\ pc'[Exit] = pc[Exit] /\ pc'[Upgrader] = pc[Upgrader]
        /\ \A q \in Starters : pc'[q] = pc[q] \/ pc'[q] \in {"done", "idle", "loop"}
        /\ ControlOK' /\ WishOK' /\ RecoveryOK'
    BY <1>2, AsideMoves
  <1>7. TypeOK'
    <2>1. core_ready' \in BOOLEAN /\ active_generation' \in 0..generation /\ faults' \in 0..MaxFaults
      BY <1>3, <1>4, FaultTyped DEF IInv, TypeOK
    <2>2. FlagsTyped' /\ RecordsTyped'
      BY <1>1, <1>2, <1>6, <2>1, Types DEF IInv, FlagsTyped, RecordsTyped
    <2>3. WorldTyped' /\ TasksTyped'
      BY <1>2, <1>6, <2>1, Types DEF IInv, WorldTyped, TasksTyped
    <2> QED
      BY <2>2, <2>3, Types
  <1>8. SidecarOK'
    BY <1>2, <1>3, <1>5, <1>6 DEF IInv, SidecarOK, AliveIsOwned
  <1>9. ModeOK'
    BY <1>1, <1>2 DEF IInv, ModeOK
  <1>10. SavedOK'
    BY <1>2, <1>3, <1>6 DEF IInv, SavedOK
  <1>11. StartOK'
    <2>1. \A q \in Starters : pc[q] \in {"kill", "settle", "service", "spawn"} =>
             active_generation' = active_generation
      <3> SUFFICES ASSUME NEW q \in Starters, pc[q] \in {"kill", "settle", "service", "spawn"}
                   PROVE  active_generation # m.generation
        BY <1>3
      <3> QED
        BY <1>5 DEF IInv, StartOK, StartAt
    <2>2. \A q \in Starters : pc[q] \in {"service", "spawn"} => handling = {}
      BY DEF IInv, StartOK, StartAt
    <2> QED
      BY <1>1, <1>2, <1>6, <2>1, <2>2, AsideStarts DEF IInv
  <1>12. core_ready /\ ~core_ready' => alive = {}
    BY <1>3, <1>5
  <1> QED
    BY <1>6, <1>7, <1>8, <1>9, <1>10, <1>11, <1>12 DEF IInv

LEMMA InitializeSysproxyKeeps ==
  ASSUME IInv, InitializeSysproxy
  PROVE  IInv'
  <1>1. /\ UNCHANGED <<desired_running, core_ready, core_operation, pc, unmanaged, recovery_scheduled>>
        /\ UNCHANGED <<enable_service_mode, saved, gave_up, service_core, world>>
        /\ proxy_initialized' \in BOOLEAN /\ initializing' \in BOOLEAN /\ (Fault \/ UNCHANGED faults)
    BY DEF InitializeSysproxy, world, stateVars, worldVars, constVars, IInv, TypeOK
  <1>2. /\ pc' \in [Processes -> Places] /\ recovery_scheduled' \in BOOLEAN
        /\ ControlOK' /\ WishOK' /\ RecoveryOK'
    BY <1>1, AsideMoves
  <1>3. TypeOK'
    BY <1>1, <1>2, FaultTyped DEF IInv, TypeOK, world
  <1>4. SidecarOK' /\ StartOK' /\ ModeOK' /\ SavedOK'
    BY <1>1, WorldStays, SavedStays DEF IInv, world
  <1> QED
    BY <1>2, <1>3, <1>4 DEF IInv

\* A sidecar that dies leaves its event, a service's core nothing.
LEMMA CrashKeeps ==
  ASSUME IInv, Crash
  PROVE  IInv'
  <1>1. /\ UNCHANGED <<desired_running, core_ready, core_operation, pc, unmanaged, recovery_scheduled>>
        /\ UNCHANGED <<enable_service_mode, saved, gave_up, proxy_initialized, initializing>>
        /\ UNCHANGED <<generation, active_generation, sidecar, use_service_mode, monitors, handling>>
        /\ service_core' \in BOOLEAN /\ Fault
    BY DEF Crash, stateVars, taskVars, constVars, IInv, TypeOK
  <1>2. \/ UNCHANGED <<alive, exited>>
        \/ alive' = {} /\ exited' = exited \cup alive
    <2>1. ASSUME NEW g \in alive, alive' = alive \ {g}, exited' = exited \cup {g}
          PROVE  alive' = {} /\ exited' = exited \cup alive
      BY <2>1 DEF IInv, SidecarOK, AliveIsOwned
    <2> QED
      BY <2>1 DEF Crash
  <1>3. /\ pc' \in [Processes -> Places] /\ recovery_scheduled' \in BOOLEAN
        /\ \A q \in Starters : pc'[q] = pc[q]
        /\ ControlOK' /\ WishOK' /\ RecoveryOK'
    BY <1>1, AsideMoves
  <1>4. TypeOK'
    <2>1. alive' \subseteq 1..generation /\ exited' \subseteq 1..generation
      BY <1>2 DEF IInv, TypeOK
    <2> QED
      BY <1>1, <1>3, <2>1, FaultTyped DEF IInv, TypeOK
  <1>5. SidecarOK'
    BY <1>1, <1>2 DEF IInv, SidecarOK, AliveIsOwned
  <1>6. ModeOK' /\ SavedOK'
    BY <1>1, <1>2 DEF IInv, ModeOK, SavedOK
  <1>7. StartOK'
    <2>1. \A q \in Starters : pc[q] \in {"service", "spawn"} => handling = {}
      BY DEF IInv, StartOK, StartAt
    <2>2. alive' \subseteq alive /\ alive' \cup exited' \cup handling' \subseteq alive \cup exited \cup handling
      BY <1>1, <1>2
    <2> QED
      BY <1>1, <1>3, <2>1, <2>2, AsideStarts DEF IInv
  <1> QED
    BY <1>3, <1>4, <1>5, <1>6, <1>7 DEF IInv

-----------------------------------------------------------------------------
(* upgrade_core.                                                           *)

\* The update holds the mutex, so nobody else starts or stops a core.
LEMMA UpgradeMoves ==
  ASSUME IInv, pc[Upgrader] \in Held \/ (pc[Upgrader] = "idle" /\ core_operation = Free),
         pc[Boot] # "idle", NEW place \in Places, Goto(Upgrader, place),
         place \notin {"idle", "report", "kill", "settle", "service", "undo", "spawn"},
         core_operation' = IF place \in Held THEN Upgrader ELSE Free,
         unmanaged' => place \in {"replace", "rollback"}, UNCHANGED recovery_scheduled
  PROVE  /\ pc' \in [Processes -> Places] /\ pc'[Upgrader] = place
         /\ pc'[Exit] = pc[Exit] /\ pc[Exit] # "stop" /\ pc'[Boot] = pc[Boot] /\ ~gave_up
         /\ ControlOK' /\ StartOK' /\ RecoveryOK'
  <1>1. /\ pc' \in [Processes -> Places] /\ pc'[Upgrader] = place
        /\ \A q \in Processes : q # Upgrader => pc'[q] = pc[q]
    BY GotoMoves, Roles DEF IInv
  <1>2. \A q \in Starters : q # Upgrader => pc'[q] = pc[q] /\ pc[q] \notin Held
    BY <1>1, Roles DEF IInv, ControlOK
  <1>3. pc'[Exit] = pc[Exit] /\ pc[Exit] # "stop" /\ pc'[Boot] = pc[Boot]
    BY <1>1, Roles DEF IInv, ControlOK
  <1>4. ~gave_up
    BY DEF IInv, WishOK, Held, StartPlaces
  <1>5. ControlOK'
    <2>1. "idle" \notin Held /\ "replace" \in Held /\ "rollback" \in Held
      BY DEF Held, StartPlaces
    <2> QED
      BY <1>1, <1>2, <1>3, <2>1, Roles DEF IInv, ControlOK
  <1>6. StartOK'
    <2>1. StartAt(Upgrader)'
      BY <1>1 DEF StartAt
    <2> QED
      BY <1>2, <2>1, StartAlone, Roles
  <1>7. RecoveryOK'
    <2>1. \A r \in Recoverers : pc'[r] = pc[r] /\ pc'[r] \notin StartPlaces
      BY <1>2, Roles DEF Held
    <2> QED
      BY <2>1, SingleStays DEF IInv, RecoveryOK, RecoveryIsWanted, Starting
  <1> QED
    BY <1>1, <1>3, <1>4, <1>5, <1>6, <1>7

LEMMA UpgradeBooted == IInv /\ pc[Upgrader] # "idle" => pc[Boot] # "idle"
  BY DEF IInv, ControlOK

\* The state is saved: it is the state of the core that runs.
LEMMA UpgradeAcquireKeeps ==
  ASSUME IInv, UpgradeAcquire
  PROVE  IInv'
  <1>1. /\ pc[Upgrader] = "idle" /\ pc[Boot] # "idle" /\ core_operation = Free
        /\ core_operation' = Upgrader /\ Goto(Upgrader, "upgrade") /\ core_ready
        /\ UNCHANGED <<core_ready, recovery_scheduled, gave_up, unmanaged, service_core, faults>>
        /\ UNCHANGED <<proxy_initialized, initializing, enable_service_mode, world>>
        /\ desired_running' = FALSE
    BY DEF UpgradeAcquire, world, worldVars, taskVars
  <1>2. /\ saved'.desired = desired_running /\ saved'.ready = core_ready /\ saved'.active = FALSE
        /\ saved'.generation = active_generation /\ saved'.service = use_service_mode
        /\ saved' \in [desired : BOOLEAN, ready : BOOLEAN, generation : 0..generation,
                       service : BOOLEAN, active : BOOLEAN, rolling : BOOLEAN]
    <2>1. saved' = [NotSaved EXCEPT !.desired = desired_running, !.ready = core_ready,
                                    !.generation = active_generation, !.service = use_service_mode]
      BY DEF UpgradeAcquire
    <2>2. /\ desired_running \in BOOLEAN /\ core_ready \in BOOLEAN /\ use_service_mode \in BOOLEAN
          /\ active_generation \in 0..generation
      BY DEF IInv, TypeOK
    <2> QED
      BY <2>1, <2>2 DEF NotSaved
  <1>3. ~unmanaged
    BY <1>1 DEF IInv, ControlOK
  <1>4. /\ pc' \in [Processes -> Places] /\ pc'[Upgrader] = "upgrade"
        /\ pc'[Exit] = pc[Exit] /\ pc'[Boot] = pc[Boot] /\ ~gave_up /\ pc[Exit] # "stop"
        /\ ControlOK' /\ StartOK' /\ RecoveryOK'
    BY <1>1, <1>3, UpgradeMoves DEF Held, Places, StartPlaces
  <1>5. TypeOK'
    <2>1. FlagsTyped' /\ RecordsTyped'
      BY <1>1, <1>2, Types DEF IInv, FlagsTyped, RecordsTyped, world
    <2>2. WorldTyped' /\ TasksTyped'
      BY <1>1, <1>4, Types, Roles DEF IInv, WorldTyped, TasksTyped, world
    <2> QED
      BY <2>1, <2>2, Types
  <1>6. SidecarOK' /\ ModeOK'
    BY <1>1, <1>4 DEF IInv, SidecarOK, AliveIsOwned, ModeOK, world
  <1>7. SavedOK'
    BY <1>1, <1>2, <1>4 DEF IInv, SidecarOK, SavedOK, world
  <1>8. WishOK'
    <2>1. pc[Exit] \in {"idle", "lock"} => desired_running
      BY <1>1, <1>4, Roles DEF IInv, WishOK
    <2> QED
      BY <1>1, <1>2, <1>4, <2>1 DEF WishOK, Starting, StartPlaces
  <1> QED
    BY <1>4, <1>5, <1>6, <1>7, <1>8 DEF IInv

LEMMA UpgradeUnchangedKeeps ==
  ASSUME IInv, UpgradeUnchanged
  PROVE  IInv'
  <1>1. /\ pc[Upgrader] = "upgrade" /\ Goto(Upgrader, "restore") /\ UNCHANGED world
        /\ UNCHANGED <<core_operation, desired_running, saved, gave_up, unmanaged>>
        /\ UNCHANGED <<core_ready, recovery_scheduled, service_core, faults>>
        /\ UNCHANGED <<proxy_initialized, initializing, enable_service_mode>>
    BY DEF UpgradeUnchanged, world, stateVars, worldVars, taskVars, constVars
  <1>2. core_operation = Upgrader /\ ~unmanaged /\ pc[Boot] # "idle" /\ "upgrade" \in Held
    BY <1>1, Roles, UpgradeBooted DEF IInv, ControlOK, Held
  <1>3. /\ pc' \in [Processes -> Places] /\ pc'[Upgrader] = "restore"
        /\ pc'[Exit] = pc[Exit] /\ pc'[Boot] = pc[Boot] /\ ~gave_up
        /\ ControlOK' /\ StartOK' /\ RecoveryOK'
    BY <1>1, <1>2, UpgradeMoves DEF Held, Places
  <1>4. TypeOK'
    BY <1>1, <1>3 DEF IInv, TypeOK, world
  <1>5. SidecarOK' /\ ModeOK' /\ SavedOK'
    BY <1>1, <1>3 DEF IInv, SidecarOK, AliveIsOwned, ModeOK, SavedOK, world
  <1>6. WishOK'
    BY <1>1, <1>2, <1>3 DEF IInv, WishOK, Starting, StartPlaces
  <1> QED
    BY <1>3, <1>4, <1>5, <1>6 DEF IInv

\* Mihomo replaced its executable: the old core has ended, the new one is on its own.
LEMMA UpgradeReplacedKeeps ==
  ASSUME IInv, UpgradeReplaced
  PROVE  IInv'
  <1>1. /\ pc[Upgrader] = "upgrade" /\ \E place \in {"replace", "rollback"} : Goto(Upgrader, place)
        /\ alive' = {} /\ exited' = exited \cup alive
        /\ service_core' \in BOOLEAN /\ unmanaged' \in BOOLEAN
        /\ UNCHANGED <<core_operation, desired_running, saved, gave_up, core_ready, recovery_scheduled>>
        /\ UNCHANGED <<proxy_initialized, initializing, enable_service_mode>>
        /\ UNCHANGED <<generation, active_generation, sidecar, use_service_mode, monitors, handling>>
    BY DEF UpgradeReplaced, stateVars, taskVars, constVars
  <1>2. faults' \in 0..MaxFaults
    BY FaultTyped DEF UpgradeReplaced, Fault, IInv, TypeOK
  <1>3. PICK place \in {"replace", "rollback"} : Goto(Upgrader, place)
    BY <1>1
  <1>4. core_operation = Upgrader /\ pc[Boot] # "idle" /\ "upgrade" \in Held /\ place \in Held
    BY <1>1, Roles, UpgradeBooted DEF IInv, ControlOK, Held
  <1>5. /\ pc' \in [Processes -> Places] /\ pc'[Upgrader] = place
        /\ pc'[Exit] = pc[Exit] /\ pc'[Boot] = pc[Boot] /\ ~gave_up
        /\ ControlOK' /\ StartOK' /\ RecoveryOK'
    BY <1>1, <1>3, <1>4, UpgradeMoves DEF Places
  <1>6. TypeOK'
    <2>1. FlagsTyped' /\ RecordsTyped'
      BY <1>1, Types DEF IInv, FlagsTyped, RecordsTyped
    <2>2. WorldTyped' /\ TasksTyped'
      BY <1>1, <1>2, <1>5, Types DEF IInv, WorldTyped, TasksTyped
    <2> QED
      BY <2>1, <2>2, Types
  <1>7. SidecarOK' /\ ModeOK'
    BY <1>1 DEF IInv, SidecarOK, AliveIsOwned, ModeOK
  <1>8. SavedOK'
    BY <1>1, <1>5 DEF IInv, SavedOK
  <1>9. WishOK'
    BY <1>1, <1>4, <1>5 DEF IInv, WishOK, Starting, StartPlaces
  <1> QED
    BY <1>5, <1>6, <1>7, <1>8, <1>9 DEF IInv

\* A core that is not the active one any more has no process left.
LEMMA RestoreCheckKeeps ==
  ASSUME IInv, RestoreCheck
  PROVE  IInv'
  <1>1. /\ pc[Upgrader] = "restore" /\ Goto(Upgrader, "store") /\ UNCHANGED world
        /\ UNCHANGED <<core_operation, desired_running, gave_up, unmanaged>>
        /\ UNCHANGED <<core_ready, recovery_scheduled, service_core, faults>>
        /\ UNCHANGED <<proxy_initialized, initializing, enable_service_mode>>
    BY DEF RestoreCheck, world, stateVars, worldVars, taskVars
  <1>2. /\ saved' \in [desired : BOOLEAN, ready : BOOLEAN, generation : 0..generation,
                       service : BOOLEAN, active : BOOLEAN, rolling : BOOLEAN]
        /\ saved'.active <=> (saved.generation # 0 /\ active_generation = saved.generation)
        /\ saved'.desired = saved.desired /\ saved'.ready = saved.ready
        /\ saved'.generation = saved.generation /\ saved'.service = saved.service
    <2>1. saved \in [desired : BOOLEAN, ready : BOOLEAN, generation : 0..generation,
                     service : BOOLEAN, active : BOOLEAN, rolling : BOOLEAN]
      BY DEF IInv, TypeOK
    <2> DEFINE active == saved.generation # 0 /\ active_generation = saved.generation
    <2>2. saved' = [saved EXCEPT !.active = active] /\ active \in BOOLEAN
      BY DEF RestoreCheck
    <2> HIDE DEF active
    <2>3. saved'.active = active
      BY <2>1, <2>2
    <2>4. /\ saved' \in [desired : BOOLEAN, ready : BOOLEAN, generation : 0..generation,
                         service : BOOLEAN, active : BOOLEAN, rolling : BOOLEAN]
          /\ saved'.desired = saved.desired /\ saved'.ready = saved.ready
          /\ saved'.generation = saved.generation /\ saved'.service = saved.service
      BY <2>1, <2>2
    <2> QED
      BY <2>3, <2>4 DEF active
  <1>3. core_operation = Upgrader /\ ~unmanaged /\ pc[Boot] # "idle" /\ "restore" \in Held
    BY <1>1, Roles, UpgradeBooted DEF IInv, ControlOK, Held
  <1>4. /\ pc' \in [Processes -> Places] /\ pc'[Upgrader] = "store" /\ pc[Exit] # "stop"
        /\ pc'[Exit] = pc[Exit] /\ pc'[Boot] = pc[Boot] /\ ~gave_up
        /\ ControlOK' /\ StartOK' /\ RecoveryOK'
    BY <1>1, <1>3, UpgradeMoves DEF Held, Places
  <1>5. TypeOK'
    BY <1>1, <1>2, <1>4 DEF IInv, TypeOK, world
  <1>6. SidecarOK' /\ ModeOK'
    BY <1>1, <1>4 DEF IInv, SidecarOK, AliveIsOwned, ModeOK, world
  <1>7. SavedOK'
    <2>1. saved'.active \/ active_generation = 0
      BY <1>1, <1>2 DEF IInv, SavedOK
    <2>2. active_generation = 0 => alive = {}
      BY <1>4 DEF IInv, SidecarOK
    <2> QED
      BY <1>1, <1>2, <1>4, <2>1, <2>2 DEF IInv, SavedOK, world
  <1>8. WishOK'
    BY <1>1, <1>2, <1>3, <1>4 DEF IInv, WishOK, Starting, StartPlaces
  <1> QED
    BY <1>4, <1>5, <1>6, <1>7, <1>8 DEF IInv

\* The wish is put back; "ready" only falls with a core that has died.
LEMMA RestoreStoreKeeps ==
  ASSUME IInv, RestoreStore
  PROVE  IInv' /\ (core_ready /\ ~core_ready' => alive = {})
  <1> DEFINE left == [pc EXCEPT ![Upgrader] = "done"]
  <1>1. /\ pc[Upgrader] = "store" /\ core_operation' = Free
        /\ UNCHANGED <<saved, gave_up, unmanaged, service_core, faults>>
        /\ UNCHANGED <<alive, exited, handling, sidecar, generation, active_generation, use_service_mode>>
        /\ UNCHANGED <<proxy_initialized, initializing, enable_service_mode>>
    BY DEF RestoreStore, worldVars, constVars
  <1>2. /\ desired_running' = saved.desired /\ core_ready' = (saved.ready /\ saved.active)
        /\ ScheduleRecovery(left) \/ NoRecovery(left)
    BY DEF RestoreStore, RestoreRecovery
  <1>3. \/ UNCHANGED monitors
        \/ StartMonitor(saved.generation, 0) /\ saved.active /\ saved.service
    BY DEF RestoreStore
  <1>4. /\ core_operation = Upgrader /\ ~unmanaged /\ pc[Boot] # "idle" /\ pc[Exit] # "stop"
        /\ \A q \in Starters : q # Upgrader => pc[q] \notin Held
    BY <1>1, Roles, UpgradeBooted DEF IInv, ControlOK, Held
  <1>5. /\ left \in [Processes -> Places] /\ left[Upgrader] = "done"
        /\ \A q \in Processes : q # Upgrader => left[q] = pc[q]
    BY Roles DEF IInv, TypeOK, Places
  <1> HIDE DEF left
  <1>6. /\ pc' \in [Processes -> Places] /\ recovery_scheduled' \in BOOLEAN
        /\ \A p \in Processes : \/ pc'[p] = left[p]
                                \/ p \in Recoverers /\ left[p] = "idle" /\ pc'[p] = "loop"
    BY <1>2, <1>5, Asks DEF IInv, TypeOK
  <1>7. /\ pc'[Upgrader] = "done" /\ pc'[Exit] = pc[Exit] /\ pc'[Boot] = pc[Boot]
        /\ \A q \in Starters : q # Upgrader => pc'[q] = pc[q] \/ pc'[q] = "loop"
    BY <1>5, <1>6, Roles
  <1>8. "loop" \notin Held /\ "done" \notin Held
    BY DEF Held, StartPlaces
  <1>9. /\ saved.ready /\ saved.service = use_service_mode /\ saved.generation \in {0, generation}
        /\ saved.active \/ alive = {}
        /\ saved.active => saved.generation # 0
    BY <1>1 DEF IInv, SavedOK
  <1>10. /\ monitors' \subseteq [generation : 1..generation, failures : 0..2, probing : BOOLEAN]
         /\ \A m \in monitors' : m \in monitors \/ use_service_mode
    <2>1. CASE UNCHANGED monitors
      BY <2>1 DEF IInv, TypeOK
    <2>2. CASE StartMonitor(saved.generation, 0) /\ saved.active /\ saved.service
      <3>1. saved.generation \in 1..generation
        BY <1>9, <2>2 DEF IInv, TypeOK
      <3> QED
        BY <1>1, <1>9, <2>2, <3>1, MonitorStarted DEF IInv
    <2> QED
      BY <1>3, <2>1, <2>2
  <1>11. TypeOK'
    <2>1. desired_running' \in BOOLEAN /\ core_ready' \in BOOLEAN
      <3>1. saved.desired \in BOOLEAN /\ saved.ready \in BOOLEAN /\ saved.active \in BOOLEAN
        BY DEF IInv, TypeOK
      <3> QED
        BY <1>2, <3>1
    <2>2. FlagsTyped' /\ RecordsTyped'
      BY <1>1, <1>6, <1>10, <2>1, Types DEF IInv, FlagsTyped, RecordsTyped
    <2>3. WorldTyped' /\ TasksTyped'
      BY <1>1, <1>6, Types DEF IInv, WorldTyped, TasksTyped
    <2> QED
      BY <2>2, <2>3, Types
  <1>12. ControlOK'
    BY <1>1, <1>4, <1>7, <1>8, Roles DEF IInv, ControlOK
  <1>13. SidecarOK' /\ SavedOK'
    BY <1>1, <1>7 DEF IInv, SidecarOK, AliveIsOwned, SavedOK
  <1>14. ModeOK'
    BY <1>1, <1>10 DEF IInv, ModeOK
  <1>15. StartOK'
    <2>1. StartAt(Upgrader)'
      BY <1>7 DEF StartAt
    <2> QED
      BY <1>4, <1>7, <1>8, <2>1, StartAlone, Roles
  <1>16. WishOK'
    <2>1. ~gave_up
      BY <1>1 DEF IInv, WishOK
    <2> QED
      BY <1>1, <1>2, <1>4, <1>7, <2>1, Roles DEF IInv, WishOK
  <1>17. RecoveryIsSingle'
    <2>1. \A r, s \in Recoverers :
             /\ left[r] \notin {"idle", "after"} => recovery_scheduled
             /\ left[r] \notin {"idle", "after"} /\ left[s] \notin {"idle", "after"} => r = s
      BY <1>5, Roles DEF IInv, RecoveryOK, RecoveryIsSingle
    <2> QED
      BY <1>2, <1>5, <2>1, AsksOnce
  <1>18. RecoveryIsWanted'
    BY <1>4, <1>7, <1>8, Roles DEF RecoveryIsWanted, Starting, Held
  <1>19. core_ready /\ ~core_ready' => alive = {}
    BY <1>2, <1>9
  <1> QED
    BY <1>11, <1>12, <1>13, <1>14, <1>15, <1>16, <1>17, <1>18, <1>19 DEF IInv, RecoveryOK

\* Every process is stopped, the one that Mihomo started with them.
LEMMA UpgradeStopKeeps ==
  ASSUME IInv, UpgradeStop
  PROVE  IInv'
  <1>1. /\ pc[Upgrader] \in {"replace", "rollback"} /\ Goto(Upgrader, "activate") /\ KillSidecar
        /\ active_generation' = 0 /\ core_ready' \in BOOLEAN /\ service_core' \in BOOLEAN
        /\ desired_running' \in BOOLEAN
        /\ UNCHANGED <<core_operation, gave_up, recovery_scheduled, faults>>
        /\ UNCHANGED <<proxy_initialized, initializing, enable_service_mode>>
        /\ UNCHANGED <<generation, use_service_mode, monitors, handling>>
    BY DEF UpgradeStop, StopAfterUpdate, taskVars, IInv, TypeOK
  <1>2. unmanaged' \in BOOLEAN /\ ~unmanaged'
    BY DEF UpgradeStop, StopAfterUpdate
  <1>3. /\ saved' \in [desired : BOOLEAN, ready : BOOLEAN, generation : 0..generation,
                       service : BOOLEAN, active : BOOLEAN, rolling : BOOLEAN]
        /\ saved'.desired = saved.desired /\ saved'.active = saved.active
        /\ saved'.generation = saved.generation
    <2>1. saved \in [desired : BOOLEAN, ready : BOOLEAN, generation : 0..generation,
                     service : BOOLEAN, active : BOOLEAN, rolling : BOOLEAN]
      BY DEF IInv, TypeOK
    <2> DEFINE rolling == pc[Upgrader] = "rollback"
    <2>2. saved' = [saved EXCEPT !.rolling = rolling] /\ rolling \in BOOLEAN
      BY DEF UpgradeStop
    <2> HIDE DEF rolling
    <2> QED
      BY <2>1, <2>2
  <1>4. core_operation = Upgrader /\ pc[Boot] # "idle" /\ pc[Upgrader] \in Held
    BY <1>1, Roles, UpgradeBooted DEF IInv, ControlOK, Held
  <1>5. /\ pc' \in [Processes -> Places] /\ pc'[Upgrader] = "activate"
        /\ pc'[Exit] = pc[Exit] /\ pc'[Boot] = pc[Boot] /\ ~gave_up
        /\ ControlOK' /\ StartOK' /\ RecoveryOK'
    BY <1>1, <1>2, <1>4, UpgradeMoves DEF Held, Places
  <1>6. alive' = {} /\ exited' \subseteq 1..generation /\ sidecar' = 0 /\ exited' = exited \cup alive
    BY <1>1, Killed DEF IInv, TypeOK
  <1>7. TypeOK'
    <2>1. FlagsTyped' /\ RecordsTyped'
      BY <1>1, <1>2, <1>3, Types DEF IInv, FlagsTyped, RecordsTyped
    <2>2. WorldTyped' /\ TasksTyped'
      BY <1>1, <1>5, <1>6, Types DEF IInv, WorldTyped, TasksTyped
    <2> QED
      BY <2>1, <2>2, Types
  <1>8. SidecarOK' /\ ModeOK'
    BY <1>1, <1>6 DEF IInv, SidecarOK, AliveIsOwned, ModeOK
  <1>9. SavedOK'
    BY <1>3, <1>5 DEF IInv, SavedOK
  <1>10. WishOK'
    BY <1>1, <1>3, <1>4, <1>5 DEF IInv, WishOK, Starting, StartPlaces
  <1> QED
    BY <1>5, <1>7, <1>8, <1>9, <1>10 DEF IInv

LEMMA UpgradeActivateKeeps ==
  ASSUME IInv, UpgradeActivate \/ UpgradeActivateErr
  PROVE  IInv'
  <1>1. /\ pc[Upgrader] = "activate" /\ UNCHANGED world /\ (Fault \/ UNCHANGED faults)
        /\ UNCHANGED <<core_operation, saved, gave_up, recovery_scheduled, unmanaged, service_core>>
        /\ UNCHANGED <<proxy_initialized, initializing, enable_service_mode, core_ready>>
    BY DEF UpgradeActivate, UpgradeActivateErr, world, stateVars, worldVars, taskVars, constVars
  <1>2. PICK place \in {"begin", "started", "failed"} :
           /\ Goto(Upgrader, place)
           /\ place # "failed" => desired_running' = saved.desired
           /\ place = "failed" => desired_running' = desired_running
    BY DEF UpgradeActivate, UpgradeActivateErr, stateVars
  <1>3. core_operation = Upgrader /\ ~unmanaged /\ pc[Boot] # "idle" /\ "activate" \in Held
    BY <1>1, Roles, UpgradeBooted DEF IInv, ControlOK, Held
  <1>4. /\ pc' \in [Processes -> Places] /\ pc'[Upgrader] = place
        /\ pc'[Exit] = pc[Exit] /\ pc[Exit] # "stop" /\ pc'[Boot] = pc[Boot] /\ ~gave_up
        /\ ControlOK' /\ StartOK' /\ RecoveryOK'
    BY <1>1, <1>2, <1>3, UpgradeMoves DEF Held, Places, StartPlaces
  <1>5. TypeOK'
    <2>1. desired_running' \in BOOLEAN /\ faults' \in 0..MaxFaults
      BY <1>1, <1>2, FaultTyped DEF IInv, TypeOK
    <2> QED
      BY <1>1, <1>4, <2>1 DEF IInv, TypeOK, world
  <1>6. SidecarOK' /\ ModeOK' /\ SavedOK'
    BY <1>1, <1>4 DEF IInv, SidecarOK, AliveIsOwned, ModeOK, SavedOK, world
  <1>7. WishOK'
    BY <1>1, <1>2, <1>3, <1>4 DEF IInv, WishOK, Starting, StartPlaces
  <1> QED
    BY <1>4, <1>5, <1>6, <1>7 DEF IInv

LEMMA UpgradeReturnKeeps ==
  ASSUME IInv, UpgradeReturn
  PROVE  IInv'
  <1>1. /\ pc[Upgrader] \in {"started", "failed"} /\ UNCHANGED world
        /\ UNCHANGED <<desired_running, saved, recovery_scheduled, unmanaged, service_core, faults>>
        /\ UNCHANGED <<proxy_initialized, initializing, enable_service_mode, core_ready>>
        /\ gave_up' \in BOOLEAN
    BY DEF UpgradeReturn, world, stateVars, worldVars, taskVars, constVars, IInv, TypeOK
  <1>2. PICK place \in {"rollback", "done"} :
           /\ Goto(Upgrader, place)
           /\ place = "rollback" => UNCHANGED <<core_operation, gave_up>>
           /\ place = "done" => core_operation' = Free /\ (pc[Upgrader] = "failed" => gave_up')
    BY DEF UpgradeReturn, constVars
  <1>3. core_operation = Upgrader /\ ~unmanaged /\ pc[Boot] # "idle" /\ pc[Upgrader] \in Held
    BY <1>1, Roles, UpgradeBooted DEF IInv, ControlOK, Held
  <1>4. /\ pc' \in [Processes -> Places] /\ pc'[Upgrader] = place
        /\ pc'[Exit] = pc[Exit] /\ pc[Exit] # "stop" /\ pc'[Boot] = pc[Boot] /\ ~gave_up
        /\ ControlOK' /\ StartOK' /\ RecoveryOK'
    BY <1>1, <1>2, <1>3, UpgradeMoves DEF Held, Places, StartPlaces
  <1>5. TypeOK'
    <2>1. core_operation' \in Processes \cup {Free}
      BY <1>2 DEF IInv, TypeOK
    <2>2. FlagsTyped' /\ RecordsTyped'
      BY <1>1, Types DEF IInv, FlagsTyped, RecordsTyped, world
    <2>3. WorldTyped' /\ TasksTyped'
      BY <1>1, <1>4, <2>1, Types DEF IInv, WorldTyped, TasksTyped, world
    <2> QED
      BY <2>2, <2>3, Types
  <1>6. SidecarOK' /\ ModeOK' /\ SavedOK'
    BY <1>1, <1>4 DEF IInv, SidecarOK, AliveIsOwned, ModeOK, SavedOK, world
  <1>7. WishOK'
    BY <1>1, <1>2, <1>3, <1>4, Roles DEF IInv, WishOK, Starting, StartPlaces
  <1> QED
    BY <1>4, <1>5, <1>6, <1>7 DEF IInv

-----------------------------------------------------------------------------
(* shutdown_app.                                                           *)

\* The other tasks stay where they are, and what is left of the world is less.
LEMMA ExitMoves ==
  ASSUME IInv, NEW place \in Places, Goto(Exit, place), place # "idle",
         place = "lock" => pc[Exit] = "idle",
         UNCHANGED <<generation, use_service_mode, recovery_scheduled, saved, gave_up, unmanaged, handling>>,
         alive' \subseteq alive, alive' \cup exited' \subseteq alive \cup exited,
         monitors' \subseteq monitors,
         \/ UNCHANGED <<core_operation, active_generation, desired_running>> /\ place # "stop"
         \/ core_operation = Free /\ core_operation' = Exit
         \/ /\ pc[Exit] = "stop" /\ place # "stop" /\ core_operation' = Free
            /\ UNCHANGED <<active_generation, desired_running>>,
         ~desired_running' => place # "lock" \/ UNCHANGED desired_running
  PROVE  /\ pc' \in [Processes -> Places] /\ pc'[Exit] = place
         /\ ControlOK' /\ StartOK' /\ ModeOK' /\ SavedOK' /\ WishOK' /\ RecoveryOK'
  <1>1. /\ pc' \in [Processes -> Places] /\ pc'[Exit] = place
        /\ \A q \in Processes : q # Exit => pc'[q] = pc[q]
    BY GotoMoves, Roles DEF IInv
  <1>2. \A q \in Starters : pc'[q] = pc[q]
    BY <1>1, Roles
  <1>3. core_operation = Free \/ pc[Exit] = "stop" => \A q \in Starters : pc[q] \notin Held
    BY Roles DEF IInv, ControlOK
  <1>4. ControlOK'
    BY <1>1, <1>2, <1>3, Roles DEF IInv, ControlOK
  <1>5. StartOK'
    <2> SUFFICES ASSUME NEW q \in Starters PROVE StartAt(q)'
      BY DEF StartOK
    <2>1. StartAt(q)
      BY DEF IInv, StartOK
    <2>2. pc[q] \in Held => UNCHANGED active_generation
      BY <1>3
    <2>3. pc[q] \in {"kill", "settle", "service", "spawn"} => pc[q] \in Held
      BY DEF Held, StartPlaces
    <2> QED
      BY <1>2, <2>1, <2>2, <2>3 DEF StartAt
  <1>6. ModeOK'
    BY DEF IInv, ModeOK
  <1>7. SavedOK'
    <2>1. pc[Upgrader] \in {"upgrade", "restore"} => UNCHANGED active_generation
      BY <1>3, Roles DEF Held
    <2> QED
      BY <1>2, <2>1, Roles DEF IInv, SavedOK
  <1>8. WishOK'
    <2>1. pc'[Upgrader] = pc[Upgrader] /\ pc'[Boot] = pc[Boot]
      BY <1>2, Roles
    <2>2. CASE place # "lock"
      BY <1>1, <2>1, <2>2 DEF IInv, WishOK
    <2>3. CASE place = "lock"
      <3>1. pc[Exit] = "idle"
        BY <2>3
      <3> QED
        BY <1>1, <2>1, <2>3, <3>1, Roles DEF IInv, WishOK, Starting
    <2> QED
      BY <2>2, <2>3
  <1>9. RecoveryOK'
    <2>1. \A r \in Recoverers : pc'[r] = pc[r]
      BY <1>2, Roles
    <2>2. \A r \in Recoverers : pc[r] \in StartPlaces => desired_running'
      BY <1>3, Roles DEF IInv, RecoveryOK, RecoveryIsWanted, Starting, Held
    <2> QED
      BY <2>1, <2>2, SingleStays DEF IInv, RecoveryOK, RecoveryIsWanted, Starting
  <1> QED
    BY <1>1, <1>4, <1>5, <1>6, <1>7, <1>8, <1>9

LEMMA ExitSteps ==
  ASSUME IInv, ResetBegin \/ StopAcquire \/ StopCore \/ KillChildren \/ ExitProcess
  PROVE  IInv'
  <1>1. CASE ResetBegin
    <2>1. /\ Goto(Exit, "lock") /\ monitors' \subseteq monitors
          /\ pc[Exit] = "idle" /\ UNCHANGED <<core_operation, desired_running, saved, gave_up, unmanaged>>
          /\ UNCHANGED <<core_ready, recovery_scheduled, proxy_initialized, initializing>>
          /\ UNCHANGED <<enable_service_mode, service_core, faults>>
          /\ UNCHANGED <<generation, active_generation, use_service_mode, alive, exited, handling, sidecar>>
      BY <1>1 DEF ResetBegin, stateVars, worldVars, constVars
    <2>2. /\ pc' \in [Processes -> Places] /\ pc'[Exit] = "lock"
          /\ ControlOK' /\ StartOK' /\ ModeOK' /\ SavedOK' /\ WishOK' /\ RecoveryOK'
      BY <2>1, ExitMoves DEF Places
    <2>3. SidecarOK'
      BY <2>1, <2>2 DEF IInv, SidecarOK, AliveIsOwned
    <2>4. TypeOK'
      BY <2>1, <2>2 DEF IInv, TypeOK
    <2> QED
      BY <2>2, <2>3, <2>4 DEF IInv
  <1>2. CASE StopAcquire
    <2>1. /\ Goto(Exit, "stop") /\ core_operation = Free /\ core_operation' = Exit
          /\ UNCHANGED <<monitors, saved, gave_up, unmanaged>>
          /\ desired_running' \in BOOLEAN /\ core_ready' \in BOOLEAN /\ active_generation' = 0
          /\ UNCHANGED <<recovery_scheduled, proxy_initialized, initializing>>
          /\ UNCHANGED <<enable_service_mode, service_core, faults>>
          /\ UNCHANGED <<generation, use_service_mode, alive, exited, handling, sidecar>>
      BY <1>2 DEF StopAcquire, worldVars, taskVars, constVars
    <2>2. /\ pc' \in [Processes -> Places] /\ pc'[Exit] = "stop"
          /\ ControlOK' /\ StartOK' /\ ModeOK' /\ SavedOK' /\ WishOK' /\ RecoveryOK'
      BY <2>1, ExitMoves DEF Places
    <2>3. SidecarOK'
      BY <2>1, <2>2 DEF IInv, SidecarOK, AliveIsOwned
    <2>4. TypeOK'
      <3>1. FlagsTyped' /\ RecordsTyped'
        BY <2>1, Types DEF IInv, FlagsTyped, RecordsTyped
      <3>2. WorldTyped' /\ TasksTyped'
        BY <2>1, <2>2, Types, Roles DEF IInv, WorldTyped, TasksTyped
      <3> QED
        BY <3>1, <3>2, Types
    <2> QED
      BY <2>2, <2>3, <2>4 DEF IInv
  <1>3. CASE StopCore
    <2>1. /\ pc[Exit] = "stop" /\ Goto(Exit, "stopped") /\ core_operation' = Free
          /\ UNCHANGED <<monitors, saved, gave_up, unmanaged>>
          /\ UNCHANGED <<desired_running, core_ready, active_generation>>
          /\ UNCHANGED <<recovery_scheduled, proxy_initialized, initializing>>
          /\ UNCHANGED <<enable_service_mode, generation, use_service_mode, handling>>
          /\ service_core' \in BOOLEAN /\ (Fault \/ UNCHANGED faults)
      BY <1>3 DEF StopCore, StopByService, taskVars, constVars, IInv, TypeOK
    <2>2. /\ alive' = {} /\ exited' \subseteq 1..generation /\ exited' = exited \cup alive
          /\ sidecar' \in 0..generation
      <3>1. CASE use_service_mode
        BY <1>3, <3>1 DEF StopCore, IInv, ModeOK, TypeOK
      <3>2. CASE ~use_service_mode
        <4>1. KillSidecar
          BY <1>3, <3>2 DEF StopCore
        <4> QED
          BY <4>1, Killed DEF IInv, TypeOK
      <3> QED
        BY <3>1, <3>2
    <2>3. /\ pc' \in [Processes -> Places] /\ pc'[Exit] = "stopped"
          /\ ControlOK' /\ StartOK' /\ ModeOK' /\ SavedOK' /\ WishOK' /\ RecoveryOK'
      BY <2>1, <2>2, ExitMoves DEF Places
    <2>4. SidecarOK'
      BY <2>1, <2>2 DEF IInv, SidecarOK, AliveIsOwned
    <2>5. TypeOK'
      BY <2>1, <2>2, <2>3, FaultTyped DEF IInv, TypeOK
    <2> QED
      BY <2>3, <2>4, <2>5 DEF IInv
  <1>4. CASE KillChildren \/ ExitProcess
    <2>1. /\ \E place \in {"killed", "exited"} : Goto(Exit, place)
          /\ pc[Exit] \in {"stopped", "killed"}
          /\ \/ alive' = {} /\ exited' = exited \cup alive
             \/ UNCHANGED <<alive, exited>>
          /\ UNCHANGED <<core_operation, desired_running, saved, gave_up, unmanaged>>
          /\ UNCHANGED <<core_ready, recovery_scheduled, proxy_initialized, initializing>>
          /\ UNCHANGED <<enable_service_mode, service_core, faults, monitors>>
          /\ UNCHANGED <<generation, active_generation, use_service_mode, handling, sidecar>>
      BY <1>4 DEF KillChildren, ExitProcess, stateVars, worldVars, taskVars, constVars
    <2>2. PICK place \in {"killed", "exited"} : Goto(Exit, place)
      BY <2>1
    <2>3. /\ pc' \in [Processes -> Places] /\ pc'[Exit] = place
          /\ ControlOK' /\ StartOK' /\ ModeOK' /\ SavedOK' /\ WishOK' /\ RecoveryOK'
      BY <2>1, <2>2, ExitMoves DEF Places
    <2>4. SidecarOK'
      BY <2>1, <2>3 DEF IInv, SidecarOK, AliveIsOwned
    <2>5. TypeOK'
      <3>1. alive' \subseteq 1..generation /\ exited' \subseteq 1..generation
        BY <2>1 DEF IInv, TypeOK
      <3> QED
        BY <2>1, <2>3, <3>1 DEF IInv, TypeOK
    <2> QED
      BY <2>3, <2>4, <2>5 DEF IInv
  <1> QED
    BY <1>1, <1>2, <1>3, <1>4

-----------------------------------------------------------------------------
(* The invariant.                                                          *)

LEMMA InitIInv == Init => IInv
  <1> SUFFICES ASSUME Init PROVE IInv
    OBVIOUS
  <1>1. \A p \in Processes : pc[p] = "idle"
    BY DEF Init
  <1>2. TypeOK
    <2>1. FlagsTyped
      BY CoreManagerAssumption DEF Init, FlagsTyped
    <2>2. WorldTyped
      BY DEF Init, WorldTyped
    <2>3. RecordsTyped
      BY DEF Init, RecordsTyped, NotSaved
    <2>4. TasksTyped
      BY CoreManagerAssumption DEF Init, TasksTyped, Places
    <2> QED
      BY <2>1, <2>2, <2>3, <2>4, Types
  <1>3. ControlOK /\ WishOK
    BY <1>1, Roles DEF Init, ControlOK, WishOK, Held, StartPlaces
  <1>4. SidecarOK /\ ModeOK
    BY DEF Init, SidecarOK, AliveIsOwned, ModeOK
  <1>5. StartOK
    BY <1>1, Roles DEF StartOK, StartAt
  <1>6. SavedOK
    BY <1>1, Roles DEF Init, SavedOK, NotSaved
  <1>7. RecoveryOK
    BY <1>1, Roles DEF RecoveryOK, RecoveryIsSingle, RecoveryIsWanted, Starting, StartPlaces
  <1> QED
    BY <1>2, <1>3, <1>4, <1>5, <1>6, <1>7 DEF IInv

LEMMA ProcessSteps ==
  ASSUME IInv, NEW p \in Starters, RunCore(p) \/ Acquire(p) \/ ProcessStep(p)
  PROVE  IInv'
  <1>1. CASE p \in Recoverers /\ RecoverStep(p)
    BY <1>1, RecoverMoves, RecoverClearKeeps, AskSteps DEF RecoverStep
  <1>2. CASE UpgradeStep
    BY <1>2, UpgradeUnchangedKeeps, UpgradeReplacedKeeps, RestoreCheckKeeps, RestoreStoreKeeps,
       UpgradeStopKeeps, UpgradeActivateKeeps, UpgradeReturnKeeps DEF UpgradeStep
  <1> QED
    BY <1>1, <1>2, RunCoreKeeps, RunSteps, StartSteps, AskSteps DEF ProcessStep

LEMMA StepKeeps == IInv /\ [Next]_vars => IInv'
  <1>1. ASSUME IInv, UNCHANGED vars PROVE IInv'
    <2>1. /\ UNCHANGED world /\ UNCHANGED pc
          /\ UNCHANGED <<core_operation, desired_running, saved, gave_up, unmanaged, recovery_scheduled>>
          /\ UNCHANGED <<core_ready, proxy_initialized, initializing>>
          /\ UNCHANGED <<enable_service_mode, service_core, faults>>
      BY <1>1 DEF vars, world
    <2>2. ControlOK' /\ WishOK' /\ RecoveryOK'
      BY <1>1, <2>1, AsideMoves
    <2>3. SidecarOK' /\ StartOK' /\ ModeOK' /\ SavedOK'
      BY <1>1, <2>1, WorldStays, SavedStays DEF IInv, world
    <2>4. TypeOK'
      BY <1>1, <2>1 DEF IInv, TypeOK, world
    <2> QED
      BY <2>2, <2>3, <2>4 DEF IInv
  <1>2. ASSUME IInv, Next PROVE IInv'
    BY <1>2, ProcessSteps, HandleTerminatedKeeps, FinishTerminatedKeeps, MonitorSteps,
       InitializeSysproxyKeeps, UpgradeAcquireKeeps, ExitSteps, CrashKeeps DEF Next
  <1> QED
    BY <1>1, <1>2

LEMMA Invariant == Spec => []IInv
  BY InitIInv, StepKeeps, PTL DEF Spec, SafetySpec

-----------------------------------------------------------------------------

\* Whoever takes "ready" away from a core that lives holds the mutex: the events
\* and the monitors do so only when there is no process.
LEMMA ReadyFalls ==
  ASSUME IInv, Next, core_ready, ~core_ready', sidecar \in alive
  PROVE  core_operation' # Free
  <1>1. ASSUME NEW p \in Starters, StartStep(p)
        PROVE  core_operation' # Free
    <2>1. UNCHANGED core_operation /\ pc[p] \in StartPlaces
      BY <1>1 DEF StartStep, StartNoConfig, StartBegin, StartKill, StartSettle, StartServiceOk,
             StartServiceErr, StartServiceUndo, StartSpawn, StartSpawnErr, StartWaitErr, StartWaitOk,
             StartConfirm, StartPlaces
    <2>2. core_operation = p
      BY <2>1 DEF IInv, ControlOK, Held
    <2> QED
      BY <2>1, <2>2, Roles
  <1>2. ASSUME NEW p \in Starters, RunCore(p) \/ Acquire(p) \/ ReturnRun(p) \/ ReportFailure(p)
        PROVE  FALSE
    BY <1>2 DEF RunCore, Acquire, AcquireRun, RecoverAcquire, ReturnRun, ReportFailure, stateVars
  <1>3. ASSUME NEW r \in Recoverers, RecoverStep(r)
        PROVE  FALSE
    BY <1>3 DEF RecoverStep, RecoverLoop, RecoverWake, RecoverReturn, RecoverClear, RecoverAfter,
           stateVars
  <1>4. ASSUME UpgradeStep
        PROVE  core_operation' # Free
    <2>1. CASE RestoreStore
      BY <2>1, RestoreStoreKeeps
    <2>2. CASE UpgradeStop
      <3>1. UNCHANGED core_operation /\ pc[Upgrader] \in Held
        BY <2>2 DEF UpgradeStop, Held
      <3> QED
        BY <3>1, Roles DEF IInv, ControlOK
    <2>3. CASE UpgradeUnchanged \/ UpgradeReplaced \/ RestoreCheck \/ UpgradeActivate
               \/ UpgradeActivateErr \/ UpgradeReturn
      BY <2>3 DEF UpgradeUnchanged, UpgradeReplaced, RestoreCheck, UpgradeActivate,
             UpgradeActivateErr, UpgradeReturn, stateVars
    <2> QED
      BY <1>4, <2>1, <2>2, <2>3 DEF UpgradeStep
  <1>5. ASSUME NEW g \in exited, HandleTerminated(g)
        PROVE  FALSE
    BY <1>5 DEF HandleTerminated
  <1>6. ASSUME NEW g \in handling, FinishTerminated(g)
        PROVE  FALSE
    BY <1>6, FinishTerminatedKeeps
  <1>7. ASSUME NEW m \in monitors, MonitorTick(m) \/ MonitorRunning(m) \/ MonitorFailure(m)
        PROVE  FALSE
    BY <1>7, MonitorSteps
  <1>8. CASE StopAcquire
    BY <1>8, Roles DEF StopAcquire
  <1>9. ASSUME InitializeSysproxy \/ UpgradeAcquire \/ ResetBegin \/ StopCore \/ KillChildren
               \/ ExitProcess \/ Crash
        PROVE  FALSE
    BY <1>9 DEF InitializeSysproxy, UpgradeAcquire, ResetBegin, StopCore, KillChildren, ExitProcess,
           Crash, stateVars
  <1> QED
    BY <1>1, <1>2, <1>3, <1>4, <1>5, <1>6, <1>7, <1>8, <1>9 DEF Next, ProcessStep

(* Every variable keeps its type, the monitors' failures, the generations  *)
(* and the faults within their bounds.                                     *)
THEOREM TypeCorrect == Spec => []TypeOK
  BY Invariant, PTL DEF IInv

(* There is never a sidecar process that is not in the slot from which it  *)
(* is killed, whatever starts, deaths, late events and updates overlap     *)
(* (start_core_locked, handle_core_terminated).                            *)
THEOREM OneSidecar == Spec => []AliveIsOwned
  BY Invariant, PTL DEF IInv, SidecarOK

(* One recovery task at a time, and the flag tells of it                   *)
(* (schedule_core_recovery).                                               *)
THEOREM OneRecovery == Spec => []RecoveryIsSingle
  BY Invariant, PTL DEF IInv, RecoveryOK

(* A recovery starts only a core that is wanted (recover_core_if_needed).  *)
THEOREM WantedRecovery == Spec => []RecoveryIsWanted
  BY Invariant, PTL DEF IInv, RecoveryOK

(* An update that changed nothing or was rolled back keeps the wish        *)
(* (upgrade_core, restore_running_state_after_unchanged_update).           *)
THEOREM UpdateKeepsWish == Spec => []WishIsKept
  <1>1. IInv => WishIsKept
    BY DEF IInv, WishOK, WishIsKept
  <1> QED
    BY <1>1, Invariant, PTL

(* The core that Mihomo's updater starts is gone when the mutex is         *)
(* released (stop_core_after_self_update_locked).                          *)
THEOREM UpdateLeavesNoCore == Spec => []NoUnmanagedCore
  <1>1. IInv => NoUnmanagedCore
    BY Roles DEF IInv, ControlOK, Held, NoUnmanagedCore
  <1> QED
    BY <1>1, Invariant, PTL

(* Neither the termination event of an older core, nor a monitor, nor an   *)
(* update that changed nothing takes "ready" from a core that lives        *)
(* (handle_core_terminated, start_service_monitor).                        *)
THEOREM OldEventsAreHarmless == Spec => OldEventsHarmless
  <1>1. IInv /\ [Next]_vars
          => [core_ready /\ ~core_ready' /\ sidecar \in alive => core_operation' # Free]_vars
    BY ReadyFalls
  <1> QED
    BY <1>1, Invariant, PTL DEF Spec, SafetySpec, OldEventsHarmless
==============================================================================
