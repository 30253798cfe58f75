------------------------------ MODULE SysProxy ------------------------------
(***************************************************************************)
(* The Windows system proxy (core/sysopt, sysproxy-rs/src/windows.rs): the *)
(* values in the registry that every program may change, the journal in    *)
(* the registry that brings the user's own values back after a crash, and  *)
(* the copies in memory that do so on a normal exit.                       *)
(*                                                                         *)
(* Five threads write: init_sysproxy once the core is ready, the           *)
(* update_sysproxy of a patch of the settings and of the periodic heal, the*)
(* guard's cycle, and reset_sysproxy at the exit.  The mutex               *)
(* proxy_operation is theirs in turn; other programs and the end of the    *)
(* process respect no mutex, so every write is a step of its own.          *)
(*                                                                         *)
(* A snapshot has three values: whether a proxy is on, its server (with    *)
(* the bypass list), and whether a PAC script is set.  old_sysproxy always *)
(* goes with old_windows_proxy and is left out.                            *)
(*                                                                         *)
(* Definitions whose names begin with Bug are mistakes the code does not   *)
(* make: substituted for the definition they precede, each must break the  *)
(* property its comment names.                                             *)
(***************************************************************************)
EXTENDS Integers

CONSTANTS
    Targets,       \* servers of the app: ports and bypass lists it may be set to
    User,          \* a server other software sets
    NoServer,      \* no server value
    None,          \* no snapshot, no journal, no setting known
    Free,          \* nobody holds proxy_operation
    MaxPatches,    \* bound: patches of the settings
    MaxEvents      \* bound: failed calls, changes by other software and ends of the
                   \* process, normal or not, taken together

Updaters == {"init", "patch", "heal"}
Processes == Updaters \cup {"guard", "exit"}

Values == {"on", "server", "pac"}
Snapshots == [on : BOOLEAN, server : Targets \cup {User, NoServer}, pac : BOOLEAN]
Settings == [enable : BOOLEAN, target : Targets]
Phases == [phase : {"prepared", "owned"}, original : Snapshots, owned : Snapshots \cup {None},
           target : Targets]

ASSUME SysProxyAssumption ==
    /\ Targets # {} /\ "off" \notin Targets
    /\ User \notin Targets /\ NoServer \notin Targets /\ User # NoServer
    /\ None \notin Targets \cup {"off"} \cup Snapshots \cup Phases
    /\ Free \notin Processes
    /\ MaxPatches \in Nat /\ MaxEvents \in Nat

VARIABLES
    registry,            \* the proxy values in the registry
    journal,             \* ProxyRecovery: [phase, original, owned, target], or None
    cur_sysproxy,        \* None, "off" or the target that was set last
    old_windows_proxy,   \* snapshot of the original values, or None
    owned_windows_proxy, \* snapshot after the app's own write, or None
    latest, committed,   \* the settings as drafted, and as applied
    proxy_operation,     \* holder of the mutex, or Free
    pc,
    op,                  \* locals of the update that holds the mutex
    guard_target,        \* local of the guard's cycle
    guard_scheduled,     \* system_proxy.guard waits in the one-shot scheduler
    taken,               \* history: the app has taken the proxy and not given it back
    theirs,              \* history: the values before the app took it
    written,             \* history: the values after the app's last write
    spoiled,             \* history: a last restore failed, others wrote in the middle of an
                         \* enable, others switched the app's own target on, the guard
                         \* wrote without a journal, or a rollback journalled the
                         \* values of others as the app's own
    counts               \* patches and events so far

memVars == <<cur_sysproxy, old_windows_proxy, owned_windows_proxy>>
settingVars == <<latest, committed>>
taskVars == <<guard_target, guard_scheduled>>
historyVars == <<taken, theirs, written, spoiled>>
vars == <<registry, journal, memVars, settingVars, proxy_operation, pc, op, taskVars,
          historyVars, counts>>

Begun(again, target) ==
    [again |-> again, target |-> target, snap |-> None, save |-> FALSE, taken |-> FALSE,
     theirs |-> None, written |-> None]

NoOp == Begun(FALSE, None)

Init ==
    /\ registry \in [on : {FALSE}, server : {NoServer}, pac : BOOLEAN]
                        \cup {[on |-> TRUE, server |-> User, pac |-> FALSE]}
    /\ journal = None
    /\ cur_sysproxy = None /\ old_windows_proxy = None /\ owned_windows_proxy = None
    /\ latest \in Settings /\ committed = latest
    /\ proxy_operation = Free
    /\ pc = [p \in Processes |-> IF p = "init" THEN "boot" ELSE "idle"]
    /\ op = NoOp
    /\ guard_target = None /\ guard_scheduled = FALSE
    /\ taken = FALSE /\ theirs = None /\ written = None /\ spoiled = FALSE
    /\ counts = [patches |-> 0, events |-> 0]

Goto(p, place) == pc' = [pc EXCEPT ![p] = place]

Count(what, bound) == counts[what] < bound /\ counts' = [counts EXCEPT ![what] = @ + 1]

Event == Count("events", MaxEvents)

Fault == Event

\* The registry holds a proxy of the app that the app still answers for.
Ours == taken /\ registry.on /\ registry.server \in Targets

-----------------------------------------------------------------------------
(* What the calls of sysproxy-rs write and compare.                        *)

\* set_system_proxy with a target, by WinINet or the registry; PAC is removed.
On(target) == [on |-> TRUE, server |-> target, pac |-> FALSE]

\* set_system_proxy with a disabled proxy: the server stays, PAC is removed.
Off(values) == [values EXCEPT !.on = FALSE, !.pac = FALSE]

\* is_sysproxy_match of the parsed values with cur_sysproxy: two disabled
\* proxies match.
Matches(values, cur) ==
    \/ cur = "off" /\ ~values.on
    \/ cur \in Targets /\ values.on /\ values.server = cur

\* Breaks ForeignKept: every value is restored.
BugRestoreIfUnchanged(original, owned, current) == original

\* restore_if_unchanged: value by value, what others changed is left alone.
RestoreIfUnchanged(original, owned, current) ==
    [v \in Values |-> IF current[v] = owned[v] THEN original[v] ELSE current[v]]

RecoveryTarget(j, current) == Matches(current, j.target)

\* recover_pending fails on a prepared journal that fits nothing.
Unrecoverable(j, current) ==
    /\ j # None
    /\ current # j.original
    /\ j.phase = "prepared" /\ ~RecoveryTarget(j, current)

\* The values that recover_pending leaves behind.
RecoveredValues(j, current) ==
    IF current = j.original \/ ~RecoveryTarget(j, current) THEN current
    ELSE IF j.phase = "owned" THEN RestoreIfUnchanged(j.original, j.owned, current)
    ELSE RestoreIfUnchanged(j.original, current, current)

\* guard_proxy: the guard waits for its next cycle while the proxy is wanted.
GuardProxy == guard_scheduled' = latest.enable

-----------------------------------------------------------------------------
(* Taking and leaving the mutex.                                           *)

\* init_sysproxy runs, again and again until it succeeds, while the core is
\* ready.
InitAcquire ==
    /\ pc["init"] = "idle"
    /\ proxy_operation = Free
    /\ proxy_operation' = "init"
    /\ Goto("init", "recover")
    /\ UNCHANGED <<registry, journal, memVars, settingVars, op, taskVars, historyVars, counts>>

\* A patch drafts its settings; it may also leave them as they are.
PatchBegin ==
    /\ pc["patch"] = "idle" /\ pc["init"] \notin {"boot", "boot_clear"}
    /\ Count("patches", MaxPatches)
    /\ latest' \in Settings
    /\ Goto("patch", "lock")
    /\ UNCHANGED <<registry, journal, memVars, committed, proxy_operation, op, taskVars,
                   historyVars>>

\* heal_sysproxy looks without the mutex and asks for an update if the values
\* have drifted.
HealBegin ==
    /\ pc["heal"] = "idle" /\ pc["exit"] = "idle" /\ pc["init"] \notin {"boot", "boot_clear"}
    /\ latest.enable
    /\ ~Matches(registry, latest.target)
    /\ Goto("heal", "lock")
    /\ UNCHANGED <<registry, journal, memVars, settingVars, proxy_operation, op, taskVars,
                   historyVars, counts>>

\* update_sysproxy takes the mutex and only then reads the settings.
UpdateAcquire(p) ==
    /\ p \in {"patch", "heal"}
    /\ pc[p] \in {"lock", "relock"}
    /\ proxy_operation = Free
    /\ proxy_operation' = p
    /\ op' = Begun(pc[p] = "relock", latest.target)
    /\ Goto(p, IF latest.enable THEN "capture" ELSE "disable")
    /\ UNCHANGED <<registry, journal, memVars, settingVars, taskVars, historyVars, counts>>

\* An update, or init_sysproxy, returns.
Release(p) ==
    /\ p \in Updaters
    /\ pc[p] \in {"ok", "failed"}
    /\ proxy_operation' = Free
    /\ op' = NoOp
    /\ Goto(p, CASE pc[p] = "ok" -> IF op.again THEN "undone" ELSE "after"
                 [] pc[p] = "failed" -> IF op.again THEN "idle" ELSE "undo")
    /\ UNCHANGED <<registry, journal, memVars, settingVars, taskVars, historyVars, counts>>

\* An update that succeeded registers the guard, and a patch is applied ...
After(p) ==
    /\ p \in Updaters
    /\ pc[p] \in {"after", "undone"}
    /\ committed' = IF p = "patch" THEN latest ELSE committed
    /\ GuardProxy
    /\ Goto(p, IF p = "init" THEN "done" ELSE "idle")
    /\ UNCHANGED <<registry, journal, memVars, latest, proxy_operation, op, guard_target,
                   historyVars, counts>>

\* ... or a later part of it fails.
PatchErr ==
    /\ pc["patch"] = "after"
    /\ Fault
    /\ GuardProxy
    /\ Goto("patch", "undo")
    /\ UNCHANGED <<registry, journal, memVars, settingVars, proxy_operation, op, guard_target,
                   historyVars>>

\* Breaks OffMeansOff: the draft is discarded and the proxy left as it is.
BugUndo(p) ==
    /\ pc[p] = "undo"
    /\ latest' = IF p = "patch" THEN committed ELSE latest
    /\ guard_scheduled' = IF p = "init" THEN latest.enable ELSE guard_scheduled
    /\ Goto(p, "idle")
    /\ UNCHANGED <<registry, journal, memVars, committed, proxy_operation, op, guard_target,
                   historyVars, counts>>

\* A patch that failed is discarded and the previous settings are set up again,
\* once.  init_sysproxy is retried, and registers the guard although it failed.
Undo(p) ==
    /\ pc[p] = "undo"
    /\ latest' = IF p = "patch" THEN committed ELSE latest
    /\ guard_scheduled' = IF p = "init" THEN latest.enable ELSE guard_scheduled
    /\ Goto(p, IF p = "patch" THEN "relock" ELSE "idle")
    /\ UNCHANGED <<registry, journal, memVars, committed, proxy_operation, op, guard_target,
                   historyVars, counts>>

-----------------------------------------------------------------------------
(* recover_pending, at the start and again in init_sysproxy.               *)

Recovering == pc["init"] \in {"boot", "recover"}

\* Where recovery leads to when it is over: at the start, errors are logged.
AfterRecovery(place) ==
    Goto("init", CASE place \in {"boot", "boot_clear"} -> "idle"
                   [] place \in {"recover", "clear"}   -> "begin")

RecoverNothing ==
    /\ Recovering
    /\ journal = None
    /\ AfterRecovery(pc["init"])
    /\ UNCHANGED <<registry, journal, memVars, settingVars, proxy_operation, op, taskVars,
                   historyVars, counts>>

RecoverRestore ==
    /\ Recovering
    /\ journal # None /\ ~Unrecoverable(journal, registry)
    /\ registry' = RecoveredValues(journal, registry)
    /\ taken' = FALSE
    /\ Goto("init", IF pc["init"] = "boot" THEN "boot_clear" ELSE "clear")
    /\ UNCHANGED <<journal, memVars, settingVars, proxy_operation, op, taskVars, theirs,
                   written, spoiled, counts>>

\* The journal fits nothing, or the registry cannot be written.
RecoverErr ==
    /\ Recovering
    /\ journal # None
    /\ IF Unrecoverable(journal, registry) THEN UNCHANGED counts ELSE Fault
    /\ spoiled' = TRUE
    /\ Goto("init", IF pc["init"] = "boot" THEN "idle" ELSE "failed")
    /\ UNCHANGED <<registry, journal, memVars, settingVars, proxy_operation, op, taskVars,
                   taken, theirs, written>>

RecoverClear ==
    /\ pc["init"] \in {"boot_clear", "clear"}
    /\ journal' = None
    /\ AfterRecovery(pc["init"])
    /\ UNCHANGED <<registry, memVars, settingVars, proxy_operation, op, taskVars, historyVars,
                   counts>>

\* init_sysproxy with the proxy switched off only notes it.
InitBegin ==
    /\ pc["init"] = "begin"
    /\ IF latest.enable
       THEN Goto("init", "capture") /\ UNCHANGED cur_sysproxy
       ELSE Goto("init", "ok") /\ cur_sysproxy' = "off"
    /\ op' = Begun(FALSE, latest.target)
    /\ UNCHANGED <<registry, journal, old_windows_proxy, owned_windows_proxy, settingVars,
                   proxy_operation, taskVars, historyVars, counts>>

-----------------------------------------------------------------------------
(* Enabling, in init_sysproxy and update_sysproxy.                         *)

\* Breaks GivesBack: whatever is found is saved as the original.
BugShouldSaveOld(p) == TRUE

\* init_sysproxy saves what is not the target already; update_sysproxy what is
\* not the app's own current proxy.
ShouldSaveOld(p) ==
    IF p = "init" THEN ~Matches(registry, op.target)
    ELSE ~(cur_sysproxy \in Targets /\ Matches(registry, cur_sysproxy))

\* The listener answers and the values are captured.
EnableCapture(p) ==
    /\ pc[p] = "capture"
    /\ op' = [again |-> op.again, target |-> op.target, snap |-> registry,
              save |-> ShouldSaveOld(p),
              taken |-> taken, theirs |-> theirs, written |-> written]
    /\ Goto(p, "prepare")
    /\ UNCHANGED <<registry, journal, memVars, settingVars, proxy_operation, taskVars,
                   historyVars, counts>>

\* No listener, no snapshot or no journal: nothing has been touched.
EnableRefused(p) ==
    /\ pc[p] \in {"capture", "prepare"}
    /\ Fault
    /\ Goto(p, "failed")
    /\ UNCHANGED <<registry, journal, memVars, settingVars, proxy_operation, op, taskVars,
                   historyVars>>

RecoveryOriginal(p) ==
    IF p = "init" \/ op.save \/ old_windows_proxy = None THEN op.snap ELSE old_windows_proxy

EnablePrepare(p) ==
    /\ pc[p] = "prepare"
    /\ journal' = [phase |-> "prepared", original |-> RecoveryOriginal(p), owned |-> None,
                   target |-> op.target]
    /\ Goto(p, "set")
    /\ UNCHANGED <<registry, memVars, settingVars, proxy_operation, op, taskVars, historyVars,
                   counts>>

\* The values are written.
Take(target) ==
    /\ registry' = On(target)
    /\ taken' = TRUE
    /\ theirs' = IF Ours THEN theirs ELSE registry
    /\ written' = On(target)

EnableSet(p) ==
    /\ pc[p] = "set"
    /\ Take(op.target)
    /\ Goto(p, "own")
    /\ UNCHANGED <<journal, memVars, settingVars, proxy_operation, op, taskVars, spoiled, counts>>

\* Three attempts have failed, and the values may have been written or not.
EnableSetErr(p) ==
    /\ pc[p] = "set"
    /\ Fault
    /\ \/ Take(op.target)
       \/ UNCHANGED <<registry, taken, theirs, written>>
    /\ Goto(p, "rollback")
    /\ UNCHANGED <<journal, memVars, settingVars, proxy_operation, op, taskVars, spoiled>>

\* record_owned_recovery: the journal with the app's own values.
RecordOwned(owned, target) ==
    [phase |-> "owned", original |-> journal.original, owned |-> owned, target |-> target]

\* The values after the write are captured, journalled and remembered.
EnableOwn(p) ==
    /\ pc[p] = "own"
    /\ \/ /\ journal' = RecordOwned(registry, journal.target)
          /\ UNCHANGED counts
       \/ Fault /\ UNCHANGED journal
    /\ old_windows_proxy' = IF op.save THEN op.snap ELSE old_windows_proxy
    /\ owned_windows_proxy' = registry
    /\ cur_sysproxy' = op.target
    /\ Goto(p, "ok")
    /\ UNCHANGED <<registry, settingVars, proxy_operation, op, taskVars, historyVars>>

EnableOwnErr(p) ==
    /\ pc[p] = "own"
    /\ Fault
    /\ Goto(p, "rollback")
    /\ UNCHANGED <<registry, journal, memVars, settingVars, proxy_operation, op, taskVars,
                   historyVars>>

\* WindowsProxySnapshot::restore of what was captured, or its failure.
Rollback(p) ==
    /\ pc[p] = "rollback"
    /\ \/ /\ registry' = op.snap
          /\ taken' = op.taken /\ theirs' = op.theirs /\ written' = op.written
          /\ UNCHANGED <<counts, spoiled>>
       \/ /\ Fault
          /\ spoiled' = TRUE
          /\ UNCHANGED <<registry, taken, theirs, written>>
    /\ Goto(p, "rearm")
    /\ UNCHANGED <<journal, memVars, settingVars, proxy_operation, op, taskVars>>

\* Breaks CrashSafe: the journal is cleared though the app still has the proxy.
BugRearmed(p) == None

\* rearm_windows_proxy_recovery: the journal of the state that was rolled back
\* to; init_sysproxy clears it.
Rearmed(p) ==
    IF p = "init" \/ cur_sysproxy \notin Targets THEN None
    ELSE [phase |-> "owned", owned |-> op.snap, target |-> cur_sysproxy,
          original |-> IF old_windows_proxy = None THEN op.snap ELSE old_windows_proxy]

Rearm(p) ==
    /\ pc[p] = "rearm"
    /\ journal' = Rearmed(p)
    /\ spoiled' = (spoiled \/ (Rearmed(p) # None /\ op.snap # written))
    /\ Goto(p, "failed")
    /\ UNCHANGED <<registry, memVars, settingVars, proxy_operation, op, taskVars, taken, theirs,
                   written, counts>>

-----------------------------------------------------------------------------
(* Disabling, in update_sysproxy.                                          *)

\* Breaks TypeOK: the original is kept when the proxy is given up.
BugForget ==
    owned_windows_proxy' = None /\ cur_sysproxy' = "off" /\ UNCHANGED old_windows_proxy

Forget == old_windows_proxy' = None /\ owned_windows_proxy' = None /\ cur_sysproxy' = "off"

\* The current values are not the app's: they stay, and all is forgotten.
DisableSkip(p) ==
    /\ pc[p] = "disable"
    /\ ~Matches(registry, cur_sysproxy)
    /\ Forget
    /\ journal' = None
    /\ taken' = FALSE
    /\ Goto(p, "ok")
    /\ UNCHANGED <<registry, settingVars, proxy_operation, op, taskVars, theirs, written,
                   spoiled, counts>>

DisableOwned(p) ==
    /\ pc[p] = "disable"
    /\ Matches(registry, cur_sysproxy)
    /\ Goto(p, "give_back")
    /\ UNCHANGED <<registry, journal, memVars, settingVars, proxy_operation, op, taskVars,
                   historyVars, counts>>

\* Restored from the original, or switched off where there is none.  There is
\* never an original without the owned snapshot (TypeOK).
DisableGiveBack(p) ==
    /\ pc[p] = "give_back"
    /\ registry' =
          IF old_windows_proxy # None
          THEN RestoreIfUnchanged(old_windows_proxy, owned_windows_proxy, registry)
          ELSE IF owned_windows_proxy \notin {None, registry} THEN registry
          ELSE Off(registry)
    /\ taken' = FALSE
    /\ Goto(p, "forget")
    /\ UNCHANGED <<journal, memVars, settingVars, proxy_operation, op, taskVars, theirs,
                   written, spoiled, counts>>

\* The patch that switches the proxy off sets it up again; nothing tries again
\* when this is what fails.
DisableErr(p) ==
    /\ pc[p] = "give_back"
    /\ Fault
    /\ spoiled' = (spoiled \/ op.again)
    /\ Goto(p, "failed")
    /\ UNCHANGED <<registry, journal, memVars, settingVars, proxy_operation, op, taskVars,
                   taken, theirs, written>>

DisableForget(p) ==
    /\ pc[p] = "forget"
    /\ Forget
    /\ journal' = None
    /\ Goto(p, "ok")
    /\ UNCHANGED <<registry, settingVars, proxy_operation, op, taskVars, historyVars, counts>>

-----------------------------------------------------------------------------
(* The guard's cycle.                                                      *)

\* It reads the settings and waits for the listener without the mutex.
GuardBegin ==
    /\ pc["guard"] = "idle"
    /\ guard_scheduled
    /\ guard_scheduled' = FALSE
    /\ IF latest.enable
       THEN guard_target' = latest.target /\ Goto("guard", "lock")
       ELSE UNCHANGED <<guard_target, pc>>
    /\ UNCHANGED <<registry, journal, memVars, settingVars, proxy_operation, op, historyVars,
                   counts>>

\* The listener did not answer: the next cycle tries again.
GuardRefused ==
    /\ pc["guard"] = "lock"
    /\ guard_scheduled' = TRUE /\ guard_target' = None
    /\ Goto("guard", "idle")
    /\ UNCHANGED <<registry, journal, memVars, settingVars, proxy_operation, op, historyVars,
                   counts>>

StillEnabled == latest.enable

GuardAcquire ==
    /\ pc["guard"] = "lock"
    /\ proxy_operation = Free
    /\ IF StillEnabled
       THEN proxy_operation' = "guard" /\ Goto("guard", "set") /\ UNCHANGED guard_target
       ELSE Goto("guard", "idle") /\ guard_target' = None /\ UNCHANGED proxy_operation
    /\ UNCHANGED <<registry, journal, memVars, settingVars, op, guard_scheduled, historyVars,
                   counts>>

\* The target is written, whatever was there.
GuardSet ==
    /\ pc["guard"] = "set"
    /\ registry' = On(guard_target)
    /\ written' = On(guard_target)
    /\ spoiled' = (spoiled \/ journal = None)
    /\ Goto("guard", "own")
    /\ UNCHANGED <<journal, memVars, settingVars, proxy_operation, op, taskVars, taken, theirs,
                   counts>>

GuardSetErr ==
    /\ pc["guard"] = "set"
    /\ Fault
    /\ Goto("guard", "done")
    /\ UNCHANGED <<registry, journal, memVars, settingVars, proxy_operation, op, taskVars,
                   historyVars>>

\* refresh_app_owned_values: all is captured again but the PAC script.
Refreshed == [registry EXCEPT !.pac = owned_windows_proxy.pac]

\* What is remembered follows, and with it the journal.
GuardOwn ==
    /\ pc["guard"] = "own"
    /\ IF owned_windows_proxy = None THEN UNCHANGED <<owned_windows_proxy, journal, counts>>
       ELSE /\ owned_windows_proxy' = Refreshed
            /\ \/ /\ journal' = IF journal = None THEN None
                                ELSE RecordOwned(Refreshed, guard_target)
                  /\ UNCHANGED counts
               \/ Fault /\ UNCHANGED journal
    /\ Goto("guard", "done")
    /\ UNCHANGED <<registry, cur_sysproxy, old_windows_proxy, settingVars, proxy_operation, op,
                   taskVars, historyVars>>

GuardReturn ==
    /\ pc["guard"] = "done"
    /\ proxy_operation' = Free
    /\ guard_scheduled' = TRUE /\ guard_target' = None
    /\ Goto("guard", "idle")
    /\ UNCHANGED <<registry, journal, memVars, settingVars, op, historyVars, counts>>

-----------------------------------------------------------------------------
(* The exit, the end of the process and other software.                    *)

\* resolve_reset: the scheduler is emptied, then reset_sysproxy is called.
ExitBegin ==
    /\ pc["exit"] = "idle" /\ pc["init"] \notin {"boot", "boot_clear"}
    /\ guard_scheduled' = FALSE
    /\ Goto("exit", "lock")
    /\ UNCHANGED <<registry, journal, memVars, settingVars, proxy_operation, op, guard_target,
                   historyVars, counts>>

ResetAcquire ==
    /\ pc["exit"] = "lock"
    /\ proxy_operation = Free
    /\ proxy_operation' = "exit"
    /\ Goto("exit", "reset")
    /\ UNCHANGED <<registry, journal, memVars, settingVars, op, taskVars, historyVars, counts>>

\* The values are given back if they are the app's, and left alone otherwise.
ResetValues ==
    IF ~Matches(registry, cur_sysproxy) THEN registry
    ELSE IF old_windows_proxy # None
         THEN RestoreIfUnchanged(old_windows_proxy, owned_windows_proxy, registry)
    ELSE IF owned_windows_proxy = registry THEN Off(registry)
    ELSE registry

\* The snapshots are taken out of memory first, so a failure loses them.
TakeSnapshots ==
    cur_sysproxy' = None /\ old_windows_proxy' = None /\ owned_windows_proxy' = None

ResetRestore ==
    /\ pc["exit"] = "reset"
    /\ registry' = ResetValues
    /\ TakeSnapshots
    /\ taken' = FALSE
    /\ Goto("exit", "clear")
    /\ UNCHANGED <<journal, settingVars, proxy_operation, op, taskVars, theirs, written,
                   spoiled, counts>>

ResetErr ==
    /\ pc["exit"] = "reset"
    /\ Matches(registry, cur_sysproxy)
    /\ Fault
    /\ TakeSnapshots
    /\ spoiled' = TRUE
    /\ proxy_operation' = Free
    /\ Goto("exit", "done")
    /\ UNCHANGED <<registry, journal, settingVars, op, taskVars, taken, theirs, written>>

ResetClear ==
    /\ pc["exit"] = "clear"
    /\ journal' = None
    /\ proxy_operation' = Free
    /\ Goto("exit", "done")
    /\ UNCHANGED <<registry, memVars, settingVars, op, taskVars, historyVars, counts>>

\* The process ends, by its exit or by a crash at any moment, and is started
\* again; the registry and the applied settings are what is left.
ProcessEnds ==
    /\ Event
    /\ cur_sysproxy' = None /\ old_windows_proxy' = None /\ owned_windows_proxy' = None
    /\ latest' = committed
    /\ proxy_operation' = Free
    /\ pc' = [p \in Processes |-> IF p = "init" THEN "boot" ELSE "idle"]
    /\ op' = NoOp
    /\ guard_target' = None /\ guard_scheduled' = FALSE
    /\ UNCHANGED <<registry, journal, committed, historyVars>>

\* Another program, or the user in the Windows settings, sets its own proxy,
\* switches the proxy, or sets or removes a PAC script.
External ==
    /\ Event
    /\ \E new \in {[on |-> TRUE, server |-> User, pac |-> registry.pac],
                   [registry EXCEPT !.on = ~@], [registry EXCEPT !.pac = ~@]} :
          /\ new # registry
          /\ new.on => new.server # NoServer
          /\ registry' = new
          /\ spoiled' = \/ spoiled
                        \/ new.on /\ new.server \in Targets /\ ~registry.on
                        \/ \E p \in Updaters \cup {"guard"} :
                              pc[p] \in {"prepare", "set", "own", "rollback", "rearm"}
    /\ UNCHANGED <<journal, memVars, settingVars, proxy_operation, pc, op, taskVars, taken, theirs,
                   written>>

-----------------------------------------------------------------------------

Update(p) ==
    \/ Release(p) \/ After(p) \/ Undo(p)
    \/ EnableCapture(p) \/ EnableRefused(p) \/ EnablePrepare(p) \/ EnableSet(p)
    \/ EnableSetErr(p) \/ EnableOwn(p) \/ EnableOwnErr(p) \/ Rollback(p) \/ Rearm(p)
    \/ DisableSkip(p) \/ DisableOwned(p) \/ DisableGiveBack(p) \/ DisableErr(p)
    \/ DisableForget(p)

Recover == RecoverNothing \/ RecoverRestore \/ RecoverErr \/ RecoverClear

Guard == GuardBegin \/ GuardRefused \/ GuardAcquire \/ GuardSet \/ GuardSetErr \/ GuardOwn
             \/ GuardReturn

Reset == ExitBegin \/ ResetAcquire \/ ResetRestore \/ ResetErr \/ ResetClear

Next ==
    \/ InitAcquire \/ Recover \/ InitBegin
    \/ PatchBegin \/ PatchErr \/ HealBegin \/ \E p \in Updaters : UpdateAcquire(p) \/ Update(p)
    \/ Guard \/ Reset \/ ProcessEnds \/ External

Spec == Init /\ [][Next]_vars

-----------------------------------------------------------------------------

Places == {"boot", "boot_clear", "idle", "lock", "recover", "clear", "begin", "capture",
           "prepare", "set", "own", "rollback", "rearm", "disable", "give_back", "forget", "ok",
           "failed", "after", "undo", "relock",
           "undone", "reset", "done"}

Locals == [again : BOOLEAN, target : Targets \cup {None}, snap : Snapshots \cup {None},
           save : BOOLEAN, taken : BOOLEAN, theirs : Snapshots \cup {None},
           written : Snapshots \cup {None}]

\* An original is never remembered without the owned snapshot that it goes
\* with: update_sysproxy and reset_sysproxy have a branch for the case, which
\* would lose the user's values.
TypeOK ==
    /\ registry \in Snapshots
    /\ journal \in Phases \cup {None}
    /\ cur_sysproxy \in Targets \cup {"off", None}
    /\ old_windows_proxy \in Snapshots \cup {None}
    /\ owned_windows_proxy \in Snapshots \cup {None}
    /\ old_windows_proxy # None => owned_windows_proxy # None
    /\ latest \in Settings /\ committed \in Settings
    /\ proxy_operation \in Processes \cup {Free}
    /\ pc \in [Processes -> Places]
    /\ op \in Locals
    /\ guard_target \in Targets \cup {None} /\ guard_scheduled \in BOOLEAN
    /\ taken \in BOOLEAN /\ spoiled \in BOOLEAN
    /\ theirs \in Snapshots \cup {None} /\ written \in Snapshots \cup {None}

\* "values" are what was there before the app took the proxy; a PAC script that
\* others changed since may be as they left it.
AreTheirs(values) ==
    /\ values.on = theirs.on /\ values.server = theirs.server
    /\ values.pac = theirs.pac \/ registry.pac # written.pac

\* Whenever the app has the proxy, the process may end at once: the journal is
\* there and fits, and the next start brings the user's values back.  This is
\* so through enabling, failed enabling, repairs, drift, guard and exit.
CrashSafe ==
    Ours /\ ~spoiled =>
        /\ journal # None
        /\ ~Unrecoverable(journal, registry)
        /\ AreTheirs(RecoveredValues(journal, registry))

\* However the proxy is given up, by a patch, by the exit or by recovery, the
\* user's values come back.
GivesBack ==
    [][Ours /\ ~taken' /\ ~spoiled => AreTheirs(registry')]_vars

\* No restore undoes what another program wrote after the app, also between the
\* look at the parsed values and the restore.  A journal that is only
\* prepared, or was rearmed by a rollback, does not hold the app's own write:
\* recovery cannot tell then, and restores everything.
ForeignKept ==
    [][taken /\ ~taken' /\ ~spoiled /\ ~(Recovering /\ journal.owned # written) =>
          \A v \in Values : registry[v] # written[v] => registry'[v] = registry[v]]_vars

\* When the proxy is switched off and nobody works on it, the app does not have
\* it, whatever failed, drifted, was guarded or was rolled back before.
OffMeansOff ==
    /\ ~latest.enable /\ proxy_operation = Free
    /\ \A p \in {"patch", "heal"} : pc[p] = "idle"
    /\ pc["init"] \in {"idle", "done"}
    /\ ~spoiled
    => ~Ours

\* windows.rs:466 and proxy.rs:375: recover_pending recovers a session that
\* ended without the exit handler, and a journal that is only prepared is
\* usable.  However the process ended, the start can handle the journal.
RecoveryAlwaysPossible ==
    pc["init"] = "boot" /\ ~spoiled => ~Unrecoverable(journal, registry)
=============================================================================
