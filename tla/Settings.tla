------------------------------ MODULE Settings ------------------------------
(***************************************************************************)
(* The settings of the program and the commands that change them.          *)
(*                                                                         *)
(* Four documents (config/config.rs) hold a committed value and a draft    *)
(* (config/draft.rs): the program's settings, the core's base settings,    *)
(* the list of profiles and the configuration generated from all of them.  *)
(* A command writes its draft, carries the change out in stages (run file, *)
(* running core, auto launch, system proxy, hotkeys, firewall), saves the  *)
(* document and commits; when a stage fails it drops the draft and carries *)
(* the old settings out again.  Nothing serializes the commands: they run  *)
(* on several threads and share the drafts, the run file and the core.     *)
(*                                                                         *)
(* `before', `alone', `whole' and `swallowed' of a command are kept for    *)
(* the properties only.                                                    *)
(***************************************************************************)
EXTENDS Integers, Sequences, SequencesExt

CONSTANTS
    Procs,       \* who runs commands: the window, the periodic tasks
    Commands,    \* Commands[p]: the commands p may run
    Uids,        \* identities of profiles
    Remote,      \* the profiles with an update interval
    Script,      \* the identity of the global script
    None,        \* no draft, no current profile, no core, no command
    Boots,       \* settings the program may have booted with
    MaxCommands, \* bound: commands begun
    MaxFaults    \* bound: operations that fail although they could succeed

Cores == {"mihomo", "alpha"}
Scripts == {"s0", "s1"}

\* The documents: the program's settings, the core's base settings, the list of
\* profiles, and the configuration generated from them.
Verges == [service : BOOLEAN, tun : BOOLEAN, launch : BOOLEAN, proxy : BOOLEAN,
           port : {"p1", "p2"}, hotkeys : {"h1", "h2"}, core : Cores]
Clashes == [port : {"p1", "p2"}, lan : BOOLEAN, log : {"info", "debug"}, stack : {"gvisor", "mixed"}]
Profiles == [items : Seq(Uids), current : Uids \cup {None}]
Runs == [tun : BOOLEAN, stack : {"absent", "gvisor", "mixed"}, core : Cores,
         port : {"p1", "p2"}, lan : BOOLEAN, log : {"info", "debug"},
         profile : Uids \cup {None}, script : Scripts]

LaunchStates == [task : {"none", "ours", "stale", "foreign"}, legacy : {"none", "ours", "foreign"}]

Listed(p) == Range(p.items)

\* A list without doubles, whose current profile is one of it.
Sound(p) == IsInjective(p.items) /\ p.current \in Listed(p) \cup {None}

\* A patch names some fields of a document.
IsPatch(a, documents) ==
    \E d \in documents : DOMAIN a \subseteq DOMAIN d /\ \A k \in DOMAIN a : a[k] = d[k]

Kinds == {"verge", "clash", "core", "switch", "script", "enhance", "edit"}
Edits == {"import", "update", "timed", "delete", "patch", "reorder"}

IsCommand(c) ==
    /\ c.kind \in Kinds
    /\ c.kind \in {"verge", "core"} => IsPatch(c.arg, Verges)
    /\ c.kind = "core" => DOMAIN c.arg = {"core"}
    /\ c.kind = "clash" => IsPatch(c.arg, Clashes)
    /\ c.kind = "switch" => c.arg.current \in Uids
    /\ c.kind = "script" => c.arg.script \in Scripts
    /\ c.kind = "edit" => c.arg.op \in Edits /\ c.arg.uid \in Uids

\* Saved documents as the program leaves them; None is an unreadable list.
IsBoot(b) ==
    /\ b.verge \in Verges /\ (b.verge.tun => b.verge.service) /\ b.clash \in Clashes
    /\ b.profiles = None \/ (b.profiles \in Profiles /\ Sound(b.profiles))
    /\ b.launch \in LaunchStates /\ b.firewall \subseteq Cores

ASSUME SettingsAssumption ==
    /\ Script \in Uids /\ Remote \subseteq Uids \ {Script} /\ None \notin Uids
    /\ \A p \in Procs : \A c \in Commands[p] : IsCommand(c)
    /\ \A b \in Boots : IsBoot(b)
    /\ MaxCommands \in Nat /\ MaxFaults \in Nat

VARIABLES
    config,    \* the four documents, each with data and draft
    disk,      \* the saved documents, the global script and the run file
    core,      \* the running core's configuration and mode, or None
    launch,    \* the logon task and the legacy registration of auto launch
    proxy, hotkeys, firewall,   \* the other effects
    timers,    \* the profiles with a registered update task
    blocked,   \* whether the saved list could be neither read nor backed up
    lost,      \* whether a reordering of an unlisted profile emptied the list
    cmd,       \* cmd[p]: the command p runs, or None
    begun, faults               \* counters for the bounds

vars == <<config, disk, core, launch, proxy, hotkeys, firewall, timers,
          blocked, lost, cmd, begun, faults>>
effects == <<core, launch, proxy, hotkeys, firewall>>

Documents == {"verge", "clash", "profiles", "runtime"}
Data(f) == config[f].data
Latest(f) == IF config[f].draft = None THEN config[f].data ELSE config[f].draft
Applied(f) == [data |-> Latest(f), draft |-> None]
Discarded(f) == [config[f] EXCEPT !.draft = None]
Drafted(f, x) == [config EXCEPT ![f] = [data |-> @.data, draft |-> x]]
WithData(f, x) == [config EXCEPT ![f] = [data |-> x, draft |-> @.draft]]

-----------------------------------------------------------------------------
(* What settings demand of the world.                                      *)

\* Without TUN mode the section is left out of what the profile gives.
Stack(v, c) == IF v.tun THEN c.stack ELSE "absent"

Generated(v, c, p, script) ==
    [tun |-> v.tun, stack |-> Stack(v, c),
     core |-> v.core, port |-> c.port, lan |-> c.lan, log |-> c.log,
     profile |-> p.current, script |-> script]

Enhanced == Generated(Latest("verge"), Latest("clash"), Latest("profiles"), disk.script)
WantedProxy(v) == IF v.proxy THEN v.port ELSE "off"

Owned(l) == l.task \in {"ours", "stale"}
WithoutLegacy(l) == IF l.legacy = "ours" THEN [l EXCEPT !.legacy = "none"] ELSE l

\* What enabling and disabling auto launch may leave, and whether it succeeds.
EnableResults(l) ==
    LET made == [l EXCEPT !.task = "ours"] IN
    IF l.task = "foreign" THEN {<<l, FALSE>>}
    ELSE {<<WithoutLegacy(made), TRUE>>, <<made, FALSE>>, <<l, FALSE>>}

DisableResults(l) ==
    LET gone == IF Owned(l) THEN [l EXCEPT !.task = "none"] ELSE l IN
    {<<WithoutLegacy(gone), TRUE>>, <<gone, FALSE>>, <<l, FALSE>>}

RulesFor(lan) == IF lan THEN Cores ELSE {}

\* The same for the firewall's rules, one for each core: all are removed, then
\* added; what a failed removal leaves is anybody's guess.
RuleResults(lan, rules) ==
    {<<RulesFor(lan), TRUE>>}
    \cup {<<r, FALSE>> : r \in IF lan THEN SUBSET Cores ELSE {rules, rules \ {"mihomo"}}}

-----------------------------------------------------------------------------
(* Profiles.                                                               *)

Template == [items |-> <<>>, current |-> None]
WithScript(p) == IF Script \in Listed(p) THEN p ELSE [p EXCEPT !.items = <<Script>> \o @]

\* The list at the start: an unreadable file is backed up and replaced; when
\* the backup fails too, the list is empty and never saved.
Loaded(saved, backedUp) ==
    IF saved # None THEN WithScript(saved)
    ELSE IF backedUp THEN WithScript(Template) ELSE Template

Appended(p, u) == [p EXCEPT !.items = Append(@, u)]

\* Where u is in a list that has it; no list has it twice.
Position(items, u) == CHOOSE i \in DOMAIN items : items[i] = u

Without(items, u) == IF u \in Range(items) THEN RemoveAt(items, Position(items, u)) ELSE items

\* Bug: deleting the current profile leaves it current.
BugDeleted(p, u) == [p EXCEPT !.items = Without(@, u)]

Deleted(p, u) ==
    LET rest == Without(p.items, u) IN
    [items |-> rest,
     current |-> IF p.current \in {u, None}
                 THEN IF rest = <<>> THEN None ELSE rest[1] ELSE p.current]

Moved(p, u, over) ==
    [p EXCEPT !.items = InsertAt(Without(@, u), Position(@, over), u)]

\* Bug: a task for every profile, with an update interval or not.
BugDesired == Listed(Latest("profiles"))

\* The profiles timer::sync keeps an update task for.
Desired == Listed(Latest("profiles")) \cap Remote

\* A patch of settings replaces the fields it names.
Merged(a, d) == [k \in DOMAIN d |-> IF k \in DOMAIN a THEN a[k] ELSE d[k]]

\* Only a listed profile can become the current one.
Selected(a, p) == IF a.current \in Listed(p) THEN [p EXCEPT !.current = a.current] ELSE p

Patched(f, a) == IF f = "profiles" THEN Selected(a, Latest(f)) ELSE Merged(a, Latest(f))

-----------------------------------------------------------------------------
(* Commands as sequences of stages.                                        *)

If(b, s) == IF b THEN s ELSE <<>>
Updating == <<"enhance", "generate", "check", "write", "put">>
Restarting == <<"enhance", "generate", "restart">>

VergePlan(a) ==
    LET has(k) == k \in DOMAIN a IN
    <<"validate", "draft">>
    \o (IF has("service") THEN Restarting ELSE If(has("tun"), Updating))
    \o If(has("launch"), <<"launch">>) \o If(has("proxy") \/ has("port"), <<"proxy">>)
    \o If(has("hotkeys"), <<"hotkeys">>) \o If(has("proxy") \/ has("tun"), <<"tray">>)
    \o <<"save", "commit">>

ClashPlan(a) ==
    LET has(k) == k \in DOMAIN a IN
    If(has("lan"), <<"firewall">>) \o <<"draft">> \o If(has("port"), <<"port">>)
    \o If(has("port") \/ has("lan"), Restarting) \o If(has("port"), <<"proxy">>)
    \o If(has("stack"), Updating) \o <<"runtime">>
    \o If(has("lan") \/ has("log"), <<"write">>) \o <<"save", "commit">>

CorePlan == <<"draft", "enhance", "generate", "check", "restart", "save", "commit">>
SwitchPlan == <<"draft">> \o Updating \o <<"save", "commit">>
Downloads == {"import", "update", "timed"}
EditPlan(a) == If(a.op \in Downloads, <<"fetch">>) \o <<"edit">>

Plan(kind, a) ==
    CASE kind = "verge" -> VergePlan(a)
      [] kind = "clash" -> ClashPlan(a)
      [] kind = "core" -> CorePlan
      [] kind = "switch" -> SwitchPlan
      [] kind = "script" -> <<"script">> \o Updating
      [] kind = "enhance" -> Updating
      [] kind = "edit" -> EditPlan(a)

Document(kind) == CASE kind \in {"verge", "core"} -> "verge" [] kind = "switch" -> "profiles"
                    [] OTHER -> kind

\* What brings the core back to the old settings after a failure.
CoreRollback(c) ==
    IF "restart" \in c.tried THEN Restarting \o <<"keep">>
    ELSE IF "check" \in c.tried /\ c.kind # "core" THEN Updating \o <<"keep">>
    ELSE If("write" \in c.tried, <<"enhance", "generate", "write", "keep">>)

Again(c, stage) == If(stage \in c.tried, <<stage>>)

\* Bug: the old settings are carried out before the draft is dropped.
BugRollback(c) == IF "draft" \in c.tried THEN CoreRollback(c) \o <<"discard">> ELSE <<>>

Rollback(c) ==
    CASE c.kind = "switch" -> <<"discard">>
      [] c.kind = "script" -> If(c.tried # {"script"}, <<"restore">> \o Updating)
      [] OTHER -> IF "draft" \in c.tried
                  THEN <<"discard">> \o CoreRollback(c)
                       \o Again(c, "proxy") \o Again(c, "launch") \o Again(c, "hotkeys")
                       \o Again(c, "tray") \o Again(c, "firewall")
                  ELSE <<>>

CoreStages == {"enhance", "generate", "check", "write", "put", "restart", "keep"}

-----------------------------------------------------------------------------
(* Running a command.                                                      *)

Init ==
    \E b \in Boots, backedUp \in BOOLEAN :
        LET list == Loaded(b.profiles, backedUp)
            run == Generated(b.verge, b.clash, list, "s0") IN
        /\ blocked = (b.profiles = None /\ ~backedUp)
        /\ config = [f \in Documents |->
                       IF f = "runtime" THEN [data |-> None, draft |-> run]
                       ELSE [data |-> IF f = "profiles" THEN list ELSE b[f], draft |-> None]]
        /\ disk = [verge |-> b.verge, clash |-> b.clash,
                   profiles |-> IF blocked THEN None ELSE list, script |-> "s0", run |-> run]
        /\ core = [config |-> run, service |-> b.verge.service]
        /\ launch = b.launch
        /\ proxy = WantedProxy(b.verge) /\ hotkeys = b.verge.hotkeys
        /\ firewall = b.firewall
        /\ timers = Listed(list) \cap Remote
        /\ cmd = [p \in Procs |-> None]
        /\ lost = FALSE
        /\ begun = 0 /\ faults = 0

Begin(p) ==
    /\ cmd[p] = None
    /\ begun < MaxCommands
    /\ begun' = begun + 1
    /\ \E c \in Commands[p] :
         /\ c.kind = "edit" /\ c.arg.op = "timed" => c.arg.uid \in timers
         /\ cmd' = [cmd EXCEPT ![p] =
              [kind |-> c.kind, arg |-> c.arg, todo |-> Plan(c.kind, c.arg), tried |-> {},
               local |-> None, previous |-> None, rolling |-> FALSE, whole |-> TRUE,
               swallowed |-> FALSE, alone |-> \A q \in Procs \ {p} : cmd[q] = None,
               before |-> [config |-> config, disk |-> disk, core |-> core, proxy |-> proxy,
                           launch |-> launch, hotkeys |-> hotkeys, firewall |-> firewall]]]
    /\ UNCHANGED <<config, disk, effects, timers, blocked, lost, faults>>

Finish(p) ==
    /\ cmd[p] # None /\ cmd[p].todo = <<>>
    /\ cmd' = [cmd EXCEPT ![p] = None]
    /\ UNCHANGED <<config, disk, effects, timers, blocked, lost, begun, faults>>

At(p, s) == cmd[p] # None /\ cmd[p].todo # <<>> /\ Head(cmd[p].todo) = s

\* Whether a stage may get in the way of the other commands.
Shared(p, q) ==
    LET s == Head(cmd[p].todo) IN
    CASE s \in {"validate", "port", "enhance", "check", "launch", "proxy", "hotkeys",
                "tray", "fetch"} -> FALSE
      [] s = "edit" -> cmd[q].kind = "switch" \/ config'["profiles"].data.current
                                                   # config["profiles"].data.current
      [] OTHER -> TRUE

Disturbed(c) == [c EXCEPT !.alone = FALSE]

Goes(p, c) ==
    cmd' = [q \in Procs |->
              IF q = p THEN c
              ELSE IF cmd[q] # None /\ Shared(p, q) THEN Disturbed(cmd[q])
              ELSE cmd[q]]

Attempt(p) ==
    LET c == cmd[p] IN IF c.rolling THEN c ELSE [c EXCEPT !.tried = @ \cup {Head(c.todo)}]

Passed(p) == [Attempt(p) EXCEPT !.todo = Tail(@)]
Passes(p) == Goes(p, Passed(p)) /\ UNCHANGED faults

\* The same, remembering the value the stage replaces.
Remembers(p, old) ==
    /\ Goes(p, IF cmd[p].rolling THEN Passed(p) ELSE [Passed(p) EXCEPT !.previous = old])
    /\ UNCHANGED faults

\* A failing stage starts the rollback.
RollsBack(c) == [c EXCEPT !.rolling = TRUE]

\* A stage that fails in the rollback is noted, and the rest of what it belongs
\* to is skipped: todo goes on at i.
Incomplete(c) == [c EXCEPT !.whole = FALSE]

GoesOnAt(todo, i) ==
    IF Head(todo) \in CoreStages THEN \A j \in DOMAIN todo : todo[j] \in CoreStages <=> j < i
    ELSE i = 2

Fails(p) ==
    LET c == Attempt(p) IN
    \/ /\ ~cmd[p].rolling
       /\ Goes(p, [RollsBack(c) EXCEPT !.todo = Rollback(c)])
    \/ /\ cmd[p].rolling
       /\ \E i \in 2..(Len(c.todo) + 1) :
            GoesOnAt(c.todo, i) /\ Goes(p, [Incomplete(c) EXCEPT !.todo = SubSeq(@, i, Len(@))])

Breaks(p) == faults < MaxFaults /\ faults' = faults + 1 /\ Fails(p)
Refuses(p) == UNCHANGED faults /\ Fails(p)

-----------------------------------------------------------------------------
(* The stages.                                                             *)

Asks(a, mode) == mode \in DOMAIN a /\ a[mode] = TRUE

\* Bug: service mode may change while TUN mode is on.
BugFitting(a, v) == Asks(a, "tun") => Merged(a, v).service

\* TUN mode is off while service mode changes, and goes on in service mode.
Fitting(a, v) ==
    /\ v.tun => "service" \notin DOMAIN a
    /\ Asks(a, "tun") => Merged(a, v).service

Validate(p) ==
    LET a == cmd[p].arg IN
    /\ At(p, "validate")
    /\ \/ Fitting(a, Latest("verge")) /\ Passes(p)
       \/ ~Fitting(a, Latest("verge")) /\ Refuses(p)
       \/ (Asks(a, "service") \/ Asks(a, "tun")) /\ Breaks(p)
    /\ UNCHANGED <<config, disk, effects, timers, blocked, lost, begun>>

Draft(p) ==
    LET f == Document(cmd[p].kind) IN
    /\ At(p, "draft")
    /\ config' = Drafted(f, Patched(f, cmd[p].arg))
    /\ Passes(p)
    /\ UNCHANGED <<disk, effects, timers, blocked, lost, begun>>

\* The port must be free unless the settings name it already.
Port(p) ==
    /\ At(p, "port")
    /\ Passes(p) \/ (cmd[p].arg.port # Latest("verge").port /\ Breaks(p))
    /\ UNCHANGED <<config, disk, effects, timers, blocked, lost, begun>>

\* The configuration is computed from the documents, then stored.
Enhance(p) ==
    /\ At(p, "enhance")
    /\ Goes(p, [Passed(p) EXCEPT !.local = Enhanced])
    /\ UNCHANGED <<config, disk, effects, timers, blocked, lost, begun, faults>>

Generate(p) ==
    /\ At(p, "generate")
    /\ config' = Drafted("runtime", cmd[p].local)
    /\ Passes(p)
    /\ UNCHANGED <<disk, effects, timers, blocked, lost, begun>>

Check(p) ==
    /\ At(p, "check")
    /\ \/ Latest("runtime") # None /\ (Passes(p) \/ Breaks(p))
       \/ Latest("runtime") = None /\ Refuses(p)
    /\ UNCHANGED <<config, disk, effects, timers, blocked, lost, begun>>

Write(p) ==
    /\ At(p, "write")
    /\ \/ /\ Latest("runtime") # None
          /\ disk' = [disk EXCEPT !.run = Latest("runtime")]
          /\ Passes(p)
       \/ /\ IF Latest("runtime") = None THEN Refuses(p) ELSE Breaks(p)
          /\ UNCHANGED disk
    /\ UNCHANGED <<config, effects, timers, blocked, lost, begun>>

\* The answer may be lost after the core took the file.
Put(p) ==
    /\ At(p, "put")
    /\ \/ core # None /\ core' = [core EXCEPT !.config = disk.run] /\ (Passes(p) \/ Breaks(p))
       \/ core # None /\ core' = core /\ Breaks(p)
       \/ core = None /\ core' = core /\ Refuses(p)
    /\ UNCHANGED <<config, disk, launch, proxy, hotkeys, firewall, timers, blocked, lost, begun>>

Started == [config |-> Latest("runtime"), service |-> Latest("verge").service]

Restart(p) ==
    /\ At(p, "restart")
    /\ \/ /\ Latest("runtime") # None
          /\ disk' = [disk EXCEPT !.run = Latest("runtime")]
          /\ \/ core' = Started /\ Passes(p)
             \/ core' = None /\ Breaks(p)
       \/ /\ IF Latest("runtime") = None THEN Refuses(p) ELSE Breaks(p)
          /\ UNCHANGED <<disk, core>>
    /\ UNCHANGED <<config, launch, proxy, hotkeys, firewall, timers, blocked, lost, begun>>

\* A failed start leaves a recovery behind that starts the core some time.
Recover ==
    /\ core = None /\ Latest("runtime") # None
    /\ core' = Started
    /\ disk' = [disk EXCEPT !.run = Latest("runtime")]
    /\ UNCHANGED <<config, launch, proxy, hotkeys, firewall, timers, blocked, lost, cmd, begun, faults>>

\* Errors of switching auto launch off are logged and ignored.
Launch(p) ==
    LET on == Latest("verge").launch IN
    /\ At(p, "launch")
    /\ \E r \in IF on THEN EnableResults(launch) ELSE DisableResults(launch) :
         /\ launch' = r[1]
         /\ CASE r[2] -> Passes(p)
              [] ~r[2] /\ on -> IF launch.task = "foreign" THEN Refuses(p) ELSE Breaks(p)
              [] OTHER -> /\ faults < MaxFaults /\ faults' = faults + 1
                          /\ Goes(p, [Passed(p) EXCEPT !.swallowed = TRUE])
    /\ UNCHANGED <<config, disk, core, proxy, hotkeys, firewall, timers, blocked, lost, begun>>

SetProxy(p) ==
    /\ At(p, "proxy")
    /\ \/ proxy' = WantedProxy(Latest("verge")) /\ Passes(p)
       \/ UNCHANGED proxy /\ Breaks(p)
    /\ UNCHANGED <<config, disk, core, launch, hotkeys, firewall, timers, blocked, lost, begun>>

SetHotkeys(p) ==
    /\ At(p, "hotkeys")
    /\ hotkeys' = IF cmd[p].rolling THEN Data("verge").hotkeys ELSE cmd[p].arg.hotkeys
    /\ Passes(p)
    /\ UNCHANGED <<config, disk, core, launch, proxy, firewall, timers, blocked, lost, begun>>

Tray(p) ==
    /\ At(p, "tray")
    /\ Passes(p) \/ Breaks(p)
    /\ UNCHANGED <<config, disk, effects, timers, blocked, lost, begun>>

\* The rules are changed before the draft; the old value is put back.
SetFirewall(p) ==
    LET lan == IF cmd[p].rolling THEN cmd[p].previous ELSE cmd[p].arg.lan IN
    /\ At(p, "firewall")
    /\ \E r \in RuleResults(lan, firewall) :
         /\ firewall' = r[1]
         /\ IF r[2] THEN Remembers(p, Latest("clash").lan) ELSE Breaks(p)
    /\ UNCHANGED <<config, disk, core, launch, proxy, hotkeys, timers, blocked, lost, begun>>

\* The stored configuration takes a part of the patch too, when there is one.
PatchedRun(a, run) ==
    [k \in DOMAIN run |-> IF k \in DOMAIN a \cap {"lan", "log", "stack"} THEN a[k] ELSE run[k]]

PatchRuntime(p) ==
    LET r == Latest("runtime") IN
    /\ At(p, "runtime")
    /\ config' = IF r = None THEN config
                 ELSE Drafted("runtime", PatchedRun(cmd[p].arg, r))
    /\ Passes(p)
    /\ UNCHANGED <<disk, effects, timers, blocked, lost, begun>>

\* Bug: the list is saved over the file that could not be backed up.
BugWritable(f) == TRUE

Writable(f) == f = "profiles" => ~blocked

Save(p) ==
    LET f == Document(cmd[p].kind) IN
    /\ At(p, "save")
    /\ \/ Writable(f) /\ disk' = [disk EXCEPT ![f] = Latest(f)] /\ Passes(p)
       \/ UNCHANGED disk /\ (IF Writable(f) THEN Breaks(p) ELSE Refuses(p))
    /\ UNCHANGED <<config, effects, timers, blocked, lost, begun>>

Ends(p, s, result) ==
    LET own == {Document(cmd[p].kind)} \cup IF cmd[p].kind = "switch" THEN {} ELSE {"runtime"} IN
    /\ At(p, s)
    /\ config' = [f \in Documents |-> IF f \in own THEN result[f] ELSE config[f]]
    /\ Passes(p)
    /\ UNCHANGED <<disk, effects, timers, blocked, lost, begun>>

Commit(p) == Ends(p, "commit", [f \in Documents |-> Applied(f)])
Discard(p) == Ends(p, "discard", [f \in Documents |-> Discarded(f)])

Keep(p) ==
    /\ At(p, "keep")
    /\ config' = [config EXCEPT !["runtime"] = Applied("runtime")]
    /\ Passes(p)
    /\ UNCHANGED <<disk, effects, timers, blocked, lost, begun>>

\* The global script is saved, and restored when the core rejects the result.
SaveScript(p) ==
    /\ At(p, "script") \/ At(p, "restore")
    /\ \/ /\ disk' = [disk EXCEPT !.script = IF cmd[p].rolling THEN cmd[p].previous
                                             ELSE cmd[p].arg.script]
          /\ Remembers(p, disk.script)
       \/ UNCHANGED disk /\ Breaks(p)
    /\ UNCHANGED <<config, effects, timers, blocked, lost, begun>>

(* Edits of the list of profiles.  A subscription is downloaded first;     *)
(* then the list in memory is changed and saved under one lock.  An update *)
(* by a timer or by the user writes to the latest list, the other edits to *)
(* the committed one.                                                      *)

Fetch(p) ==
    /\ At(p, "fetch")
    /\ IF cmd[p].arg.op # "import" /\ cmd[p].arg.uid \notin Listed(Latest("profiles"))
       THEN Refuses(p) ELSE Passes(p) \/ Breaks(p)
    /\ UNCHANGED <<config, disk, effects, timers, blocked, lost, begun>>

\* The list is saved and the command goes on, or the save fails.
Saves(p, list, reload) ==
    \/ /\ Writable("profiles")
       /\ disk' = [disk EXCEPT !.profiles = list]
       /\ Goes(p, [Attempt(p) EXCEPT !.todo = If(reload, Updating)])
       /\ UNCHANGED faults
    \/ UNCHANGED disk /\ (IF Writable("profiles") THEN Breaks(p) ELSE Refuses(p))

SyncTimers == timers' = Desired'

Edited(a) ==
    LET p == Data("profiles")
        Of(q, allowed) == IF allowed THEN {q} ELSE {} IN
    CASE a.op = "import" -> Of(Appended(p, a.uid), a.uid \notin Listed(p))
      [] a.op = "delete" -> Of(Deleted(p, a.uid), a.uid # Script)
      [] a.op = "patch" -> Of(p, a.uid \in Listed(p) \ {Script})
      [] a.op = "reorder" -> IF a.uid \in Listed(p) THEN {Moved(p, a.uid, u) : u \in Listed(p)}
                             ELSE {}

EditList(p) ==
    LET a == cmd[p].arg
        reload == a.op = "delete" /\ Data("profiles").current \in {a.uid, None} IN
    /\ a.op \notin {"update", "timed"}
    /\ \E q \in Edited(a) :
         /\ config' = WithData("profiles", q)
         /\ Saves(p, q, reload)
         /\ IF a.op = "patch" /\ disk'.profiles = q THEN SyncTimers ELSE UNCHANGED timers
    /\ UNCHANGED lost

UpdateItem(p) ==
    LET a == cmd[p].arg
        list == Latest("profiles") IN
    /\ a.op \in {"update", "timed"}
    /\ UNCHANGED <<config, timers, lost>>
    /\ IF a.uid \in Listed(list) THEN Saves(p, list, list.current = a.uid)
       ELSE UNCHANGED disk /\ Refuses(p)

\* Moving a profile that is not listed takes the list out of memory.
Emptied(p) == [p EXCEPT !.items = <<>>]

Misplace(p) ==
    LET moves == cmd[p].arg.op = "reorder" IN
    /\ cmd[p].arg.op \notin {"update", "timed"} /\ Edited(cmd[p].arg) = {}
    /\ lost' = (lost \/ moves)
    /\ config' = IF moves THEN WithData("profiles", Emptied(Data("profiles"))) ELSE config
    /\ IF moves THEN Passes(p) ELSE Refuses(p)
    /\ UNCHANGED <<disk, timers>>

Edit(p) ==
    /\ At(p, "edit")
    /\ EditList(p) \/ UpdateItem(p) \/ Misplace(p)
    /\ UNCHANGED <<effects, blocked, begun>>

Next ==
    \/ Recover
    \/ \E p \in Procs :
         \/ Begin(p) \/ Finish(p) \/ Validate(p) \/ Draft(p) \/ Port(p) \/ Enhance(p)
         \/ Generate(p) \/ Check(p) \/ Write(p) \/ Put(p) \/ Restart(p) \/ Launch(p)
         \/ SetProxy(p) \/ SetHotkeys(p) \/ Tray(p) \/ SetFirewall(p) \/ PatchRuntime(p)
         \/ Save(p) \/ Commit(p) \/ Discard(p) \/ Keep(p) \/ SaveScript(p)
         \/ Fetch(p) \/ Edit(p)

Spec == Init /\ [][Next]_vars

-----------------------------------------------------------------------------
Settled(d) == [data : d, draft : d \cup {None}]

(* Documents, effects and commands have the values they should have.       *)
TypeOK ==
    /\ config["verge"] \in Settled(Verges) /\ config["clash"] \in Settled(Clashes)
    /\ config["profiles"] \in Settled(Profiles) /\ config["runtime"] \in Settled(Runs \cup {None})
    /\ disk.verge \in Verges /\ disk.clash \in Clashes /\ disk.run \in Runs
    /\ disk.profiles \in Profiles \cup {None} /\ disk.script \in Scripts
    /\ core \in [config : Runs, service : BOOLEAN] \cup {None}
    /\ launch \in LaunchStates
    /\ proxy \in {"p1", "p2", "off"} /\ hotkeys \in {"h1", "h2"} /\ firewall \subseteq Cores
    /\ timers \subseteq Remote

World == Generated(Data("verge"), Data("clash"), Data("profiles"), disk.script)

CoreFits(c) ==
    IF "restart" \in c.tried THEN core = [config |-> World, service |-> Data("verge").service]
    ELSE IF "check" \in c.tried /\ (~c.rolling \/ c.kind # "core")
         THEN core # None /\ core.config = World
    ELSE c.before.core # None => core = c.before.core

EffectsFit(c) ==
    LET v == Data("verge") IN
    /\ proxy = IF "proxy" \in c.tried THEN WantedProxy(v) ELSE c.before.proxy
    /\ hotkeys = IF "hotkeys" \in c.tried THEN v.hotkeys ELSE c.before.hotkeys
    /\ IF "launch" \in c.tried
       THEN c.swallowed \/ (IF v.launch THEN launch.task = "ours" ELSE ~Owned(launch))
       ELSE launch = c.before.launch
    /\ IF "firewall" \in c.tried
       THEN "draft" \in c.tried => firewall = RulesFor(Data("clash").lan)
       ELSE firewall = c.before.firewall

DocumentFits(c) ==
    LET f == Document(c.kind) IN
    IF ~c.rolling THEN disk[f] = Data(f)
    ELSE config[f] = [data |-> c.before.config[f].data, draft |-> None] /\ disk[f] = c.before.disk[f]

(* A change of the settings is all or nothing.  When a command that no     *)
(* other one got in the way of reports success, the saved document, the    *)
(* core and the other effects it touched are those the committed settings  *)
(* demand.  When it fails and could carry out its whole rollback, the      *)
(* settings, the saved document and the list of profiles are what they     *)
(* were, nothing of its draft remains, and every effect it touched is the  *)
(* one of the old settings (verge_config.rs, clash_config.rs, update.rs,   *)
(* commands/profile.rs).  The core of a failed switch of profiles is the   *)
(* exception the code makes: nothing brings it back.                       *)
PatchIsAtomic ==
    \A p \in Procs :
        LET c == cmd[p] IN
        c # None /\ c.todo = <<>> /\ c.alone /\ c.whole =>
            CASE c.kind \in {"verge", "clash", "core"} ->
                   DocumentFits(c) /\ CoreFits(c) /\ EffectsFit(c)
              [] c.kind = "switch" -> DocumentFits(c) /\ (~c.rolling => CoreFits(c))
              [] c.kind = "script" ->
                   /\ disk.script = IF ~c.rolling THEN c.arg.script ELSE c.before.disk.script
                   /\ c.tried # {"script"} => CoreFits(c)
              [] OTHER -> TRUE

\* The lists of profiles: committed, latest and saved.
Lists == {Data("profiles"), Latest("profiles"), disk.profiles} \ {None}

(* Whatever commands interleave or fail, each list of profiles (committed, *)
(* draft and saved) has no profile twice, keeps the global script and      *)
(* names a listed profile as the current one, unless a profile that is not *)
(* listed was to be moved; and a file that could be neither read nor       *)
(* backed up is never overwritten (profiles.rs).                           *)
ProfilesAreSound ==
    /\ ~lost => \A q \in Lists : Sound(q) /\ (Script \in Listed(q) \/ blocked)
    /\ blocked => disk.profiles = None

(* TUN mode is never set without service mode, which the core needs for    *)
(* it: not in the committed, the latest or the saved settings, through     *)
(* failures, rollbacks and the drafts of other commands                    *)
(* (verge_config.rs:35-64).  Patches of these settings come one at a time. *)
TunNeedsService ==
    \A v \in {Data("verge"), Latest("verge"), disk.verge} : v.tun => v.service

(* The settings and the lists of profiles make sense at any time, whatever *)
(* was carried out, failed or was rolled back so far (verge_config.rs,     *)
(* profiles.rs).                                                           *)
SettingsAreSound == ProfilesAreSound /\ TunNeedsService
=============================================================================
