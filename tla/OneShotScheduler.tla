-------------------------- MODULE OneShotScheduler --------------------------
(***************************************************************************)
(* The one-shot and debounce scheduler of core/scheduler/one_shot.rs.      *)
(*                                                                         *)
(* Every key has at most one waiting entry and every entry was created     *)
(* together with one worker task.  Scheduling a waiting key again replaces *)
(* the entry's generation, deadline and job in place and wakes the worker; *)
(* the worker fires the entry when the deadline it read has passed and the *)
(* entry still carries the generation it read.  Callers run on any thread, *)
(* so a call is several steps here: the generation is drawn before the     *)
(* registry lock is taken, and cancel() aborts the worker after the lock   *)
(* has been released.                                                      *)
(*                                                                         *)
(* A generation names the call that drew it, the job that call supplied,   *)
(* that call's deadline and, if the call created the entry, the entry's    *)
(* worker and Notify: all of them are created at most once per call.       *)
(*                                                                         *)
(* Definitions whose names begin with Bug are mistakes the code does not   *)
(* make: substituted for the definition they precede, each must break the  *)
(* property its comment names.                                             *)
(***************************************************************************)
EXTENDS Integers, FiniteSets

CONSTANTS
    Keys,          \* task keys
    Schedulers,    \* threads that schedule (schedule_once, debounce)
    Cancellers,    \* threads that cancel (cancel, cancel_all)
    MaxPending,    \* MAX_PENDING_ONE_SHOT_TASKS
    MaxGeneration  \* bound: generations drawn in one behaviour

ASSUME SchedulerAssumption ==
    /\ MaxPending \in Nat \ {0}
    /\ MaxGeneration \in Nat
    /\ Keys # {} /\ IsFiniteSet(Keys)

Generations == 1..MaxGeneration

Callers == Schedulers \cup Cancellers

\* The job a call supplies: OneShotJob::Plain or OneShotJob::Cancellable.
Kinds == {"plain", "cancellable"}

VARIABLES
    jobs,            \* key -> entry [generation, handle]; Absent: no entry
    running,         \* generations registered by a RunningTaskGuard
    next_generation, \* the atomic counter
    permit,          \* the Notify of the entry created by a generation holds a permit
    token,           \* generations whose CancelToken is cancelled
    wpc,             \* where each worker is
    wgen, wnotify,   \* what each worker read last: generation, whose Notify
    aborted,         \* JoinHandle::abort was called on the worker
    cpc, carg,       \* where each caller is, and its call's local values
    gkey, gkind,     \* the key and the kind of the job of a generation
    due,             \* generations whose deadline has passed
    fate             \* history: what became of each generation

callVars   == <<cpc, carg>>
workerVars == <<wpc, wgen, wnotify, aborted>>
jobVars    == <<gkey, gkind>>
vars == <<jobs, running, next_generation, permit, token, wpc, wgen, wnotify,
          aborted, cpc, carg, gkey, gkind, due, fate>>

Absent == [generation |-> 0, handle |-> 0]

Pending == {k \in Keys : jobs[k] # Absent}

\* The locals of one call: the generation it drew, the key it is about (for
\* cancel_all every key), the workers of the entries it removed, the tokens it
\* collected; "before" is history: the waiting and running generations of
\* those keys when the call began.
NoCall == [generation |-> 0, keys |-> {}, handles |-> {}, tokens |-> {}, before |-> {}]

Calls == [generation : 0..MaxGeneration, keys : SUBSET Keys,
          handles : SUBSET Generations, tokens : SUBSET Generations,
          before : SUBSET Generations]

Entries == [generation : 0..MaxGeneration, handle : 0..MaxGeneration]

WorkerPlaces == {"none", "spawned", "read", "wait", "due", "running", "done"}
CallerPlaces == {"idle", "schedule", "cancel", "cancel_notify", "cancel_abort",
                 "cancel_collect", "cancel_signal", "all", "all_collect",
                 "all_notify", "all_abort"}
Fates == {"none", "drawn", "pending", "rejected", "superseded", "cancelled",
          "running", "finished", "killed"}

\* A generation with one of these fates is settled for good.
Settled == {"rejected", "superseded", "cancelled", "finished", "killed"}

Init ==
    /\ jobs = [k \in Keys |-> Absent]
    /\ running = {}
    /\ next_generation = 1
    /\ permit = [g \in Generations |-> FALSE]
    /\ token = {}
    /\ wpc = [g \in Generations |-> "none"]
    /\ wgen = [g \in Generations |-> 0]
    /\ wnotify = [g \in Generations |-> 0]
    /\ aborted = {}
    /\ cpc = [c \in Callers |-> "idle"]
    /\ carg = [c \in Callers |-> NoCall]
    /\ gkey = [g \in Generations |-> CHOOSE k \in Keys : TRUE]
    /\ gkind = [g \in Generations |-> "plain"]
    /\ due = {}
    /\ fate = [g \in Generations |-> "none"]

-----------------------------------------------------------------------------
(* schedule_one_shot: the generation is drawn first, the lock taken later. *)

\* Breaks PendingBounded: the limit is compared after the entry it would admit.
BugFull == Cardinality(Pending) > MaxPending

Full == Cardinality(Pending) >= MaxPending

\* Breaks NoLostWakeup: a rescheduled worker is not woken.
BugNotifyOne(h) == permit

NotifyOne(h) == [permit EXCEPT ![h] = TRUE]

ScheduleBegin(c, k, kind) ==
    /\ cpc[c] = "idle"
    /\ next_generation <= MaxGeneration
    /\ gkey' = [gkey EXCEPT ![next_generation] = k]
    /\ gkind' = [gkind EXCEPT ![next_generation] = kind]
    /\ next_generation' = next_generation + 1
    /\ cpc' = [cpc EXCEPT ![c] = "schedule"]
    /\ carg' = [carg EXCEPT ![c] = [NoCall EXCEPT !.generation = next_generation]]
    /\ fate' = [fate EXCEPT ![next_generation] = "drawn"]
    /\ UNCHANGED <<jobs, running, permit, token, workerVars, due>>

\* The key is waiting: generation, deadline and job are replaced in place and
\* the worker is notified.
ScheduleUpdate(c) ==
    LET g == carg[c].generation
        k == gkey[g]
        old == jobs[k]
    IN  /\ cpc[c] = "schedule"
        /\ old # Absent
        /\ jobs' = [jobs EXCEPT ![k].generation = g]
        /\ permit' = NotifyOne(old.handle)
        /\ fate' = [fate EXCEPT ![g] = "pending", ![old.generation] = "superseded"]
        /\ cpc' = [cpc EXCEPT ![c] = "idle"]
        /\ carg' = [carg EXCEPT ![c] = NoCall]
        /\ UNCHANGED <<running, next_generation, token, workerVars, jobVars, due>>

\* A new key while the registry is full: the call fails.
ScheduleReject(c) ==
    LET g == carg[c].generation
    IN  /\ cpc[c] = "schedule"
        /\ jobs[gkey[g]] = Absent
        /\ Full
        /\ fate' = [fate EXCEPT ![g] = "rejected"]
        /\ cpc' = [cpc EXCEPT ![c] = "idle"]
        /\ carg' = [carg EXCEPT ![c] = NoCall]
        /\ UNCHANGED <<jobs, running, next_generation, permit, token, workerVars, jobVars, due>>

\* A new key: the worker is spawned and the entry inserted under one lock.
ScheduleInsert(c) ==
    LET g == carg[c].generation
        k == gkey[g]
    IN  /\ cpc[c] = "schedule"
        /\ jobs[k] = Absent
        /\ ~Full
        /\ jobs' = [jobs EXCEPT ![k] = [generation |-> g, handle |-> g]]
        /\ wpc' = [wpc EXCEPT ![g] = "spawned"]
        /\ fate' = [fate EXCEPT ![g] = "pending"]
        /\ cpc' = [cpc EXCEPT ![c] = "idle"]
        /\ carg' = [carg EXCEPT ![c] = NoCall]
        /\ UNCHANGED <<running, next_generation, permit, token, wgen, wnotify, aborted,
                       jobVars, due>>

-----------------------------------------------------------------------------
(* cancel and cancel_all.  Both remove the waiting entries under the lock   *)
(* and notify and abort their workers after it; cancel collects the tokens  *)
(* of running jobs after the abort, cancel_all before it.                   *)

CallBegin(c, K, place) ==
    /\ cpc[c] = "idle"
    /\ cpc' = [cpc EXCEPT ![c] = place]
    /\ carg' = [carg EXCEPT ![c] =
           [generation |-> 0, keys |-> K, handles |-> {}, tokens |-> {},
            before |-> {g \in Generations : gkey[g] \in K /\ fate[g] \in {"pending", "running"}}]]
    /\ UNCHANGED <<jobs, running, next_generation, permit, token, workerVars, jobVars, due, fate>>

CancelBegin(c) == \E k \in Keys : CallBegin(c, {k}, "cancel")

CancelAllBegin(c) == CallBegin(c, Keys, "all")

\* Breaks TypeOK: a key that does not wait is taken for one that does.
BugRemovable(K) == K

Removable(K) == Pending \cap K

\* jobs.lock().remove(key), or jobs.lock().drain().
Remove(c, from, to) ==
    LET removed == Removable(carg[c].keys)
    IN  /\ cpc[c] = from
        /\ jobs' = [k \in Keys |-> IF k \in removed THEN Absent ELSE jobs[k]]
        /\ fate' = [g \in Generations |->
                       IF \E k \in removed : jobs[k].generation = g THEN "cancelled" ELSE fate[g]]
        /\ carg' = [carg EXCEPT ![c].handles = {jobs[k].handle : k \in removed}]
        /\ cpc' = [cpc EXCEPT ![c] = to]
        /\ UNCHANGED <<running, next_generation, permit, token, workerVars, jobVars, due>>

CancelRemove(c) == Remove(c, "cancel", "cancel_notify")

CancelAllDrain(c) == Remove(c, "all", "all_collect")

\* entry.notify.notify_one() of the removed entries; it matters only while a
\* worker holds a clone of that Notify.
NotifyRemoved(c, from, to) ==
    /\ cpc[c] = from
    /\ permit' = [g \in Generations |->
                     permit[g] \/ (g \in carg[c].handles /\ \E w \in Generations : wnotify[w] = g)]
    /\ cpc' = [cpc EXCEPT ![c] = to]
    /\ UNCHANGED <<jobs, running, next_generation, token, workerVars, carg, jobVars, due, fate>>

CancelNotify(c) == NotifyRemoved(c, "cancel_notify", "cancel_abort")

CancelAllNotify(c) == NotifyRemoved(c, "all_notify", "all_abort")

\* Breaks EntryHasWorker: the worker is looked up by key again after the lock
\* was released.
BugAborts(c) == {jobs[k].handle : k \in Pending \cap carg[c].keys}

\* A task that has ended ignores the abort.
Aborts(c) == {w \in carg[c].handles : wpc[w] # "done"}

\* entry.handle.abort() of the removed entries.
AbortRemoved(c, from, to) ==
    /\ cpc[c] = from
    /\ aborted' = aborted \cup Aborts(c)
    /\ cpc' = [cpc EXCEPT ![c] = to]
    /\ UNCHANGED <<jobs, running, next_generation, permit, token, wpc, wgen, wnotify, carg,
                   jobVars, due, fate>>

CancelAbort(c) == AbortRemoved(c, "cancel_abort", "cancel_collect")

CancelAllAbort(c) == AbortRemoved(c, "all_abort", "cancel_signal")

\* The tokens of the running jobs of the call's keys; a plain job has none.
CollectTokens(c, from, to) ==
    /\ cpc[c] = from
    /\ carg' = [carg EXCEPT ![c].tokens =
                   {g \in running : gkey[g] \in carg[c].keys /\ gkind[g] = "cancellable"}]
    /\ cpc' = [cpc EXCEPT ![c] = to]
    /\ UNCHANGED <<jobs, running, next_generation, permit, token, workerVars, jobVars, due, fate>>

CancelCollect(c) == CollectTokens(c, "cancel_collect", "cancel_signal")

CancelAllCollect(c) == CollectTokens(c, "all_collect", "all_notify")

\* token.cancel() of every collected token; the call returns.
CancelSignal(c) ==
    /\ cpc[c] = "cancel_signal"
    /\ token' = token \cup carg[c].tokens
    /\ cpc' = [cpc EXCEPT ![c] = "idle"]
    /\ carg' = [carg EXCEPT ![c] = NoCall]
    /\ UNCHANGED <<jobs, running, next_generation, permit, workerVars, jobVars, due, fate>>

-----------------------------------------------------------------------------
(* run_one_shot_worker.  The worker of the entry that generation w created. *)

\* The worker's key is the key its creator scheduled.
workerKey(w) == gkey[w]

\* The task ends and its locals are dropped.
WorkerEnds(w) ==
    /\ wpc' = [wpc EXCEPT ![w] = "done"]
    /\ wgen' = [wgen EXCEPT ![w] = 0]
    /\ wnotify' = [wnotify EXCEPT ![w] = 0]
    /\ aborted' = aborted \ {w}

\* Top of the loop: the entry's generation, deadline and Notify are read under
\* the lock.  A task aborted before its first poll never gets here.
WorkerRead(w) ==
    LET entry == jobs[workerKey(w)]
    IN  /\ wpc[w] = "read" \/ (wpc[w] = "spawned" /\ w \notin aborted)
        /\ \/ /\ entry = Absent
              /\ WorkerEnds(w)
           \/ /\ entry # Absent
              /\ wpc' = [wpc EXCEPT ![w] = "wait"]
              /\ wgen' = [wgen EXCEPT ![w] = entry.generation]
              /\ wnotify' = [wnotify EXCEPT ![w] = entry.handle]
              /\ UNCHANGED aborted
        /\ UNCHANGED <<jobs, running, next_generation, permit, token, callVars, jobVars, due, fate>>

\* Breaks KeepsPromise: a wakeup ends the worker instead of its wait.
BugWorkerNotified(w) ==
    /\ wpc[w] = "wait"
    /\ w \notin aborted
    /\ permit[wnotify[w]]
    /\ permit' = [permit EXCEPT ![wnotify[w]] = FALSE]
    /\ WorkerEnds(w)
    /\ UNCHANGED <<jobs, running, next_generation, token, callVars, jobVars, due, fate>>

\* select!: the Notify it holds has a permit.
WorkerNotified(w) ==
    /\ wpc[w] = "wait"
    /\ w \notin aborted
    /\ permit[wnotify[w]]
    /\ permit' = [permit EXCEPT ![wnotify[w]] = FALSE]
    /\ wpc' = [wpc EXCEPT ![w] = "read"]
    /\ UNCHANGED <<jobs, running, next_generation, token, wgen, wnotify, aborted, callVars,
                   jobVars, due, fate>>

\* select!: the deadline it read has passed; the lock is taken next, in the
\* same poll, so an abort that arrives now no longer stops the step below.
WorkerDeadline(w) ==
    /\ wpc[w] = "wait"
    /\ w \notin aborted
    /\ wgen[w] \in due
    /\ wpc' = [wpc EXCEPT ![w] = "due"]
    /\ UNCHANGED <<jobs, running, next_generation, permit, token, wgen, wnotify, aborted,
                   callVars, jobVars, due, fate>>

\* Breaks NeverEarly: the generation is not compared again under the lock.
BugStillCurrent(w) == jobs[workerKey(w)] # Absent

StillCurrent(w) == jobs[workerKey(w)].generation = wgen[w]

\* Breaks FateIsFinal: the entry that fires stays in the registry.
BugWithout(k) == jobs

Without(k) == [jobs EXCEPT ![k] = Absent]

\* Breaks CancelCovers: one running entry per key, where the code keeps a Vec.
BugRegister(w) == {g \in running : gkey[g] # workerKey(w)} \cup {wgen[w]}

\* RunningTaskGuard::new, and its drop.
Register(w) == running \cup {wgen[w]}

Unregister(w) == running \ {wgen[w]}

\* Under the lock: gone, changed, or removed and registered as running.
WorkerFire(w) ==
    LET k == workerKey(w)
        entry == jobs[k]
    IN  /\ wpc[w] = "due"
        /\ \/ /\ entry = Absent
              /\ WorkerEnds(w)
              /\ UNCHANGED <<jobs, running, fate>>
           \/ /\ entry # Absent
              /\ ~StillCurrent(w)
              /\ wpc' = [wpc EXCEPT ![w] = "read"]
              /\ UNCHANGED <<jobs, running, fate, wgen, wnotify, aborted>>
           \/ /\ entry # Absent
              /\ StillCurrent(w)
              /\ jobs' = Without(k)
              /\ running' = Register(w)
              /\ fate' = [fate EXCEPT ![entry.generation] = "running"]
              /\ wpc' = [wpc EXCEPT ![w] = "running"]
              /\ UNCHANGED <<wgen, wnotify, aborted>>
        /\ UNCHANGED <<next_generation, permit, token, callVars, jobVars, due>>

\* The job returns and the RunningTaskGuard is dropped.
WorkerFinish(w) ==
    /\ wpc[w] = "running"
    /\ WorkerEnds(w)
    /\ running' = Unregister(w)
    /\ fate' = [fate EXCEPT ![wgen[w]] = "finished"]
    /\ UNCHANGED <<jobs, next_generation, permit, token, callVars, jobVars, due>>

\* The runtime drops an aborted task at an await point, its guard with it.
WorkerKilled(w) ==
    /\ w \in aborted
    /\ wpc[w] \in {"spawned", "wait", "running"}
    /\ WorkerEnds(w)
    /\ \/ /\ wpc[w] = "running"
          /\ running' = Unregister(w)
          /\ fate' = [fate EXCEPT ![wgen[w]] = "killed"]
       \/ /\ wpc[w] # "running"
          /\ UNCHANGED <<running, fate>>
    /\ UNCHANGED <<jobs, next_generation, permit, token, callVars, jobVars, due>>

-----------------------------------------------------------------------------

\* Time reaches the deadline of generation g; it matters only to a worker that
\* sleeps until then.
Elapse(g) ==
    /\ \E w \in Generations : wpc[w] = "wait" /\ wgen[w] = g
    /\ g \notin due
    /\ due' = due \cup {g}
    /\ UNCHANGED <<jobs, running, next_generation, permit, token, workerVars, callVars,
                   jobVars, fate>>

CallerStep(c) ==
    \/ ScheduleUpdate(c) \/ ScheduleReject(c) \/ ScheduleInsert(c)
    \/ CancelRemove(c) \/ CancelNotify(c) \/ CancelAbort(c) \/ CancelCollect(c)
    \/ CancelAllDrain(c) \/ CancelAllCollect(c) \/ CancelAllNotify(c) \/ CancelAllAbort(c)
    \/ CancelSignal(c)

WorkerStep(w) ==
    \/ WorkerRead(w) \/ WorkerNotified(w) \/ WorkerDeadline(w) \/ WorkerFire(w)
    \/ WorkerKilled(w)

Next ==
    \/ \E c \in Schedulers, k \in Keys, kind \in Kinds : ScheduleBegin(c, k, kind)
    \/ \E c \in Cancellers : CancelBegin(c) \/ CancelAllBegin(c)
    \/ \E c \in Callers : CallerStep(c)
    \/ \E w \in Generations : WorkerStep(w) \/ WorkerFinish(w) \/ Elapse(w)

\* The runtime polls every ready task, a thread inside a call returns from it,
\* and every deadline arrives.  No job is assumed to end and no call to be made.
Fairness ==
    /\ \A c \in Callers : WF_vars(CallerStep(c))
    /\ \A w \in Generations : WF_vars(WorkerStep(w)) /\ WF_vars(Elapse(w))

Spec == Init /\ [][Next]_vars /\ Fairness

-----------------------------------------------------------------------------

TypeOK ==
    /\ jobs \in [Keys -> Entries]
    /\ running \subseteq Generations
    /\ next_generation \in 1..(MaxGeneration + 1)
    /\ permit \in [Generations -> BOOLEAN]
    /\ token \subseteq Generations
    /\ wpc \in [Generations -> WorkerPlaces]
    /\ wgen \in [Generations -> 0..MaxGeneration]
    /\ wnotify \in [Generations -> 0..MaxGeneration]
    /\ aborted \subseteq Generations
    /\ cpc \in [Callers -> CallerPlaces]
    /\ carg \in [Callers -> Calls]
    /\ gkey \in [Generations -> Keys]
    /\ gkind \in [Generations -> Kinds]
    /\ due \subseteq Generations
    /\ fate \in [Generations -> Fates]

\* An entry that waits always has the worker that was spawned with it still in
\* its loop and not aborted, so no scheduled task is left behind with nobody
\* to fire it, whatever cancel() calls and reschedulings of the key overlap.
EntryHasWorker ==
    \A k \in Pending :
        LET w == jobs[k].handle
        IN  /\ wpc[w] \in {"spawned", "read", "wait", "due"}
            /\ w \notin aborted
            /\ gkey[w] = k

\* A job starts only after the deadline of the very call that supplied it:
\* debouncing pushes the run back even while the worker is already awake for
\* the earlier deadline.
NeverEarly ==
    \A g \in Generations : fate[g] \in {"running", "finished", "killed"} => g \in due

\* Each accepted call ends once: superseded, cancelled or run, never two of
\* these and never run twice, also when two workers serve the same key.
FateIsFinal ==
    [][\A g \in Generations : fate[g] \in Settled => fate'[g] = fate[g]]_vars

\* When cancel() or cancel_all() returns, nothing that was waiting or
\* running for its keys when it was called still waits, and every such
\* cancellable job that is running has its token cancelled: no job slips
\* between the registry of waiting tasks and the one of running tasks.
CancelCovers ==
    [][\A c \in Callers : cpc[c] = "cancel_signal" /\ cpc'[c] = "idle" =>
          \A g \in carg[c].before :
              /\ fate'[g] # "pending"
              /\ fate'[g] = "running" /\ gkind[g] = "cancellable" => g \in token']_vars

\* Rescheduling a waiting key reaches the worker that sleeps for it: it either
\* sleeps on the entry's own deadline or has a wakeup coming, so a deadline
\* moved forward is never slept through.  one_shot.rs:83 says so of every
\* rescheduling.
NoLostWakeup ==
    \A k \in Pending :
        LET w == jobs[k].handle
        IN  wpc[w] = "wait" => wgen[w] = jobs[k].generation \/ permit[w]

\* The registry never grows past its limit, however many new keys race for it.
PendingBounded == Cardinality(Pending) <= MaxPending

\* What one_shot.rs:103 promises of a plain job: once it has started, no
\* cancellation stops it.
PlainJobNotKilled ==
    \A g \in Generations : gkind[g] = "plain" => fate[g] # "killed"

\* The scheduler is a Debounce: workers, wakeups, stale reads and aborts in any
\* order are never seen as anything but calls accepted, replaced, cancelled, run
\* once due, and ended; a call that waits and is due is run.
Promise == INSTANCE Debounce WITH
    Calls    <- Generations,
    Nobody   <- 0,
    Limit    <- MaxPending,
    waiting  <- [k \in Keys |-> jobs[k].generation],
    answered <- {g \in Generations : fate[g] \notin {"none", "drawn"}}

KeepsPromise == Promise!Spec
=============================================================================
