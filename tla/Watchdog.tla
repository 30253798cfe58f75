------------------------------ MODULE Watchdog ------------------------------
(***************************************************************************)
(* Starting and supervising the program: the GUI's main() with its         *)
(* singleton check (main.rs, utils/server.rs), the launch of the watchdog  *)
(* (utils/watchdog.rs) and the watchdog's own loop (watchdog/src).         *)
(*                                                                         *)
(* A launch by the user starts a GUI process that takes the singleton      *)
(* mutex, starts a watchdog and leaves; the watchdog takes a mutex of its  *)
(* own and starts a second GUI process, the child, which takes the         *)
(* singleton mutex again and is the program.  Both mutexes are named and   *)
(* belong to a process: the system closes them when the process ends.      *)
(*                                                                         *)
(* The watchdog's list of restart times is a set of ages: a delay of at    *)
(* least a second separates two restarts, so no two have the same age.     *)
(*                                                                         *)
(* check_singleton also asks the singleton port; a GUI that answers there  *)
(* holds the mutex, so the mutex alone decides here.                       *)
(*                                                                         *)
(* Definitions whose names begin with Bug are mistakes the code does not   *)
(* make: substituted for the definition they precede, each must break the  *)
(* property its comment names.                                             *)
(***************************************************************************)
EXTENDS Integers, FiniteSets

CONSTANTS
    Launches,      \* launches by the user in one behaviour, each with its watchdog
    Free,          \* nobody holds the mutex
    MaxRetries,    \* MAX_RETRIES
    RetryDelay,    \* RETRY_DELAY_SECS
    RestartDelay,  \* RESTART_DELAY_SECS
    Window,        \* RESTART_WINDOW_SECS
    RestartLimit   \* RESTART_LIMIT_PER_WINDOW

ASSUME WatchdogAssumption ==
    /\ Free \notin Launches \cup (Launches \X {"user", "child"})
    /\ {MaxRetries, RetryDelay, RestartDelay, Window, RestartLimit} \subseteq Nat
    /\ 0 < RestartDelay /\ RestartDelay < Window

User(w) == <<w, "user">>
Child(w) == <<w, "child">>

Guis == Launches \X {"user", "child"}

VARIABLES
    gui,           \* where each GUI process is
    singleton,     \* the GUI process that holds Local\clash-astra-singleton
    watchdog,      \* where each watchdog is
    instance,      \* the watchdog that holds Local\clash-astra-watchdog-<hash>
    code,          \* exit code of each watchdog's last child
    retries,       \* the watchdog's count of failures in a row
    restart_times, \* ages of the restarts the watchdog has counted
    timer,         \* what is left of the watchdog's sleep
    relaunches,    \* history: ages of the children it started after a restart request
    failures       \* history: children that failed since the last restart request

vars == <<gui, singleton, watchdog, instance, code, retries, restart_times, timer,
          relaunches, failures>>
guiVars == <<gui, singleton>>
loopVars == <<retries, restart_times, timer, relaunches, failures>>

GuiPlaces == {"none", "check", "launch", "leaving", "running", "exited"}
WatchdogPlaces == {"none", "start", "spawn", "wait", "retry", "restart", "gone"}
Codes == {"normal", "restart", "failure"}

Init ==
    /\ gui = [g \in Guis |-> "none"] /\ singleton = Free
    /\ watchdog = [w \in Launches |-> "none"] /\ instance = Free
    /\ code = [w \in Launches |-> "normal"]
    /\ retries = [w \in Launches |-> 0]
    /\ restart_times = [w \in Launches |-> {}]
    /\ timer = [w \in Launches |-> 0]
    /\ relaunches = [w \in Launches |-> {}]
    /\ failures = [w \in Launches |-> 0]

-----------------------------------------------------------------------------
(* The GUI process.                                                        *)

\* The user starts the program.
Launch(w) ==
    /\ gui[User(w)] = "none"
    /\ gui' = [gui EXCEPT ![User(w)] = "check"]
    /\ UNCHANGED <<singleton, watchdog, instance, code, loopVars>>

\* Process g ends and the system closes its mutex.
Ends(g, exit) ==
    /\ gui' = [gui EXCEPT ![g] = "exited"]
    /\ singleton' = IF singleton = g THEN Free ELSE singleton
    /\ code' = IF g = Child(g[1]) THEN [code EXCEPT ![g[1]] = exit] ELSE code

\* Breaks OneProgram: a mutex that exists already is taken for a new one.
BugAcquired(g) == TRUE

\* acquire_singleton_mutex.
Acquired(g) == singleton = Free

\* check_singleton; "app exists" ends the process with code 0.  The user's
\* process goes on to launch the watchdog, the supervised child to the program.
CheckSingleton(g) ==
    /\ gui[g] = "check"
    /\ \/ /\ Acquired(g)
          /\ singleton' = g
          /\ gui' = [gui EXCEPT ![g] = IF g = User(g[1]) THEN "launch" ELSE "running"]
          /\ UNCHANGED code
       \/ /\ ~Acquired(g)
          /\ Ends(g, "normal")
    /\ UNCHANGED <<watchdog, instance, loopVars>>

\* launch_supervisor started the watchdog: main() returns ...
LaunchSupervisor(w) ==
    /\ gui[User(w)] = "launch"
    /\ gui' = [gui EXCEPT ![User(w)] = "leaving"]
    /\ watchdog' = [watchdog EXCEPT ![w] = "start"]
    /\ UNCHANGED <<singleton, instance, code, loopVars>>

\* ... and the process ends.
Leave(w) ==
    /\ gui[User(w)] = "leaving"
    /\ Ends(User(w), "normal")
    /\ UNCHANGED <<watchdog, instance, loopVars>>

\* The watchdog is missing or does not start: the program runs without it.
LaunchSupervisorErr(w) ==
    /\ gui[User(w)] = "launch"
    /\ gui' = [gui EXCEPT ![User(w)] = "running"]
    /\ UNCHANGED <<singleton, watchdog, instance, code, loopVars>>

\* The program exits, asks for a restart (exit code 42) or dies.
Exit(g, exit) ==
    /\ gui[g] = "running"
    /\ Ends(g, exit)
    /\ UNCHANGED <<watchdog, instance, loopVars>>

-----------------------------------------------------------------------------
(* The watchdog.                                                           *)

\* Instance::acquire: a second watchdog ends at once.
AcquireInstance(w) ==
    /\ watchdog[w] = "start"
    /\ \/ /\ instance = Free
          /\ instance' = w
          /\ watchdog' = [watchdog EXCEPT ![w] = "spawn"]
       \/ /\ instance # Free
          /\ watchdog' = [watchdog EXCEPT ![w] = "gone"]
          /\ UNCHANGED instance
    /\ UNCHANGED <<guiVars, code, loopVars>>

Stop(w) ==
    /\ watchdog' = [watchdog EXCEPT ![w] = "gone"]
    /\ instance' = Free
    /\ UNCHANGED loopVars

\* run_child spawns the child, at once or after a delay.
SpawnChild(w) ==
    /\ \/ watchdog[w] = "spawn" /\ UNCHANGED relaunches
       \/ watchdog[w] = "retry" /\ timer[w] = 0 /\ UNCHANGED relaunches
       \/ /\ watchdog[w] = "restart" /\ timer[w] = 0
          /\ relaunches' = [relaunches EXCEPT ![w] = @ \cup {0}]
    /\ watchdog' = [watchdog EXCEPT ![w] = "wait"]
    /\ gui' = [gui EXCEPT ![Child(w)] = "check"]
    /\ UNCHANGED <<singleton, instance, code, retries, restart_times, timer, failures>>

\* Breaks RetriesAreBounded: only a count beyond the limit stops the loop.
BugExhausted(w) == retries[w] > MaxRetries

Exhausted(w) == retries[w] = MaxRetries

\* A failure: retried after a delay, MAX_RETRIES times.
Retry(w) ==
    /\ failures' = [failures EXCEPT ![w] = @ + 1]
    /\ \/ /\ Exhausted(w)
          /\ watchdog' = [watchdog EXCEPT ![w] = "gone"]
          /\ instance' = Free
          /\ UNCHANGED <<retries, restart_times, timer, relaunches>>
       \/ /\ ~Exhausted(w)
          /\ watchdog' = [watchdog EXCEPT ![w] = "retry"]
          /\ retries' = [retries EXCEPT ![w] = @ + 1]
          /\ timer' = [timer EXCEPT ![w] = RetryDelay]
          /\ UNCHANGED <<instance, restart_times, relaunches>>

ChildEnded(w) == watchdog[w] = "wait" /\ gui[Child(w)] = "exited"

\* The child could not be spawned: a failure too.
SpawnErr(w) ==
    /\ watchdog[w] = "spawn" \/ (watchdog[w] \in {"retry", "restart"} /\ timer[w] = 0)
    /\ Retry(w)
    /\ UNCHANGED <<guiVars, code>>

ChildFailed(w) ==
    /\ ChildEnded(w) /\ code[w] = "failure"
    /\ Retry(w)
    /\ UNCHANGED <<guiVars, code>>

\* Breaks ChildIsSupervised: the loop starts over after a normal exit.
BugChildExited(w) ==
    /\ ChildEnded(w) /\ code[w] = "normal"
    /\ watchdog' = [watchdog EXCEPT ![w] = "spawn"]
    /\ instance' = Free
    /\ UNCHANGED <<guiVars, code, loopVars>>

ChildExited(w) ==
    /\ ChildEnded(w) /\ code[w] = "normal"
    /\ Stop(w)
    /\ UNCHANGED <<guiVars, code>>

\* Breaks RestartsAreThrottled: only the restarts of the last second count.
BugRecent(times) == {age \in times : age < 1}

Recent(times) == {age \in times : age < Window}

\* Exit code 42: the sliding window decides.
ChildRestart(w) ==
    LET recent == Recent(restart_times[w])
    IN  /\ ChildEnded(w) /\ code[w] = "restart"
        /\ \/ /\ Cardinality(recent) >= RestartLimit
              /\ Stop(w)
           \/ /\ Cardinality(recent) < RestartLimit
              /\ restart_times' = [restart_times EXCEPT ![w] = recent \cup {0}]
              /\ retries' = [retries EXCEPT ![w] = 0]
              /\ failures' = [failures EXCEPT ![w] = 0]
              /\ timer' = [timer EXCEPT ![w] = RestartDelay]
              /\ watchdog' = [watchdog EXCEPT ![w] = "restart"]
              /\ UNCHANGED <<instance, relaunches>>
        /\ UNCHANGED <<guiVars, code>>

\* A second passes; a delay that is over ends before the next one does.  Ages
\* of Window and more are alike.
Older(times) == {IF age < Window THEN age + 1 ELSE Window : age \in times}

Tick ==
    /\ \A w \in Launches : watchdog[w] \in {"retry", "restart"} => timer[w] > 0
    /\ restart_times' = [w \in Launches |-> Older(restart_times[w])]
    /\ relaunches' = [w \in Launches |-> Older(relaunches[w]) \ {Window}]
    /\ timer' = [w \in Launches |-> IF timer[w] > 0 THEN timer[w] - 1 ELSE 0]
    /\ UNCHANGED <<guiVars, watchdog, instance, code, retries, failures>>

-----------------------------------------------------------------------------

GuiStep(g) ==
    \/ CheckSingleton(g)
    \/ g = User(g[1]) /\ (LaunchSupervisor(g[1]) \/ LaunchSupervisorErr(g[1]) \/ Leave(g[1]))

WatchdogStep(w) ==
    \/ AcquireInstance(w) \/ SpawnChild(w) \/ SpawnErr(w)
    \/ ChildFailed(w) \/ ChildExited(w) \/ ChildRestart(w)

Next ==
    \/ \E w \in Launches : Launch(w) \/ WatchdogStep(w)
    \/ \E g \in Guis : GuiStep(g) \/ \E exit \in Codes : Exit(g, exit)
    \/ Tick

Spec == Init /\ [][Next]_vars

-----------------------------------------------------------------------------

TypeOK ==
    /\ gui \in [Guis -> GuiPlaces] /\ singleton \in Guis \cup {Free}
    /\ watchdog \in [Launches -> WatchdogPlaces] /\ instance \in Launches \cup {Free}
    /\ code \in [Launches -> Codes]
    /\ retries \in [Launches -> 0..MaxRetries]
    /\ restart_times \in [Launches -> SUBSET (0..Window)]
    /\ timer \in [Launches -> 0..(RetryDelay + RestartDelay)]
    /\ relaunches \in [Launches -> SUBSET (0..Window)]
    /\ failures \in [Launches -> Nat]

\* However many times the user launches the program while it starts, restarts
\* or exits, at most one GUI process is past the singleton check: two would
\* write the same configuration and fight over the core.
OneProgram ==
    \A g, h \in Guis :
        gui[g] \in {"launch", "leaving", "running"} /\ gui[h] \in {"launch", "leaving", "running"}
            => g = h

\* A child that lives has its watchdog waiting for it, and that watchdog is
\* the only one: no exit, retry or restart leaves a child unsupervised.
ChildIsSupervised ==
    \A w \in Launches :
        gui[Child(w)] \in {"check", "running"} => watchdog[w] = "wait" /\ instance = w

\* Failures in a row lead to at most MAX_RETRIES further starts.
RetriesAreBounded == \A w \in Launches : failures[w] <= MaxRetries + 1

\* A program that asks for a restart whenever it starts is restarted at most
\* RESTART_LIMIT_PER_WINDOW times in any RESTART_WINDOW_SECS.
RestartsAreThrottled == \A w \in Launches : Cardinality(relaunches[w]) <= RestartLimit

\* What server.rs:77 says of check_singleton: it refuses to start when there is
\* an instance.  Some other process is the program, or is about to become or to
\* start it; a process that merely has not finished leaving is no instance.
RefusedByInstance ==
    [][\A g \in Guis : gui[g] = "check" /\ gui'[g] = "exited" =>
          \/ \E h \in Guis \ {g} : gui[h] \in {"launch", "running"}
          \/ \E w \in Launches : Child(w) # g /\ gui[Child(w)] = "check"
          \/ \E w \in Launches : watchdog[w] \in {"start", "spawn", "retry", "restart"}]_vars
=============================================================================
