---------------------------- MODULE WatchdogProofs ----------------------------
(***************************************************************************)
(* Proofs about Watchdog, for any number of launches and any limits and    *)
(* delays: first what does not depend on time (IInv), then the ages of the *)
(* restarts and their limit (AgesOK).                                      *)
(***************************************************************************)
EXTENDS Watchdog, FiniteSetTheorems, FunctionTheorems, TLAPS

\* The types of what the proofs are about.
Typed ==
    /\ gui \in [Guis -> GuiPlaces] /\ singleton \in Guis \cup {Free}
    /\ watchdog \in [Launches -> WatchdogPlaces]
    /\ code \in [Launches -> Codes]
    /\ retries \in [Launches -> 0..MaxRetries] /\ failures \in [Launches -> Nat]

Past == {"launch", "leaving", "running"}

\* A process past the check holds the mutex.
HolderIsPast == \A g \in Guis : gui[g] \in Past => singleton = g

\* A watchdog past its start holds its mutex.
Loops == {"spawn", "wait", "retry", "restart"}

HolderLoops == \A w \in Launches : watchdog[w] \in Loops => instance = w

\* A child lives only while its watchdog waits for it, and a watchdog has not
\* started before the user's process has launched it.
ChildLives ==
    \A w \in Launches :
        /\ gui[Child(w)] \in {"check", "running"} => watchdog[w] = "wait"
        /\ gui[User(w)] \in {"none", "check", "launch"} => watchdog[w] = "none"

\* The watchdog's count follows the failures.
FailuresAreCounted ==
    \A w \in Launches :
        /\ failures[w] <= MaxRetries + 1
        /\ watchdog[w] # "gone" => failures[w] <= retries[w]

IInv == Typed /\ HolderIsPast /\ HolderLoops /\ ChildLives /\ FailuresAreCounted

-----------------------------------------------------------------------------
(* Operators.                                                              *)

\* The processes of a launch.
LEMMA Processes ==
  /\ \A w \in Launches : User(w) \in Guis /\ Child(w) \in Guis /\ User(w)[1] = w /\ Child(w)[1] = w
  /\ \A v, w \in Launches : User(v) # Child(w) /\ (User(v) = User(w) => v = w)
                            /\ (Child(v) = Child(w) => v = w)
  /\ \A g \in Guis : g[1] \in Launches /\ (g = User(g[1]) \/ g = Child(g[1]))
  BY DEF User, Child, Guis

LEMMA Constants ==
  /\ MaxRetries \in Nat
  /\ Free \notin Launches /\ Free \notin Guis
  BY WatchdogAssumption DEF Guis

-----------------------------------------------------------------------------
(* The invariant.                                                          *)

LEMMA InitIInv == Init => IInv
  BY Constants, Processes
     DEF Init, IInv, Typed, HolderIsPast, HolderLoops, ChildLives, FailuresAreCounted,
         GuiPlaces, WatchdogPlaces, Codes, Past, Loops

\* A process ends.
LEMMA EndsKeeps ==
  ASSUME IInv, NEW g \in Guis, NEW exit \in Codes, Ends(g, exit),
         UNCHANGED <<watchdog, instance, retries, failures>>
  PROVE  IInv'
  <1>1. Typed'
    BY Processes DEF IInv, Typed, Ends, GuiPlaces
  <1>2. HolderIsPast'
    BY DEF IInv, Typed, Ends, HolderIsPast, Past
  <1>3. HolderLoops' /\ FailuresAreCounted'
    BY DEF IInv, HolderLoops, FailuresAreCounted
  <1>4. ChildLives'
    BY Processes DEF IInv, Typed, Ends, ChildLives
  <1> QED
    BY <1>1, <1>2, <1>3, <1>4 DEF IInv

\* The steps of the GUI processes.
LEMMA GuiSteps ==
  ASSUME IInv, NEW g \in Guis,
         \/ GuiStep(g)
         \/ \E exit \in Codes : Exit(g, exit)
         \/ g = User(g[1]) /\ Launch(g[1])
  PROVE  IInv'
  <1>1. PICK w \in Launches : w = g[1] /\ (g = User(w) \/ g = Child(w))
    BY Processes
  <1>2. \A v \in Launches : /\ User(v) \in Guis /\ Child(v) \in Guis /\ User(v) # Child(v)
                            /\ User(v) = g => v = w /\ g = User(w)
                            /\ Child(v) = g => v = w /\ g = Child(w)
    BY <1>1, Processes
  <1>3. "normal" \in Codes
    BY DEF Codes
  <1>4. CASE /\ gui[g] = "check" /\ Acquired(g)
             /\ singleton' = g
             /\ gui' = [gui EXCEPT ![g] = IF g = User(w) THEN "launch" ELSE "running"]
             /\ UNCHANGED code
             /\ UNCHANGED <<watchdog, instance, loopVars>>
    <2>1. Typed'
      BY <1>4 DEF loopVars, IInv, Typed, GuiPlaces
    <2>2. HolderIsPast'
      BY <1>4, Constants DEF Acquired, IInv, Typed, HolderIsPast, Past
    <2>3. HolderLoops' /\ FailuresAreCounted'
      BY <1>4 DEF loopVars, IInv, HolderLoops, FailuresAreCounted
    <2>4. ChildLives'
      BY <1>1, <1>2, <1>4 DEF IInv, Typed, ChildLives
    <2> QED
      BY <2>1, <2>2, <2>3, <2>4 DEF IInv
  <1>5. CASE \E exit \in Codes : Ends(g, exit) /\ UNCHANGED <<watchdog, instance, loopVars>>
    BY <1>5, EndsKeeps DEF loopVars
  <1>6. CASE /\ gui' = [gui EXCEPT ![g] = "check"] /\ gui[g] = "none" /\ g = User(w)
             /\ UNCHANGED <<singleton, watchdog, instance, code, loopVars>>
    <2>1. Typed'
      BY <1>6 DEF loopVars, IInv, Typed, GuiPlaces
    <2>2. HolderIsPast'
      BY <1>6 DEF IInv, Typed, HolderIsPast, Past
    <2>3. HolderLoops' /\ FailuresAreCounted'
      BY <1>6 DEF loopVars, IInv, HolderLoops, FailuresAreCounted
    <2>4. ChildLives'
      <3> SUFFICES ASSUME NEW v \in Launches
                   PROVE  /\ gui'[Child(v)] \in {"check", "running"} => watchdog'[v] = "wait"
                          /\ gui'[User(v)] \in {"none", "check", "launch"} => watchdog'[v] = "none"
        BY DEF ChildLives, User, Child
      <3>0. /\ gui[Child(v)] \in {"check", "running"} => watchdog[v] = "wait"
            /\ gui[User(v)] \in {"none", "check", "launch"} => watchdog[v] = "none"
        BY DEF IInv, ChildLives, User, Child
      <3>1. Child(v) # g /\ (User(v) = g => gui[User(v)] = "none")
        BY <1>1, <1>6 DEF User, Child
      <3>2. /\ gui'[Child(v)] = gui[Child(v)]
            /\ gui'[User(v)] = gui[User(v)] \/ gui[User(v)] = "none"
        BY <1>2, <1>6, <3>1 DEF IInv, Typed
      <3> QED
        BY <1>6, <3>0, <3>2
    <2> QED
      BY <2>1, <2>2, <2>3, <2>4 DEF IInv
  <1>7. CASE /\ gui[g] = "launch" /\ g = User(w)
             /\ \/ /\ gui' = [gui EXCEPT ![g] = "leaving"]
                   /\ watchdog' = [watchdog EXCEPT ![w] = "start"]
                \/ gui' = [gui EXCEPT ![g] = "running"] /\ UNCHANGED watchdog
             /\ UNCHANGED <<singleton, instance, code, loopVars>>
    <2>1. Typed'
      BY <1>1, <1>7 DEF loopVars, IInv, Typed, GuiPlaces, WatchdogPlaces
    <2>2. HolderIsPast'
      BY <1>7 DEF IInv, Typed, HolderIsPast, Past
    <2>3. watchdog[w] = "none"
      BY <1>1, <1>7 DEF IInv, ChildLives
    <2>4. HolderLoops' /\ FailuresAreCounted'
      BY <1>1, <1>7, <2>3 DEF loopVars, IInv, Typed, HolderLoops, FailuresAreCounted, Loops
    <2>5. ChildLives'
      <3> SUFFICES ASSUME NEW v \in Launches
                   PROVE  /\ gui'[Child(v)] \in {"check", "running"} => watchdog'[v] = "wait"
                          /\ gui'[User(v)] \in {"none", "check", "launch"} => watchdog'[v] = "none"
        BY DEF ChildLives, User, Child
      <3>0. /\ gui[Child(v)] \in {"check", "running"} => watchdog[v] = "wait"
            /\ gui[User(v)] \in {"none", "check", "launch"} => watchdog[v] = "none"
        BY DEF IInv, ChildLives, User, Child
      <3>1. Child(v) # g /\ (User(v) = g <=> v = w)
        BY <1>1, <1>7 DEF User, Child
      <3>2. \A h \in Guis : h # g => gui'[h] = gui[h]
        BY <1>7 DEF IInv, Typed
      <3>3. gui'[Child(v)] = gui[Child(v)] /\ (v # w => gui'[User(v)] = gui[User(v)])
        BY <1>2, <3>1, <3>2
      <3>4. gui'[User(w)] \in {"leaving", "running"}
        BY <1>1, <1>7 DEF IInv, Typed
      <3>5. v # w => watchdog'[v] = watchdog[v]
        BY <1>7 DEF IInv, Typed
      <3> QED
        BY <2>3, <3>0, <3>3, <3>4, <3>5
    <2> QED
      BY <2>1, <2>2, <2>4, <2>5 DEF IInv
  <1> QED
    BY <1>1, <1>3, <1>4, <1>5, <1>6, <1>7
       DEF GuiStep, CheckSingleton, LaunchSupervisor, LaunchSupervisorErr, Leave, Exit, Launch

\* The steps of a watchdog.
LEMMA WatchdogSteps ==
  ASSUME IInv, NEW w \in Launches, WatchdogStep(w)
  PROVE  IInv'
  <1> USE DEF IInv
  <1>1. \A v \in Launches : /\ User(v) \in Guis /\ Child(v) \in Guis
                            /\ User(v) # Child(w)
                            /\ Child(v) = Child(w) => v = w
    BY Processes
  <1>2. CASE AcquireInstance(w)
    <2>1. Typed' /\ HolderIsPast'
      BY <1>2 DEF AcquireInstance, guiVars, loopVars, Typed, HolderIsPast, WatchdogPlaces
    <2>2. HolderLoops'
      BY <1>2, Constants DEF AcquireInstance, Typed, HolderLoops, Loops
    <2>3. ChildLives' /\ FailuresAreCounted'
      BY <1>2 DEF AcquireInstance, guiVars, loopVars, Typed, ChildLives, FailuresAreCounted
    <2> QED
      BY <2>1, <2>2, <2>3
  <1>3. CASE SpawnChild(w)
    <2>1. Typed'
      BY <1>1, <1>3 DEF SpawnChild, Typed, GuiPlaces, WatchdogPlaces
    <2>2. HolderIsPast'
      BY <1>1, <1>3 DEF SpawnChild, Typed, HolderIsPast, Past
    <2>3. HolderLoops' /\ FailuresAreCounted'
      BY <1>3 DEF SpawnChild, Typed, HolderLoops, Loops, FailuresAreCounted
    <2>4. ChildLives'
      <3> SUFFICES ASSUME NEW v \in Launches
                   PROVE  /\ gui'[Child(v)] \in {"check", "running"} => watchdog'[v] = "wait"
                          /\ gui'[User(v)] \in {"none", "check", "launch"} => watchdog'[v] = "none"
        BY DEF ChildLives, User, Child
      <3>0. /\ gui[Child(v)] \in {"check", "running"} => watchdog[v] = "wait"
            /\ gui[User(v)] \in {"none", "check", "launch"} => watchdog[v] = "none"
        BY DEF IInv, ChildLives, User, Child
      <3>1. /\ watchdog[w] # "none" /\ watchdog' = [watchdog EXCEPT ![w] = "wait"]
            /\ gui' = [gui EXCEPT ![Child(w)] = "check"]
        BY <1>3 DEF SpawnChild
      <3>2. gui'[User(v)] = gui[User(v)] /\ (v # w => gui'[Child(v)] = gui[Child(v)])
        BY <1>1, <3>1 DEF Typed, User, Child
      <3>3. watchdog'[v] = IF v = w THEN "wait" ELSE watchdog[v]
        BY <3>1 DEF Typed
      <3> QED
        BY <3>0, <3>1, <3>2, <3>3
    <2> QED
      BY <2>1, <2>2, <2>3, <2>4
  <1>4. ASSUME watchdog[w] \in Loops, watchdog[w] = "wait" => gui[Child(w)] = "exited",
               UNCHANGED <<guiVars, code>>,
               watchdog' = [watchdog EXCEPT ![w] = "gone"], instance' = Free,
               retries' = retries,
               failures' \in {failures, [failures EXCEPT ![w] = @ + 1]}
        PROVE  IInv'
    <2>1. Typed' /\ HolderIsPast'
      BY <1>4 DEF guiVars, Typed, HolderIsPast, WatchdogPlaces
    <2>2. HolderLoops'
      BY <1>4, Constants DEF Typed, HolderLoops, Loops
    <2>3. ChildLives'
      BY <1>4 DEF guiVars, Typed, ChildLives, Loops
    <2>4. FailuresAreCounted'
      BY <1>4, Constants DEF Typed, FailuresAreCounted, Loops
    <2> QED
      BY <2>1, <2>2, <2>3, <2>4
  <1>5. ASSUME watchdog[w] \in Loops, watchdog[w] = "wait" => gui[Child(w)] = "exited",
               UNCHANGED <<guiVars, code, instance>>,
               NEW place \in {"retry", "restart"}, watchdog' = [watchdog EXCEPT ![w] = place],
               \/ /\ retries[w] # MaxRetries
                  /\ retries' = [retries EXCEPT ![w] = @ + 1]
                  /\ failures' = [failures EXCEPT ![w] = @ + 1]
               \/ /\ retries' = [retries EXCEPT ![w] = 0]
                  /\ failures' = [failures EXCEPT ![w] = 0]
        PROVE  IInv'
    <2>1. Typed' /\ HolderIsPast'
      BY <1>5, Constants DEF guiVars, Typed, HolderIsPast, WatchdogPlaces
    <2>2. HolderLoops'
      BY <1>5 DEF Typed, HolderLoops, Loops
    <2>3. ChildLives'
      BY <1>5 DEF guiVars, Typed, ChildLives, Loops
    <2>4. FailuresAreCounted'
      BY <1>5, Constants DEF Typed, FailuresAreCounted, Loops
    <2> QED
      BY <2>1, <2>2, <2>3, <2>4
  <1>6. CASE SpawnErr(w) \/ ChildFailed(w)
    <2>1. watchdog[w] \in Loops /\ (watchdog[w] = "wait" => gui[Child(w)] = "exited")
      BY <1>6 DEF SpawnErr, ChildFailed, ChildEnded, Loops
    <2>2. Retry(w) /\ UNCHANGED <<guiVars, code>>
      BY <1>6 DEF SpawnErr, ChildFailed
    <2>3. CASE Exhausted(w)
      BY <1>4, <2>1, <2>2, <2>3 DEF Retry
    <2>4. CASE ~Exhausted(w)
      BY <1>5, <2>1, <2>2, <2>4 DEF Retry, Exhausted
    <2> QED
      BY <2>3, <2>4
  <1>7. CASE ChildExited(w)
    BY <1>4, <1>7 DEF ChildExited, ChildEnded, Stop, loopVars, Loops
  <1>8. CASE ChildRestart(w)
    <2>1. watchdog[w] = "wait" /\ gui[Child(w)] = "exited" /\ UNCHANGED <<guiVars, code>>
      BY <1>8 DEF ChildRestart, ChildEnded
    <2>2. CASE Stop(w)
      BY <1>4, <2>1, <2>2 DEF Stop, loopVars, Loops
    <2>3. CASE /\ retries' = [retries EXCEPT ![w] = 0]
               /\ failures' = [failures EXCEPT ![w] = 0]
               /\ watchdog' = [watchdog EXCEPT ![w] = "restart"]
               /\ UNCHANGED <<instance, relaunches>>
      BY <1>5, <2>1, <2>3 DEF Loops
    <2> QED
      BY <1>8, <2>2, <2>3 DEF ChildRestart
  <1> QED
    BY <1>2, <1>3, <1>6, <1>7, <1>8 DEF WatchdogStep

LEMMA Invariant == Spec => []IInv
  <1>1. ASSUME IInv, [Next]_vars PROVE IInv'
    <2>1. CASE \E w \in Launches : Launch(w)
      BY <1>1, <2>1, GuiSteps, Processes
    <2>2. CASE \E w \in Launches : WatchdogStep(w)
      BY <1>1, <2>2, WatchdogSteps
    <2>3. CASE \E g \in Guis : GuiStep(g) \/ \E exit \in Codes : Exit(g, exit)
      BY <1>1, <2>3, GuiSteps
    <2>4. CASE Tick \/ UNCHANGED vars
      BY <1>1, <2>4 DEF Tick, vars, guiVars, IInv, Typed, HolderIsPast, HolderLoops, ChildLives,
                        FailuresAreCounted
    <2> QED
      BY <1>1, <2>1, <2>2, <2>3, <2>4 DEF Next
  <1> QED
    BY InitIInv, <1>1, PTL DEF Spec

-----------------------------------------------------------------------------
(* The ages of the restarts.                                               *)

AgesTyped ==
    /\ instance \in Launches \cup {Free}
    /\ timer \in [Launches -> 0..(RetryDelay + RestartDelay)]
    /\ restart_times \in [Launches -> SUBSET (0..Window)]
    /\ relaunches \in [Launches -> SUBSET (0..Window)]

\* The starts that will still be in the window when the watchdog's delay ends.
Remaining(w) == {age \in relaunches[w] : age + timer[w] < Window}

\* A start is RestartDelay younger than the restart that led to it, and that
\* restart is in the list while it can matter.
StartsAreCounted(w) ==
    \A age \in relaunches[w] :
        age < Window /\ (age + RestartDelay < Window => age + RestartDelay \in restart_times[w])

\* The delay before a start: it ends RestartDelay after the restart, and
\* leaves room for one more start in the window.
RoomForStart(w) ==
    watchdog[w] = "restart" =>
        /\ timer[w] <= RestartDelay
        /\ RestartDelay - timer[w] \in restart_times[w]
        /\ Cardinality(Remaining(w)) < RestartLimit

AgesOK(w) ==
    StartsAreCounted(w) /\ RoomForStart(w) /\ Cardinality(relaunches[w]) <= RestartLimit

\* Between two restarts, and between two starts, the clock moves: a set of ages
\* counts them all.
Since(w) == IF watchdog[w] = "restart" THEN RestartDelay - timer[w] ELSE RestartDelay

AgesDiffer(w) ==
    /\ \A age \in restart_times[w] : Since(w) <= age
    /\ watchdog[w] = "restart" => \A age \in relaunches[w] : Since(w) <= age

LEMMA Numbers ==
  /\ MaxRetries \in Nat /\ RetryDelay \in Nat /\ RestartDelay \in Nat
  /\ Window \in Nat /\ RestartLimit \in Nat
  /\ 0 < RestartDelay /\ RestartDelay < Window
  BY WatchdogAssumption

\* A set of ages is finite, and so is each of its subsets.
LEMMA FiniteAges ==
  ASSUME NEW S \in SUBSET (0..Window)
  PROVE  IsFiniteSet(S) /\ Cardinality(S) \in Nat
  <1>1. IsFiniteSet(0..Window)
    BY FS_Interval, Numbers
  <1>2. IsFiniteSet(S)
    BY <1>1, FS_Subset
  <1> QED
    BY <1>2, FS_CardinalityType

\* Ages that are d apart from other ages are no more than those.
LEMMA Shifted ==
  ASSUME NEW S \in SUBSET (0..Window), NEW T \in SUBSET (0..Window), NEW d \in Int,
         \A age \in S : age + d \in T
  PROVE  Cardinality(S) <= Cardinality(T)
  <1> DEFINE f == [age \in S |-> age + d]
  <1>1. f \in [S -> T]
    OBVIOUS
  <1>2. \A a, b \in S : f[a] = f[b] => a = b
    BY Numbers
  <1>3. f \in Injection(S, T)
    BY <1>1, <1>2 DEF Injection, IsInjective
  <1>4. IsFiniteSet(T)
    BY FiniteAges
  <1> QED
    BY <1>3, <1>4, FS_Injection

LEMMA InitAges == Init => AgesTyped /\ \A w \in Launches : AgesOK(w) /\ AgesDiffer(w)
  <1> SUFFICES ASSUME Init PROVE AgesTyped /\ \A w \in Launches : AgesOK(w) /\ AgesDiffer(w)
    OBVIOUS
  <1>1. AgesTyped
    BY Numbers DEF Init, AgesTyped
  <1>2. ASSUME NEW w \in Launches PROVE AgesOK(w) /\ AgesDiffer(w)
    BY Numbers, FS_EmptySet DEF Init, AgesOK, AgesDiffer, StartsAreCounted, RoomForStart
  <1> QED
    BY <1>1, <1>2

LEMMA StepAgesTyped ==
  ASSUME AgesTyped, [Next]_vars
  PROVE  AgesTyped'
  <1> USE DEF AgesTyped
  <1>1. ASSUME NEW w \in Launches, WatchdogStep(w) PROVE AgesTyped'
    <2>1. CASE AcquireInstance(w)
      BY <2>1 DEF AcquireInstance, guiVars, loopVars
    <2>2. CASE SpawnChild(w)
      BY <2>2, Numbers DEF SpawnChild
    <2>3. CASE Retry(w)
      BY <2>3, Numbers DEF Retry
    <2>4. CASE Stop(w)
      BY <2>4 DEF Stop, loopVars
    <2>5. CASE ChildRestart(w) /\ ~Stop(w)
      <3> DEFINE recent == Recent(restart_times[w])
      <3>1. recent \cup {0} \in SUBSET (0..Window)
        BY Numbers DEF Recent
      <3>2. /\ restart_times' = [restart_times EXCEPT ![w] = recent \cup {0}]
            /\ timer' = [timer EXCEPT ![w] = RestartDelay]
            /\ UNCHANGED <<instance, relaunches>>
        BY <2>5 DEF ChildRestart
      <3> HIDE DEF recent
      <3> QED
        BY <3>1, <3>2, Numbers
    <2> QED
      BY <1>1, <2>1, <2>2, <2>3, <2>4, <2>5 DEF WatchdogStep, SpawnErr, ChildFailed, ChildExited
  <1>2. CASE Tick
    <2>1. \A S \in SUBSET (0..Window) : Older(S) \in SUBSET (0..Window)
      BY Numbers DEF Older
    <2>2. restart_times' \in [Launches -> SUBSET (0..Window)]
      BY <1>2, <2>1 DEF Tick
    <2>3. relaunches' \in [Launches -> SUBSET (0..Window)]
      <3>1. \A w \in Launches : Older(relaunches[w]) \ {Window} \in SUBSET (0..Window)
        BY <2>1
      <3> QED
        BY <1>2, <3>1 DEF Tick
    <2>4. timer' \in [Launches -> 0..(RetryDelay + RestartDelay)]
      BY <1>2, Numbers DEF Tick
    <2> QED
      BY <1>2, <2>2, <2>3, <2>4 DEF Tick
  <1>3. CASE \E w \in Launches : Launch(w)
    BY <1>3 DEF Launch, loopVars
  <1>4. CASE \E g \in Guis : GuiStep(g) \/ \E exit \in Codes : Exit(g, exit)
    BY <1>4 DEF GuiStep, CheckSingleton, LaunchSupervisor, LaunchSupervisorErr, Leave, Exit, loopVars
  <1>5. CASE UNCHANGED vars
    BY <1>5 DEF vars
  <1> QED
    BY <1>1, <1>2, <1>3, <1>4, <1>5 DEF Next

\* Nothing about the ages of v changes.
LEMMA SameAges ==
  ASSUME NEW v \in Launches, AgesOK(v), AgesDiffer(v),
         timer'[v] = timer[v], restart_times'[v] = restart_times[v],
         relaunches'[v] = relaunches[v], watchdog'[v] = "restart" <=> watchdog[v] = "restart"
  PROVE  AgesOK(v)' /\ AgesDiffer(v)'
  <1>1. Remaining(v)' = Remaining(v)
    BY DEF Remaining
  <1>2. RoomForStart(v)'
    BY <1>1 DEF AgesOK, RoomForStart
  <1> QED
    BY <1>2 DEF AgesOK, AgesDiffer, StartsAreCounted, Since

\* v waits, retries or stops; a delay after a restart is over.
LEMMA NoDelay ==
  ASSUME AgesTyped, NEW v \in Launches, AgesOK(v), AgesDiffer(v),
         restart_times'[v] = restart_times[v], relaunches'[v] = relaunches[v],
         watchdog'[v] # "restart", watchdog[v] = "restart" => timer[v] = 0
  PROVE  AgesOK(v)' /\ AgesDiffer(v)'
  <1>1. AgesOK(v)'
    BY DEF AgesOK, StartsAreCounted, RoomForStart
  <1>2. Since(v) = RestartDelay /\ Since(v)' = RestartDelay
    BY Numbers DEF Since
  <1> QED
    BY <1>1, <1>2 DEF AgesDiffer

\* The delay after a restart ends with a start.
LEMMA StartAfterRestart ==
  ASSUME AgesTyped, NEW v \in Launches, AgesOK(v), AgesDiffer(v),
         watchdog[v] = "restart", timer[v] = 0, watchdog'[v] = "wait",
         restart_times'[v] = restart_times[v], relaunches'[v] = relaunches[v] \cup {0}
  PROVE  AgesOK(v)' /\ AgesDiffer(v)'
  <1> DEFINE S == relaunches[v]
  <1>1. S \in SUBSET (0..Window)
    BY DEF AgesTyped
  <1>2. Remaining(v) = S
    BY <1>1, Numbers DEF Remaining, AgesOK, StartsAreCounted
  <1>3. Cardinality(S) < RestartLimit /\ RestartDelay \in restart_times[v]
    BY <1>2, Numbers DEF AgesOK, RoomForStart
  <1>4. Cardinality(relaunches[v])' <= RestartLimit
    <2>1. IsFiniteSet(S) /\ Cardinality(S) \in Nat
      BY <1>1, FiniteAges
    <2>2. Cardinality(S \cup {0}) <= Cardinality(S) + 1
      <3>1. Cardinality(S \cup {0}) = IF 0 \in S THEN Cardinality(S) ELSE Cardinality(S) + 1
        BY <2>1, FS_AddElement
      <3> HIDE DEF S
      <3> QED
        BY <2>1, <3>1
    <2>3. Cardinality(S \cup {0}) \in Nat
      BY <2>1, FS_AddElement, FS_CardinalityType
    <2> HIDE DEF S
    <2>4. Cardinality(S \cup {0}) <= RestartLimit
      BY <1>3, <2>1, <2>2, <2>3, Numbers
    <2> QED
      BY <2>4 DEF S
  <1>5. StartsAreCounted(v)'
    BY <1>3, Numbers DEF AgesOK, StartsAreCounted
  <1>6. Since(v) = RestartDelay /\ Since(v)' = RestartDelay
    BY Numbers DEF Since
  <1> QED
    BY <1>4, <1>5, <1>6 DEF AgesOK, RoomForStart, AgesDiffer

\* A restart is granted: the starts that remain in the window have their
\* restarts among the recent ones.
LEMMA RestartGranted ==
  ASSUME AgesTyped, NEW v \in Launches, AgesOK(v), AgesDiffer(v),
         watchdog'[v] = "restart", Cardinality(Recent(restart_times[v])) < RestartLimit,
         restart_times'[v] = Recent(restart_times[v]) \cup {0}, timer'[v] = RestartDelay,
         relaunches'[v] = relaunches[v]
  PROVE  AgesOK(v)' /\ AgesDiffer(v)'
  <1> DEFINE R == {age \in relaunches[v] : age + RestartDelay < Window}
             T == Recent(restart_times[v])
  <1>1. relaunches[v] \in SUBSET (0..Window) /\ restart_times[v] \in SUBSET (0..Window)
    BY DEF AgesTyped
  <1>2. R \in SUBSET (0..Window) /\ T \in SUBSET (0..Window)
    BY <1>1 DEF Recent
  <1>3. \A age \in R : age + RestartDelay \in T
    BY DEF AgesOK, StartsAreCounted, Recent
  <1>4. Cardinality(R) <= Cardinality(T)
    <2>1. RestartDelay \in Int
      BY Numbers
    <2> HIDE DEF R, T
    <2> QED
      BY <1>2, <1>3, <2>1, Shifted
  <1>5. Cardinality(R) < RestartLimit
    <2>1. Cardinality(R) \in Nat /\ Cardinality(T) \in Nat
      BY <1>2, FiniteAges
    <2> QED
      BY <1>4, <2>1, Numbers
  <1>6. Remaining(v)' = R
    BY DEF Remaining
  <1>7. RoomForStart(v)'
    BY <1>5, <1>6, Numbers DEF RoomForStart
  <1>8. StartsAreCounted(v)'
    BY DEF AgesOK, StartsAreCounted, Recent
  <1>9. AgesDiffer(v)'
    <2>1. \A age \in restart_times'[v] \cup relaunches'[v] : age \in Int /\ 0 <= age
      BY <1>1, Numbers DEF Recent
    <2>2. Since(v)' = 0
      BY Numbers DEF Since
    <2> QED
      BY <2>1, <2>2, Numbers DEF AgesDiffer, Since
  <1> QED
    BY <1>7, <1>8, <1>9 DEF AgesOK

\* A second passes: ages grow as the delay shrinks.
LEMMA TickAges ==
  ASSUME AgesTyped, Tick, NEW v \in Launches, AgesOK(v), AgesDiffer(v)
  PROVE  AgesOK(v)' /\ AgesDiffer(v)'
  <1>1. /\ relaunches[v] \in SUBSET (0..Window) /\ relaunches'[v] \in SUBSET (0..Window)
        /\ restart_times[v] \in SUBSET (0..Window) /\ restart_times'[v] \in SUBSET (0..Window)
        /\ timer[v] \in Nat
    <2>1. AgesTyped'
      BY StepAgesTyped DEF Next
    <2> QED
      BY <2>1, Numbers DEF AgesTyped
  <1>2. /\ watchdog' = watchdog /\ timer'[v] = IF timer[v] > 0 THEN timer[v] - 1 ELSE 0
        /\ watchdog[v] = "restart" => timer[v] > 0
        /\ restart_times'[v] = Older(restart_times[v])
        /\ relaunches'[v] = Older(relaunches[v]) \ {Window}
    BY DEF Tick
  <1>3. \A age \in restart_times[v] : age < Window => age + 1 \in restart_times'[v]
    BY <1>1, <1>2, Numbers DEF Older
  <1>4. \A age \in restart_times'[v] :
          \/ age - 1 \in restart_times[v]
          \/ age = Window
    BY <1>1, <1>2, Numbers DEF Older
  <1>5. \A age \in relaunches'[v] : age - 1 \in relaunches[v] /\ age < Window
    BY <1>1, <1>2, Numbers DEF Older
  <1>6. StartsAreCounted(v)'
    <2> SUFFICES ASSUME NEW age \in relaunches'[v]
                 PROVE  /\ age < Window
                        /\ age + RestartDelay < Window => age + RestartDelay \in restart_times'[v]
      BY DEF StartsAreCounted
    <2>1. age \in Int /\ age - 1 \in relaunches[v] /\ age < Window
      BY <1>1, <1>5, Numbers
    <2>2. ASSUME age + RestartDelay < Window PROVE age + RestartDelay \in restart_times'[v]
      <3>1. (age - 1) + RestartDelay \in restart_times[v]
        BY <2>1, <2>2, Numbers DEF AgesOK, StartsAreCounted
      <3>2. ((age - 1) + RestartDelay) + 1 \in restart_times'[v]
        BY <1>3, <2>1, <2>2, <3>1, Numbers
      <3> QED
        BY <2>1, <3>2, Numbers
    <2> QED
      BY <2>1, <2>2
  <1>7. Cardinality(relaunches'[v]) <= RestartLimit
    <2>1. \A age \in relaunches'[v] : age + (0 - 1) \in relaunches[v]
      BY <1>1, <1>5, Numbers
    <2>2. Cardinality(relaunches'[v]) <= Cardinality(relaunches[v])
      <3>1. 0 - 1 \in Int
        OBVIOUS
      <3> QED
        BY <1>1, <2>1, <3>1, Shifted
    <2>3. Cardinality(relaunches'[v]) \in Nat /\ Cardinality(relaunches[v]) \in Nat
      BY <1>1, FiniteAges
    <2> QED
      BY <2>2, <2>3, Numbers DEF AgesOK
  <1>8. RoomForStart(v)'
    <2> SUFFICES ASSUME watchdog[v] = "restart"
                 PROVE  /\ timer'[v] <= RestartDelay
                        /\ RestartDelay - timer'[v] \in restart_times'[v]
                        /\ Cardinality(Remaining(v)') < RestartLimit
      BY <1>2 DEF RoomForStart
    <2>1. /\ timer'[v] = timer[v] - 1 /\ timer[v] > 0 /\ timer[v] <= RestartDelay
          /\ RestartDelay - timer[v] \in restart_times[v]
          /\ Cardinality(Remaining(v)) < RestartLimit
      BY <1>1, <1>2 DEF AgesOK, RoomForStart
    <2>2. RestartDelay - timer'[v] \in restart_times'[v]
      <3>1. (RestartDelay - timer[v]) + 1 \in restart_times'[v]
        BY <1>1, <1>3, <2>1, Numbers
      <3> QED
        BY <1>1, <2>1, <3>1, Numbers
    <2>3. Remaining(v) \in SUBSET (0..Window) /\ Remaining(v)' \in SUBSET (0..Window)
      BY <1>1 DEF Remaining
    <2>4. \A age \in Remaining(v)' : age + (0 - 1) \in Remaining(v)
      BY <1>1, <1>5, <2>1, Numbers DEF Remaining
    <2>5. Cardinality(Remaining(v)') <= Cardinality(Remaining(v))
      BY <2>3, <2>4, Shifted
    <2>6. Cardinality(Remaining(v)') \in Nat /\ Cardinality(Remaining(v)) \in Nat
      BY <2>3, FiniteAges
    <2> QED
      BY <1>1, <2>1, <2>2, <2>5, <2>6, Numbers
  <1>9. AgesDiffer(v)'
    <2>1. Since(v)' = IF watchdog[v] = "restart" THEN Since(v) + 1 ELSE Since(v)
      BY <1>1, <1>2, Numbers DEF Since
    <2>2. Since(v) \in Int /\ Since(v)' <= RestartDelay /\ Since(v)' <= Since(v) + 1
      BY <1>1, <1>2, <2>1, Numbers DEF Since
    <2>3. \A age \in 0..Window : Since(v) <= age - 1 => Since(v)' <= age
      <3> SUFFICES ASSUME NEW age \in 0..Window, Since(v) <= age - 1 PROVE Since(v)' <= age
        OBVIOUS
      <3>1. age \in Int /\ Since(v)' \in Int
        BY <2>1, <2>2, Numbers
      <3> QED
        BY <2>2, <3>1
    <2>4. /\ \A age \in restart_times'[v] : age \in 0..Window
          /\ \A age \in relaunches'[v] : age \in 0..Window
      BY <1>1
    <2>5. \A age \in restart_times'[v] : Since(v)' <= age
      <3> SUFFICES ASSUME NEW age \in restart_times'[v] PROVE Since(v)' <= age
        OBVIOUS
      <3>1. CASE age = Window
        <4>1. Since(v)' \in Int
          BY <2>1, <2>2
        <4> QED
          BY <2>2, <3>1, <4>1, Numbers
      <3>2. CASE age - 1 \in restart_times[v]
        <4>1. Since(v) <= age - 1
          BY <3>2 DEF AgesDiffer
        <4> QED
          BY <2>3, <2>4, <4>1
      <3> QED
        BY <1>4, <3>1, <3>2
    <2>6. watchdog'[v] = "restart" => \A age \in relaunches'[v] : Since(v)' <= age
      <3> SUFFICES ASSUME watchdog'[v] = "restart", NEW age \in relaunches'[v]
                   PROVE  Since(v)' <= age
        OBVIOUS
      <3>1. Since(v) <= age - 1
        BY <1>2, <1>5 DEF AgesDiffer
      <3> QED
        BY <2>3, <2>4, <3>1
    <2> QED
      BY <2>5, <2>6 DEF AgesDiffer
  <1> QED
    BY <1>6, <1>7, <1>8, <1>9 DEF AgesOK

\* One step of watchdog w keeps the ages of each.
LEMMA WatchdogAges ==
  ASSUME Typed, AgesTyped, NEW w \in Launches, WatchdogStep(w),
         NEW v \in Launches, AgesOK(v), AgesDiffer(v)
  PROVE  AgesOK(v)' /\ AgesDiffer(v)'
  <1> USE DEF Typed, AgesTyped
  <1>1. CASE v # w
    <2>1. watchdog'[v] = watchdog[v] /\ timer'[v] = timer[v]
          /\ restart_times'[v] = restart_times[v] /\ relaunches'[v] = relaunches[v]
      BY <1>1 DEF WatchdogStep, AcquireInstance, SpawnChild, SpawnErr, ChildFailed, ChildExited,
                  ChildRestart, Retry, Stop, loopVars
    <2> QED
      BY <2>1, SameAges
  <1>2. CASE v = w /\ (AcquireInstance(w) \/ SpawnErr(w) \/ ChildFailed(w) \/ ChildExited(w) \/ Stop(w))
                   /\ (watchdog[w] = "restart" => timer[w] = 0)
    <2>1. watchdog'[v] # "restart" /\ restart_times'[v] = restart_times[v]
          /\ relaunches'[v] = relaunches[v]
      BY <1>2 DEF AcquireInstance, SpawnErr, ChildFailed, ChildExited, Retry, Stop, loopVars
    <2> QED
      BY <1>2, <2>1, NoDelay
  <1>3. CASE v = w /\ SpawnChild(w)
    <2>1. CASE watchdog[w] = "restart"
      <3>1. /\ timer[v] = 0 /\ watchdog'[v] = "wait" /\ restart_times'[v] = restart_times[v]
            /\ relaunches'[v] = relaunches[v] \cup {0}
        BY <1>3, <2>1 DEF SpawnChild
      <3> QED
        BY <1>3, <2>1, <3>1, StartAfterRestart
    <2>2. CASE watchdog[w] # "restart"
      <3>1. /\ watchdog'[v] = "wait" /\ restart_times'[v] = restart_times[v]
            /\ relaunches'[v] = relaunches[v]
        BY <1>3, <2>2 DEF SpawnChild
      <3> QED
        BY <1>3, <2>2, <3>1, NoDelay
    <2> QED
      BY <2>1, <2>2
  <1>4. CASE v = w /\ ChildRestart(w) /\ ~Stop(w)
    <2>1. /\ Cardinality(Recent(restart_times[v])) < RestartLimit
          /\ restart_times' = [restart_times EXCEPT ![v] = Recent(restart_times[v]) \cup {0}]
          /\ timer' = [timer EXCEPT ![v] = RestartDelay]
          /\ watchdog' = [watchdog EXCEPT ![v] = "restart"] /\ UNCHANGED relaunches
      BY <1>4 DEF ChildRestart
    <2>2. /\ restart_times'[v] = Recent(restart_times[v]) \cup {0} /\ timer'[v] = RestartDelay
          /\ watchdog'[v] = "restart" /\ relaunches'[v] = relaunches[v]
      BY <2>1
    <2> QED
      BY <2>1, <2>2, RestartGranted
  <1>5. /\ AcquireInstance(w) => watchdog[w] # "restart"
        /\ SpawnErr(w) => (watchdog[w] = "restart" => timer[w] = 0)
        /\ ChildFailed(w) \/ ChildExited(w) \/ ChildRestart(w) => watchdog[w] # "restart"
    BY DEF AcquireInstance, SpawnErr, ChildFailed, ChildExited, ChildRestart, ChildEnded
  <1> QED
    BY <1>1, <1>2, <1>3, <1>4, <1>5 DEF WatchdogStep

LEMMA AgesInvariant == Spec => [](AgesTyped /\ \A w \in Launches : AgesOK(w) /\ AgesDiffer(w))
  <1> DEFINE Ages == \A w \in Launches : AgesOK(w) /\ AgesDiffer(w)
  <1>1. ASSUME IInv, AgesTyped, Ages, [Next]_vars PROVE AgesTyped' /\ Ages'
    <2>1. AgesTyped'
      BY <1>1, StepAgesTyped
    <2> SUFFICES ASSUME NEW v \in Launches PROVE AgesOK(v)' /\ AgesDiffer(v)'
      BY <2>1
    <2>2. AgesOK(v) /\ AgesDiffer(v)
      BY <1>1
    <2>3. CASE \E w \in Launches : WatchdogStep(w)
      BY <1>1, <2>2, <2>3, WatchdogAges DEF IInv
    <2>4. CASE Tick
      BY <1>1, <2>2, <2>4, TickAges
    <2>5. CASE UNCHANGED <<watchdog, timer, restart_times, relaunches>>
      BY <2>2, <2>5, SameAges
    <2>6. CASE \E w \in Launches : Launch(w) \/ LaunchSupervisor(w)
      <3>1. UNCHANGED <<timer, restart_times, relaunches>>
        BY <2>6 DEF Launch, LaunchSupervisor, loopVars
      <3>2. watchdog'[v] = "restart" <=> watchdog[v] = "restart"
        BY <1>1, <2>6, Processes DEF Launch, LaunchSupervisor, IInv, Typed, ChildLives
      <3> QED
        BY <2>2, <3>1, <3>2, SameAges
    <2>7. \A g \in Guis : /\ GuiStep(g) => \/ UNCHANGED <<watchdog, timer, restart_times, relaunches>>
                                           \/ \E w \in Launches : LaunchSupervisor(w)
                          /\ \A exit \in Codes : Exit(g, exit) =>
                               UNCHANGED <<watchdog, timer, restart_times, relaunches>>
      BY Processes DEF GuiStep, CheckSingleton, LaunchSupervisorErr, Leave, Exit, loopVars
    <2> QED
      BY <1>1, <2>3, <2>4, <2>5, <2>6, <2>7 DEF Next, vars
  <1>2. Init => AgesTyped /\ Ages
    BY InitAges
  <1> HIDE DEF Ages
  <1>3. Spec => [](AgesTyped /\ Ages)
    BY <1>1, <1>2, Invariant, PTL DEF Spec
  <1> QED
    BY <1>3 DEF Ages

-----------------------------------------------------------------------------

(* At most one GUI process is past the singleton check (check_singleton),  *)
(* however many are launched, supervised, restarted or die.                *)
THEOREM OneProgramRuns == Spec => []OneProgram
  <1>1. IInv => OneProgram
    BY DEF IInv, HolderIsPast, Past, OneProgram
  <1> QED
    BY <1>1, Invariant, PTL

(* A child that lives has its watchdog waiting for it, the only one.       *)
THEOREM ChildrenAreSupervised == Spec => []ChildIsSupervised
  <1>1. ASSUME IInv PROVE ChildIsSupervised
    <2> SUFFICES ASSUME NEW w \in Launches, gui[Child(w)] \in {"check", "running"}
                 PROVE  watchdog[w] = "wait" /\ instance = w
      BY DEF ChildIsSupervised
    <2> QED
      BY <1>1 DEF IInv, ChildLives, HolderLoops, Loops
  <1> QED
    BY <1>1, Invariant, PTL

(* Failures in a row lead to at most MAX_RETRIES further starts, also when *)
(* spawning fails and after restarts (run_loop).                           *)
THEOREM RetriesEnd == Spec => []RetriesAreBounded
  <1>1. IInv => RetriesAreBounded
    BY DEF IInv, FailuresAreCounted, RetriesAreBounded
  <1> QED
    BY <1>1, Invariant, PTL

(* Processes, watchdogs, counts, ages and delays keep their types.         *)
THEOREM TypeCorrect == Spec => []TypeOK
  <1>1. IInv /\ AgesTyped => TypeOK
    BY DEF IInv, Typed, AgesTyped, TypeOK
  <1> QED
    BY <1>1, Invariant, AgesInvariant, PTL

(* A program that asks for a restart whenever it starts is restarted at    *)
(* most RESTART_LIMIT_PER_WINDOW times in any RESTART_WINDOW_SECS, also    *)
(* when failures and their retries come between (run).                     *)
THEOREM RestartsEnd == Spec => []RestartsAreThrottled
  <1>1. (\A w \in Launches : AgesOK(w) /\ AgesDiffer(w)) => RestartsAreThrottled
    BY DEF AgesOK, RestartsAreThrottled
  <1> QED
    BY <1>1, AgesInvariant, PTL

(* When the watchdog notes a restart or a start, none is noted for the     *)
(* same second: the sets of their ages lose none of them.                  *)
THEOREM AgesLoseNothing ==
  Spec => [](\A w \in Launches : /\ watchdog[w] = "wait" => 0 \notin restart_times[w]
                                 /\ watchdog[w] = "restart" /\ timer[w] = 0 => 0 \notin relaunches[w])
  <1>1. AgesTyped /\ (\A w \in Launches : AgesOK(w) /\ AgesDiffer(w))
          => \A w \in Launches : /\ watchdog[w] = "wait" => 0 \notin restart_times[w]
                                 /\ watchdog[w] = "restart" /\ timer[w] = 0 => 0 \notin relaunches[w]
    BY Numbers DEF AgesDiffer, Since
  <1> QED
    BY <1>1, AgesInvariant, PTL
=============================================================================
