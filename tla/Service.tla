------------------------------- MODULE Service -------------------------------
(***************************************************************************)
(* Service: clash-astra-service, the Windows service that runs the core in *)
(* service mode, and its clients in the application and its helpers.       *)
(*                                                                         *)
(* The service answers HTTP requests one at a time on its server thread;   *)
(* its main thread waits for the stop flag, joins the server thread, and   *)
(* reports to the service control manager (SCM).  Three clients call it    *)
(* without knowing of each other: the core manager (under core_operation), *)
(* stop_service_if_idle, and the user's install and uninstall commands.    *)
(* Requests with an effect are queued; a client that stops waiting leaves  *)
(* its request behind.  Requests that only look are one step.              *)
(*                                                                         *)
(* Any call may fail or time out at any time, and the core may die at any  *)
(* time.  Definitions whose names begin with Bug are mistakes the code does*)
(* not make: substituted for the definition they precede, each must break  *)
(* the property its comment names.                                         *)
(***************************************************************************)
EXTENDS Naturals, Sequences

CONSTANTS
    Pids,      \* process ids the core may get
    Tokens,    \* contents the API token file may have
    None,      \* no process, no token
    MaxQueue   \* bound: requests received and not answered

ASSUME ServiceAssumption ==
    /\ None \notin Pids \cup Tokens
    /\ MaxQueue \in Nat

Clients == {"manager", "idler", "admin"}

VARIABLES
    scm,      \* what the SCM says of the service
    marked,   \* it is marked for deletion
    token,    \* the token file
    main,     \* the service's main thread
    server,   \* its server thread
    stop,     \* its stop flag
    loaded,   \* the token it read when it started
    core,     \* clash_state: the core it manages
    alive,    \* core processes that run
    queue,    \* requests received and not answered
    pc        \* the clients

service == <<main, server, stop, loaded, core, alive>>
vars == <<scm, marked, token, main, server, stop, loaded, core, alive, queue, pc>>

Waiting == {"evicting", "posting", "undoing", "asking", "quitting"}

Places == Waiting \cup
    {"idle", "ensure", "poll", "check", "evict", "post", "pid", "ready", "undo", "settle",
     "ask", "query", "delete", "forget", "gone", "token", "register", "status", "stopped"}

Request == [from : Clients, op : {"start", "stop", "stop_service"}, token : Tokens, live : BOOLEAN]

Init ==
    /\ scm \in {"absent", "stopped"}
    /\ marked = FALSE
    /\ token \in IF scm = "absent" THEN {None} ELSE Tokens
    /\ main = "down" /\ server = "none" /\ stop = FALSE /\ loaded = None
    /\ core = None /\ alive = {}
    /\ queue = <<>>
    /\ pc = [c \in Clients |-> "idle"]

Goto(c, place) == pc' = [pc EXCEPT ![c] = place]

-----------------------------------------------------------------------------
(* The service.                                                            *)

\* start_service_process of the application, or of the user: the SCM starts the
\* process, or says that there is one (1056).
ScStart ==
    \/ scm = "stopped" /\ ~marked /\ scm' = "starting" /\ main' = "boot"
    \/ scm \in {"starting", "running", "stopping"} /\ UNCHANGED <<scm, main>>

\* service_main returns before it has reported: the process is gone.
Down ==
    /\ main' = "down" /\ server' = "none" /\ stop' = FALSE /\ loaded' = None
    /\ scm' = "stopped"

\* run_service reads the token first; without one the service does not start.
ReadToken ==
    /\ main = "boot"
    /\ \/ token = None /\ Down
       \/ /\ token # None
          /\ loaded' = token /\ main' = "bind"
          /\ UNCHANGED <<scm, server, stop>>
    /\ UNCHANGED <<marked, token, core, alive, queue, pc>>

\* The API's address is bound, or taken; the server thread serves before
\* the SCM hears that the service runs.
Bind ==
    /\ main = "bind"
    /\ \/ Down
       \/ main' = "bound" /\ server' = "recv" /\ UNCHANGED <<scm, stop, loaded>>
    /\ UNCHANGED <<marked, token, core, alive, queue, pc>>

ReportRunning ==
    /\ main = "bound"
    /\ main' = "up" /\ scm' = "running"
    /\ UNCHANGED <<marked, token, server, stop, loaded, core, alive, queue, pc>>

\* ServiceControl::Stop and Shutdown; nothing is accepted before or after Running.
StopControl == stop' = (stop \/ scm = "running")

Shutdown ==
    /\ scm = "running" /\ ~stop
    /\ StopControl
    /\ UNCHANGED <<scm, marked, token, main, server, loaded, core, alive, queue, pc>>

\* stop_clash: the child is killed and waited for.
StopClash == core' = None /\ alive' = alive \ {core}

MainStop ==
    /\ main = "up" /\ stop
    /\ main' = "joining" /\ scm' = "stopping"
    /\ UNCHANGED <<marked, token, server, stop, loaded, core, alive, queue, pc>>

\* Breaks StoppedLeavesNoCore: the core is not stopped again after the join.
BugJoin ==
    /\ main = "joining" /\ server = "ended"
    /\ Down
    /\ UNCHANGED <<marked, token, core, alive, queue, pc>>

\* The server thread is joined, then the core is stopped once more.
Join ==
    /\ main = "joining" /\ server = "ended"
    /\ StopClash
    /\ Down
    /\ UNCHANGED <<marked, token, queue, pc>>

\* Breaks CallsReturn: the server outlives its thread and keeps connections open.
BugLost(at) == at

\* The server goes with its thread: requests that nobody will answer fail.
Lost(at) ==
    [c \in Clients |->
        CASE at[c] \in {"evicting", "posting"} -> "undo"
          [] at[c] \in {"undoing", "quitting"} -> "idle"
          [] at[c] = "asking" -> "query"
          [] OTHER -> at[c]]

EndLoop(at) == server' = "ended" /\ queue' = <<>> /\ pc' = Lost(at)

\* Breaks ShutdownEnds: the server thread looks at the flag only after a request.
BugLoopEnd ==
    /\ server = "recv" /\ queue = <<>>
    /\ UNCHANGED vars

\* recv_timeout ran out and the flag is set; or it failed, and the service lives
\* on without an API.
LoopEnd ==
    /\ server = "recv" /\ queue = <<>> /\ stop
    /\ EndLoop(pc)
    /\ UNCHANGED <<scm, marked, token, main, stop, loaded, core, alive>>

LoopError ==
    /\ server = "recv"
    /\ EndLoop(pc)
    /\ UNCHANGED <<scm, marked, token, main, stop, loaded, core, alive>>

\* The answer moves a client on that still waits for it; then the loop looks at
\* the flag, which may be set again before the next request is taken.
Answer(ok) ==
    LET request == Head(queue)
        next == CASE pc[request.from] = "evicting" -> IF ok THEN "post" ELSE "undo"
                  [] pc[request.from] = "posting"  -> IF ok THEN "pid" ELSE "undo"
                  [] pc[request.from] = "undoing"  -> "idle"
                  [] pc[request.from] = "asking"   -> "query"
                  [] pc[request.from] = "quitting" -> IF ok THEN "settle" ELSE "idle"
                  [] OTHER -> pc[request.from]
        at == IF request.live THEN [pc EXCEPT ![request.from] = next] ELSE pc
    IN  IF stop' THEN EndLoop(at)
        ELSE queue' = Tail(queue) /\ pc' = at /\ UNCHANGED server

Serving(op) ==
    /\ server = "recv" /\ queue # <<>>
    /\ Head(queue).op = op /\ Head(queue).token = loaded
    /\ UNCHANGED <<scm, marked, token, main, loaded>>

\* request_is_authorized.
ServeUnauthorized ==
    /\ server = "recv" /\ queue # <<>>
    /\ Head(queue).token # loaded
    /\ UNCHANGED <<scm, marked, token, main, stop, loaded, core, alive>>
    /\ Answer(FALSE)

\* validate_start_request: the binary, the directory, the file or the log is not
\* the approved one; the core that runs is left alone.
ServeStartRejected ==
    /\ Serving("start")
    /\ UNCHANGED <<stop, core, alive>>
    /\ Answer(FALSE)

\* Breaks CoreIsOwned: the core that runs is forgotten instead of killed.
BugServeStart ==
    /\ Serving("start")
    /\ UNCHANGED stop
    /\ \/ core' = None /\ Answer(FALSE) /\ UNCHANGED alive
       \/ \E pid \in Pids \ alive : core' = pid /\ alive' = alive \cup {pid} /\ Answer(TRUE)

\* start_clash: the old core is killed first; the log cannot be opened, the
\* process not be spawned or it exits at once, or the new core is kept.
ServeStart ==
    /\ Serving("start")
    /\ UNCHANGED stop
    /\ \/ StopClash /\ Answer(FALSE)
       \/ \E pid \in Pids \ alive :
             core' = pid /\ alive' = (alive \ {core}) \cup {pid} /\ Answer(TRUE)

ServeStop == Serving("stop") /\ StopClash /\ UNCHANGED stop /\ Answer(TRUE)

\* The flag is set before the answer is sent.
ServeStopService == Serving("stop_service") /\ StopClash /\ stop' = TRUE /\ Answer(TRUE)

\* /get_clash of the monitor or of a status query: a core found dead is forgotten.
ServeGetClash ==
    /\ server = "recv" /\ queue = <<>>
    /\ core # None /\ core \notin alive
    /\ core' = None
    /\ UNCHANGED <<scm, marked, token, main, server, stop, loaded, alive, queue, pc>>

CoreDies ==
    /\ \E pid \in alive : alive' = alive \ {pid}
    /\ UNCHANGED <<scm, marked, token, main, server, stop, loaded, core, queue, pc>>

MainStep == ReadToken \/ Bind \/ ReportRunning \/ MainStop \/ Join

ServerStep ==
    \/ LoopEnd
    \/ ServeUnauthorized \/ ServeStartRejected \/ ServeStart \/ ServeStop \/ ServeStopService

-----------------------------------------------------------------------------
(* Calls of the clients.                                                   *)

\* The service answers: it serves and the file has the token it loaded.
Reachable == server = "recv" /\ token # None /\ token = loaded

\* query_service_state and get_service_health together.
Healthy == scm = "running" /\ Reachable

\* Breaks TypeOK: a request is posted without a token.
BugPost(c, op, place) ==
    /\ server = "recv"
    /\ Len(queue) < MaxQueue
    /\ queue' = Append(queue, [from |-> c, op |-> op, token |-> token, live |-> TRUE])
    /\ Goto(c, place)

\* A request is posted, if there is a token and somebody listens.
Post(c, op, place) ==
    /\ token # None /\ server = "recv"
    /\ Len(queue) < MaxQueue
    /\ queue' = Append(queue, [from |-> c, op |-> op, token |-> token, live |-> TRUE])
    /\ Goto(c, place)

\* The call fails before anything is sent.
PostFails(c, place) == UNCHANGED queue /\ Goto(c, place)

\* The client gives up; its request stays where it is.
Abandon(c) ==
    queue' = [i \in DOMAIN queue |->
                 IF queue[i].from = c THEN [queue[i] EXCEPT !.live = FALSE] ELSE queue[i]]

ClientOnly == UNCHANGED <<scm, marked, token, service>>

Abandoned ==
    /\ \E c \in Clients :
          /\ pc[c] \in Waiting \ {"posting"}
          /\ Abandon(c)
          /\ Goto(c, CASE pc[c] = "evicting" -> "undo"
                       [] pc[c] = "asking" -> "query"
                       [] OTHER -> "idle")
    /\ ClientOnly

-----------------------------------------------------------------------------
(* The core manager: run_core_by_service and stop_core_by_service.         *)

ManagerBegin ==
    /\ pc["manager"] = "idle"
    /\ \E place \in {"ensure", "undo"} : Goto("manager", place)
    /\ UNCHANGED queue /\ ClientOnly

\* ensure_service_ready: the service is started unless it answers ...
EnsureReady ==
    /\ pc["manager"] = "ensure"
    /\ \/ Healthy /\ Goto("manager", "check") /\ UNCHANGED <<scm, main>>
       \/ ScStart /\ Goto("manager", "poll")
       \/ (scm = "absent" \/ marked) /\ Goto("manager", "undo") /\ UNCHANGED <<scm, main>>
    /\ UNCHANGED <<marked, token, server, stop, loaded, core, alive, queue>>

\* ... and polled for fifteen seconds.
PollReady ==
    /\ pc["manager"] = "poll"
    /\ Goto("manager", IF Healthy THEN "check" ELSE "undo")
    /\ UNCHANGED queue /\ ClientOnly

\* check_service: a core it manages is stopped first.  A failed look finds none.
CheckService ==
    /\ pc["manager"] = "check"
    /\ \/ Goto("manager", "post")
       \/ Reachable /\ core \in alive /\ Goto("manager", "evict")
    /\ UNCHANGED queue /\ ClientOnly

Evict ==
    /\ pc["manager"] = "evict"
    /\ Post("manager", "stop", "evicting") \/ PostFails("manager", "undo")
    /\ ClientOnly

\* /start_clash is posted without a timeout.
PostStart ==
    /\ pc["manager"] = "post"
    /\ Post("manager", "start", "posting") \/ PostFails("manager", "undo")
    /\ ClientOnly

\* /get_clash is asked for the pid up to twenty times ...
AwaitPid ==
    /\ pc["manager"] = "pid"
    /\ \/ Reachable /\ core \in alive /\ Goto("manager", "ready")
       \/ Goto("manager", "undo")
    /\ UNCHANGED queue /\ ClientOnly

\* ... and the core's controller for twelve seconds.
AwaitReady ==
    /\ pc["manager"] = "ready"
    /\ \/ alive # {} /\ Goto("manager", "idle")
       \/ Goto("manager", "undo")
    /\ UNCHANGED queue /\ ClientOnly

\* stop_core_by_service: of a failed start, or of stop_core.
StopByService ==
    /\ pc["manager"] = "undo"
    /\ Post("manager", "stop", "undoing") \/ PostFails("manager", "idle")
    /\ ClientOnly

ManagerStep ==
    \/ EnsureReady \/ PollReady \/ CheckService \/ Evict \/ PostStart \/ AwaitPid \/ AwaitReady
    \/ StopByService

-----------------------------------------------------------------------------
(* stop_service_if_idle, after service mode was switched off and at the end.*)

\* Only a running service without a core is stopped; a look that fails counts
\* as one that found no core.
IdleLook ==
    /\ pc["idler"] = "idle"
    /\ scm = "running"
    /\ Post("idler", "stop_service", "quitting")
    /\ ClientOnly

IdleSettled ==
    /\ pc["idler"] = "settle"
    /\ Goto("idler", "idle")
    /\ UNCHANGED queue /\ ClientOnly

-----------------------------------------------------------------------------
(* The commands uninstall_service and install_service with their helpers,   *)
(* which the settings page lets run one at a time.                          *)

UninstallBegin ==
    /\ pc["admin"] = "idle"
    /\ Post("admin", "stop", "asking") \/ PostFails("admin", "query")
    /\ ClientOnly

\* Nothing to do without a service; else the helper stops it ...
UninstallQuery ==
    /\ pc["admin"] = "query"
    /\ \/ scm = "absent" /\ Goto("admin", "idle") /\ UNCHANGED stop
       \/ scm # "absent" /\ Goto("admin", "delete") /\ StopControl
    /\ UNCHANGED <<scm, marked, token, main, server, loaded, core, alive, queue>>

\* Breaks TokenMatches: the token is removed before the service is deleted.
BugUninstallDelete ==
    /\ pc["admin"] = "delete"
    /\ token' = None
    /\ \/ marked' = TRUE /\ Goto("admin", "forget")
       \/ UNCHANGED marked /\ Goto("admin", "gone")
    /\ UNCHANGED <<scm, service, queue>>

\* ... and deletes it, which can fail ...
UninstallDelete ==
    /\ pc["admin"] = "delete"
    /\ \/ marked' = TRUE /\ Goto("admin", "forget")
       \/ UNCHANGED marked /\ Goto("admin", "gone")
    /\ UNCHANGED <<scm, token, service, queue>>

\* ... and only then removes the token.
UninstallForget ==
    /\ pc["admin"] = "forget"
    /\ token' \in {None, token}
    /\ Goto("admin", "gone")
    /\ UNCHANGED <<scm, marked, service, queue>>

\* wait_until_service_removed, with success or not.
UninstallEnd ==
    /\ pc["admin"] = "gone"
    /\ Goto("admin", "idle")
    /\ UNCHANGED queue /\ ClientOnly

\* The SCM removes a marked service when it has stopped.
ScmRemoves ==
    /\ marked /\ scm = "stopped"
    /\ scm' = "absent" /\ marked' = FALSE
    /\ UNCHANGED <<token, service, queue, pc>>

\* ensure_api_token: a valid token is kept, else a new one takes its place; when
\* it cannot be protected it is removed and the helper fails.
InstallToken ==
    /\ pc["admin"] = "idle"
    /\ \/ token # None /\ UNCHANGED token /\ Goto("admin", "register")
       \/ token = None /\ token' \in Tokens \ {loaded} /\ Goto("admin", "register")
    /\ UNCHANGED <<scm, marked, service, queue>>

\* The service is created, or its configuration repaired unless it is marked.
InstallRegister ==
    /\ pc["admin"] = "register"
    /\ \/ scm = "absent" /\ scm' = "stopped" /\ Goto("admin", "status")
       \/ scm # "absent" /\ ~marked /\ UNCHANGED scm /\ Goto("admin", "status")
       \/ UNCHANGED scm /\ Goto("admin", "idle")
    /\ UNCHANGED <<marked, token, service, queue>>

\* A running service is stopped ...
InstallStatus ==
    /\ pc["admin"] = "status"
    /\ StopControl
    /\ Goto("admin", IF scm = "running" THEN "stopped" ELSE "idle")
    /\ UNCHANGED <<scm, marked, token, main, server, loaded, core, alive, queue>>

\* ... and has ten seconds to end.
InstallEnd ==
    /\ pc["admin"] = "stopped"
    /\ Goto("admin", "idle")
    /\ UNCHANGED queue /\ ClientOnly

AdminStep ==
    \/ UninstallQuery \/ UninstallDelete \/ UninstallForget \/ UninstallEnd
    \/ InstallRegister \/ InstallStatus \/ InstallEnd

-----------------------------------------------------------------------------

Next ==
    \/ MainStep \/ ServerStep \/ LoopError \/ Shutdown \/ ServeGetClash \/ CoreDies \/ ScmRemoves
    \/ ManagerBegin \/ ManagerStep \/ Abandoned
    \/ IdleLook \/ IdleSettled
    \/ UninstallBegin \/ InstallToken \/ AdminStep

\* The service's threads and the clients' tasks run on; nobody has to begin a
\* call, and no failure has to happen.
Fairness ==
    /\ WF_vars(MainStep) /\ WF_vars(ServerStep)
    /\ WF_vars(ManagerStep) /\ WF_vars(AdminStep) /\ WF_vars(IdleSettled)

SafetySpec == Init /\ [][Next]_vars

Spec == SafetySpec /\ Fairness

-----------------------------------------------------------------------------

TypeOK ==
    /\ scm \in {"absent", "stopped", "starting", "running", "stopping"}
    /\ marked \in BOOLEAN /\ stop \in BOOLEAN
    /\ token \in Tokens \cup {None} /\ loaded \in Tokens \cup {None}
    /\ main \in {"down", "boot", "bind", "bound", "up", "joining"}
    /\ server \in {"none", "recv", "ended"}
    /\ core \in Pids \cup {None} /\ alive \subseteq Pids
    /\ queue \in Seq(Request)
    /\ pc \in [Clients -> Places]

\* The service knows every core process it has started and that still runs:
\* no failed, repeated or late request leaves one behind that no later request
\* could stop, and there are never two.
CoreIsOwned == alive \subseteq {core}

\* When the SCM is told that the service has stopped no core of it runs, also
\* when a start was being served as the stop was asked for.
StoppedLeavesNoCore == scm \in {"absent", "stopped"} => alive = {}

\* A service that serves, and is there to stay, accepts the token its clients
\* read: installations, repairs and removals, finished or failed halfway, never
\* leave a running service and a file that disagree.
TokenMatches ==
    server = "recv" /\ ~marked /\ pc["admin"] = "idle" => loaded = token

\* The core manager waits for /start_clash without a timeout and holds
\* core_operation: it always gets an answer or an error, also from a service that
\* is being stopped or whose server thread has failed.
CallsReturn == pc["manager"] = "posting" ~> pc["manager"] # "posting"

\* A service that was told to stop ends, whatever its clients ask of it.
ShutdownEnds == stop ~> main = "down"
=============================================================================
