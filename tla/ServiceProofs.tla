---------------------------- MODULE ServiceProofs ----------------------------
(***************************************************************************)
(* Proofs about Service, for any process ids, tokens and length of the     *)
(* queue.                                                                  *)
(***************************************************************************)
EXTENDS Service, TLAPS

\* What the SCM knows follows the main thread, and before the main thread has
\* bound the address no request is served and no core runs.
ThreadsOK ==
    /\ scm \in {"absent", "stopped"} <=> main = "down"
    /\ main \in {"down", "boot", "bind"} => server = "none" /\ alive = {}

\* A service that has loaded a token and is not marked for deletion has the one
\* in the file; the file is only cleared for a service that will not come back.
TokenOK ==
    /\ main \in {"bind", "bound", "up", "joining"} =>
          loaded # None /\ (marked \/ loaded = token)
    /\ pc["admin"] = "forget" => marked \/ scm = "absent"

IInv == TypeOK /\ CoreIsOwned /\ ThreadsOK /\ TokenOK

-----------------------------------------------------------------------------
(* Operators.                                                              *)

\* Clients whose connection is lost are at a place of their code.
LEMMA LostTyped ==
  ASSUME NEW at \in [Clients -> Places]
  PROVE  /\ Lost(at) \in [Clients -> Places]
         /\ Lost(at)["admin"] = "forget" <=> at["admin"] = "forget"
  BY DEF Lost, Places, Waiting, Clients

\* The stop flag is a flag.
LEMMA StopTyped == stop \in BOOLEAN /\ StopControl => stop' \in BOOLEAN
  BY DEF StopControl

\* A client goes to a place of its code.
LEMMA GotoTyped ==
  ASSUME pc \in [Clients -> Places], NEW c \in Clients, NEW place \in Places, Goto(c, place)
  PROVE  /\ pc' \in [Clients -> Places]
         /\ pc'["admin"] = IF c = "admin" THEN place ELSE pc["admin"]
  BY DEF Goto, Clients

\* An answer takes the first request and moves its client, or ends the loop.
LEMMA AnswerTyped ==
  ASSUME TypeOK, queue # <<>>, stop' \in BOOLEAN, NEW ok \in BOOLEAN, Answer(ok)
  PROVE  /\ queue' \in Seq(Request)
         /\ pc' \in [Clients -> Places]
         /\ server' \in {server, "ended"}
         /\ pc'["admin"] = "forget" <=> pc["admin"] = "forget"
  <1> DEFINE request == Head(queue)
             next == CASE pc[request.from] = "evicting" -> IF ok THEN "post" ELSE "undo"
                       [] pc[request.from] = "posting"  -> IF ok THEN "pid" ELSE "undo"
                       [] pc[request.from] = "undoing"  -> "idle"
                       [] pc[request.from] = "asking"   -> "query"
                       [] pc[request.from] = "quitting" -> IF ok THEN "settle" ELSE "idle"
                       [] OTHER -> pc[request.from]
             at == IF request.live THEN [pc EXCEPT ![request.from] = next] ELSE pc
  <1>1. request \in Request /\ Tail(queue) \in Seq(Request)
    BY DEF TypeOK
  <1>2. request.from \in Clients
    BY <1>1 DEF Request
  <1>3. next \in Places /\ (next = "forget" <=> pc[request.from] = "forget")
    BY <1>2 DEF TypeOK, Places, Waiting
  <1>4. at \in [Clients -> Places] /\ (at["admin"] = "forget" <=> pc["admin"] = "forget")
    <2> HIDE DEF next, request
    <2> QED
      BY <1>2, <1>3 DEF TypeOK, Clients
  <1>5. IF stop' THEN EndLoop(at)
        ELSE queue' = Tail(queue) /\ pc' = at /\ UNCHANGED server
    BY DEF Answer
  <1>6. CASE stop'
    <2>1. server' = "ended" /\ queue' = <<>> /\ pc' = Lost(at)
      BY <1>5, <1>6 DEF EndLoop
    <2>2. Lost(at) \in [Clients -> Places] /\ (Lost(at)["admin"] = "forget" <=> at["admin"] = "forget")
      BY <1>4, LostTyped
    <2> HIDE DEF at
    <2> QED
      BY <1>4, <2>1, <2>2
  <1>7. CASE ~stop'
    <2>1. queue' = Tail(queue) /\ pc' = at /\ server' = server
      BY <1>5, <1>7
    <2> HIDE DEF at
    <2> QED
      BY <1>1, <1>4, <2>1
  <1> QED
    BY <1>6, <1>7

\* A posted request is one.
LEMMA PostTyped ==
  ASSUME TypeOK, NEW c \in Clients, NEW op \in {"start", "stop", "stop_service"}, NEW place \in Places,
         Post(c, op, place)
  PROVE  queue' \in Seq(Request) /\ Goto(c, place)
  <1> DEFINE request == [from |-> c, op |-> op, token |-> token, live |-> TRUE]
  <1>1. token \in Tokens /\ queue' = Append(queue, request) /\ Goto(c, place)
    BY DEF TypeOK, Post
  <1>2. request \in Request
    BY <1>1 DEF Request
  <1>3. queue \in Seq(Request)
    BY DEF TypeOK
  <1> HIDE DEF request
  <1> QED
    BY <1>1, <1>2, <1>3

\* A request that its client has left is one.
LEMMA AbandonTyped ==
  ASSUME TypeOK, NEW c, Abandon(c)
  PROVE  queue' \in Seq(Request)
  <1>1. queue \in Seq(Request)
    BY DEF TypeOK
  <1>2. \A i \in DOMAIN queue : queue[i] \in Request
    BY <1>1
  <1>3. \A r \in Request : [r EXCEPT !.live = FALSE] \in Request
    BY DEF Request
  <1>4. queue' \in [DOMAIN queue -> Request]
    BY <1>2, <1>3 DEF Abandon
  <1>5. DOMAIN queue = 1..Len(queue) /\ Len(queue) \in Nat
    BY <1>1
  <1> QED
    BY <1>4, <1>5

\* A step of a client alone.
LEMMA ClientStep ==
  ASSUME IInv, ClientOnly, queue' \in Seq(Request), pc' \in [Clients -> Places],
         pc'["admin"] = "forget" => pc["admin"] = "forget"
  PROVE  IInv'
  BY DEF ClientOnly, service, IInv, TypeOK, CoreIsOwned, ThreadsOK, TokenOK

-----------------------------------------------------------------------------
(* The invariant.                                                          *)

LEMMA InitIInv == Init => IInv
  <1> SUFFICES ASSUME Init PROVE IInv
    OBVIOUS
  <1>1. pc \in [Clients -> Places] /\ pc["admin"] = "idle"
    BY DEF Init, Clients, Places
  <1>2. queue \in Seq(Request)
    BY DEF Init
  <1>3. scm \in {"absent", "stopped"} /\ token \in Tokens \cup {None}
    BY DEF Init
  <1> QED
    BY <1>1, <1>2, <1>3 DEF Init, IInv, TypeOK, CoreIsOwned, ThreadsOK, TokenOK

\* The steps of the service's threads and of the core.
LEMMA ServiceStep ==
  ASSUME IInv, MainStep \/ ServerStep \/ LoopError \/ Shutdown \/ ServeGetClash \/ CoreDies
  PROVE  IInv'
  <1> USE DEF IInv
  <1>1. CASE MainStep
    BY <1>1 DEF MainStep, ReadToken, Bind, ReportRunning, MainStop, Join, Down, StopClash,
                TypeOK, CoreIsOwned, ThreadsOK, TokenOK
  <1>2. CASE LoopEnd \/ LoopError
    <2>1. Lost(pc) \in [Clients -> Places] /\ (Lost(pc)["admin"] = "forget" <=> pc["admin"] = "forget")
      BY LostTyped DEF TypeOK
    <2>2. <<>> \in Seq(Request)
      OBVIOUS
    <2> QED
      BY <1>2, <2>1, <2>2 DEF LoopEnd, LoopError, EndLoop, TypeOK, CoreIsOwned, ThreadsOK, TokenOK
  <1>3. ASSUME ServeUnauthorized \/ ServeStartRejected \/ ServeStart \/ ServeStop \/ ServeStopService
        PROVE  IInv'
    <2>1. /\ server = "recv" /\ queue # <<>>
          /\ UNCHANGED <<scm, marked, token, main, loaded>>
          /\ stop' \in BOOLEAN
          /\ \E ok \in BOOLEAN : Answer(ok)
          /\ \/ UNCHANGED <<core, alive>>
             \/ StopClash
             \/ \E pid \in Pids : core' = pid /\ alive' = (alive \ {core}) \cup {pid}
      BY <1>3 DEF ServeUnauthorized, ServeStartRejected, ServeStart, ServeStop, ServeStopService,
                  Serving, TypeOK
    <2>2. /\ queue' \in Seq(Request) /\ pc' \in [Clients -> Places]
          /\ server' \in {"recv", "ended"}
          /\ pc'["admin"] = "forget" <=> pc["admin"] = "forget"
      BY <2>1, AnswerTyped
    <2> QED
      BY <2>1, <2>2 DEF StopClash, TypeOK, CoreIsOwned, ThreadsOK, TokenOK
  <1>4. CASE Shutdown
    <2>1. stop' \in BOOLEAN
      BY <1>4, StopTyped DEF Shutdown, TypeOK
    <2> QED
      BY <1>4, <2>1 DEF Shutdown, TypeOK, CoreIsOwned, ThreadsOK, TokenOK
  <1>5. CASE ServeGetClash \/ CoreDies
    BY <1>5 DEF ServeGetClash, CoreDies, TypeOK, CoreIsOwned, ThreadsOK, TokenOK
  <1> QED
    BY <1>1, <1>2, <1>3, <1>4, <1>5 DEF ServerStep

\* The steps of the core manager, and of clients that give up.
LEMMA ManagerSteps ==
  ASSUME IInv, ManagerBegin \/ ManagerStep \/ Abandoned \/ IdleLook \/ IdleSettled
  PROVE  IInv'
  <1>1. CASE EnsureReady
    <2>1. \E place \in Places \ {"forget"} : Goto("manager", place)
      BY <1>1 DEF EnsureReady, Places
    <2>2. pc' \in [Clients -> Places] /\ pc'["admin"] = pc["admin"]
      BY <2>1, GotoTyped DEF IInv, TypeOK, Clients
    <2> QED
      BY <1>1, <2>2 DEF EnsureReady, ScStart, IInv, TypeOK, CoreIsOwned, ThreadsOK, TokenOK
  <1>2. CASE Abandoned
    <2>1. PICK c \in Clients :
            /\ Abandon(c)
            /\ Goto(c, CASE pc[c] = "evicting" -> "undo"
                         [] pc[c] = "asking" -> "query"
                         [] OTHER -> "idle")
      BY <1>2 DEF Abandoned
    <2>2. queue' \in Seq(Request)
      BY <2>1, AbandonTyped DEF IInv
    <2>3. \E place \in Places \ {"forget"} : Goto(c, place)
      BY <2>1 DEF Places
    <2>4. pc' \in [Clients -> Places] /\ (pc'["admin"] = "forget" => pc["admin"] = "forget")
      BY <2>3, GotoTyped DEF IInv, TypeOK
    <2> QED
      BY <1>2, <2>2, <2>4, ClientStep DEF Abandoned
  <1>3. ASSUME NEW c \in Clients, NEW op \in {"start", "stop", "stop_service"},
               NEW place \in Places \ {"forget"}, Post(c, op, place), ClientOnly
        PROVE  IInv'
    <2>1. queue' \in Seq(Request) /\ Goto(c, place)
      BY <1>3, PostTyped DEF IInv
    <2>2. pc' \in [Clients -> Places] /\ (pc'["admin"] = "forget" => pc["admin"] = "forget")
      BY <2>1, GotoTyped DEF IInv, TypeOK
    <2> QED
      BY <1>3, <2>1, <2>2, ClientStep
  <1>4. ASSUME NEW c \in Clients, NEW place \in Places \ {"forget"}, Goto(c, place),
               UNCHANGED queue, ClientOnly
        PROVE  IInv'
    <2>1. queue' \in Seq(Request)
      BY <1>4 DEF IInv, TypeOK
    <2>2. pc' \in [Clients -> Places] /\ (pc'["admin"] = "forget" => pc["admin"] = "forget")
      BY <1>4, GotoTyped DEF IInv, TypeOK
    <2> QED
      BY <1>4, <2>1, <2>2, ClientStep
  <1>5. {"idle", "ensure", "poll", "check", "evict", "evicting", "post", "posting", "undo", "undoing",
         "pid", "ready", "settle", "quitting"} \subseteq Places \ {"forget"}
    BY DEF Places, Waiting
  <1>6. "manager" \in Clients /\ "idler" \in Clients
    BY DEF Clients
  <1>7. CASE Evict \/ PostStart \/ StopByService \/ IdleLook
    BY <1>3, <1>4, <1>5, <1>6, <1>7 DEF Evict, PostStart, StopByService, IdleLook, PostFails
  <1>8. CASE ManagerBegin \/ PollReady \/ CheckService \/ AwaitPid \/ AwaitReady \/ IdleSettled
    BY <1>4, <1>5, <1>6, <1>8
       DEF ManagerBegin, PollReady, CheckService, AwaitPid, AwaitReady, IdleSettled
  <1> QED
    BY <1>1, <1>2, <1>7, <1>8 DEF ManagerStep

\* The steps of the installers and of the SCM.
LEMMA AdminSteps ==
  ASSUME IInv, UninstallBegin \/ InstallToken \/ AdminStep \/ ScmRemoves
  PROVE  IInv'
  <1>1. ASSUME NEW place \in Places, Goto("admin", place)
        PROVE  pc' \in [Clients -> Places] /\ pc'["admin"] = place
    BY <1>1, GotoTyped DEF IInv, TypeOK, Clients
  <1>2. {"idle", "asking", "query", "delete", "forget", "gone", "register", "status", "stopped"}
          \subseteq Places
    BY DEF Places, Waiting
  <1>3. CASE UninstallBegin
    <2>1. CASE Post("admin", "stop", "asking")
      <3>1. queue' \in Seq(Request) /\ Goto("admin", "asking")
        BY <2>1, <1>2, PostTyped DEF IInv, Clients
      <3> QED
        BY <1>1, <1>2, <1>3, <3>1, ClientStep DEF UninstallBegin
    <2>2. CASE PostFails("admin", "query")
      <3>1. queue' \in Seq(Request) /\ Goto("admin", "query")
        BY <2>2 DEF PostFails, IInv, TypeOK
      <3> QED
        BY <1>1, <1>2, <1>3, <3>1, ClientStep DEF UninstallBegin
    <2> QED
      BY <1>3, <2>1, <2>2 DEF UninstallBegin
  <1>4. CASE UninstallQuery \/ InstallStatus
    <2>1. stop' \in BOOLEAN
      BY <1>4, StopTyped DEF UninstallQuery, InstallStatus, IInv, TypeOK
    <2>2. \E place \in Places \ {"forget"} : Goto("admin", place)
      BY <1>4, <1>2 DEF UninstallQuery, InstallStatus
    <2>3. pc' \in [Clients -> Places] /\ pc'["admin"] # "forget"
      BY <1>1, <2>2
    <2> QED
      BY <1>4, <2>1, <2>3
         DEF UninstallQuery, InstallStatus, IInv, TypeOK, CoreIsOwned, ThreadsOK, TokenOK
  <1>5. CASE UninstallDelete
    <2>1. UNCHANGED <<scm, token, service, queue>>
      BY <1>5 DEF UninstallDelete
    <2>2. CASE marked' = TRUE /\ Goto("admin", "forget")
      <3>1. pc' \in [Clients -> Places] /\ marked'
        BY <1>1, <1>2, <2>2
      <3> QED
        BY <2>1, <2>2, <3>1 DEF service, IInv, TypeOK, CoreIsOwned, ThreadsOK, TokenOK
    <2>3. CASE UNCHANGED marked /\ Goto("admin", "gone")
      <3>1. pc' \in [Clients -> Places] /\ pc'["admin"] = "gone"
        BY <1>1, <1>2, <2>3
      <3> QED
        BY <2>1, <2>3, <3>1 DEF service, IInv, TypeOK, CoreIsOwned, ThreadsOK, TokenOK
    <2> QED
      BY <1>5, <2>2, <2>3 DEF UninstallDelete
  <1>6. CASE UninstallForget
    <2>1. pc' \in [Clients -> Places] /\ pc'["admin"] = "gone"
      BY <1>1, <1>2, <1>6 DEF UninstallForget
    <2> QED
      BY <1>6, <2>1 DEF UninstallForget, service, IInv, TypeOK, CoreIsOwned, ThreadsOK, TokenOK
  <1>7. CASE InstallToken \/ InstallRegister
    <2>1. \E place \in Places \ {"forget"} : Goto("admin", place)
      BY <1>2, <1>7 DEF InstallToken, InstallRegister
    <2>2. pc' \in [Clients -> Places] /\ pc'["admin"] # "forget"
      BY <1>1, <2>1
    <2>3. CASE InstallToken
      BY <2>2, <2>3 DEF InstallToken, service, IInv, TypeOK, CoreIsOwned, ThreadsOK, TokenOK
    <2>4. CASE InstallRegister
      BY <2>2, <2>4 DEF InstallRegister, service, IInv, TypeOK, CoreIsOwned, ThreadsOK, TokenOK
    <2> QED
      BY <1>7, <2>3, <2>4
  <1>8. CASE UninstallEnd \/ InstallEnd
    <2>1. Goto("admin", "idle") /\ queue' \in Seq(Request) /\ ClientOnly
      BY <1>8 DEF UninstallEnd, InstallEnd, IInv, TypeOK
    <2> QED
      BY <1>1, <1>2, <2>1, ClientStep
  <1>9. CASE ScmRemoves
    BY <1>9 DEF ScmRemoves, service, IInv, TypeOK, CoreIsOwned, ThreadsOK, TokenOK
  <1> QED
    BY <1>3, <1>4, <1>5, <1>6, <1>7, <1>8, <1>9 DEF AdminStep

LEMMA Invariant == Spec => []IInv
  <1>1. ASSUME IInv, UNCHANGED vars PROVE IInv'
    BY <1>1 DEF vars, service, IInv, TypeOK, CoreIsOwned, ThreadsOK, TokenOK
  <1>2. IInv /\ [Next]_vars => IInv'
    BY <1>1, ServiceStep, ManagerSteps, AdminSteps DEF Next
  <1> QED
    BY InitIInv, <1>2, PTL DEF Spec, SafetySpec

-----------------------------------------------------------------------------

(* The variables of the service and of its clients keep their types.       *)
THEOREM TypeCorrect == Spec => []TypeOK
  BY Invariant, PTL DEF IInv

(* The service never has a second core, and none that it has forgotten     *)
(* (start_clash, stop_clash).                                              *)
THEOREM OwnsItsCore == Spec => []CoreIsOwned
  BY Invariant, PTL DEF IInv

(* A service that has reported its end has left no core (run_service).     *)
THEOREM LeavesNoCore == Spec => []StoppedLeavesNoCore
  <1>1. IInv => StoppedLeavesNoCore
    BY DEF IInv, ThreadsOK, StoppedLeavesNoCore
  <1> QED
    BY <1>1, Invariant, PTL

(* A service that serves and stays has the token of the file, whatever     *)
(* installations, removals and failures came before (ensure_api_token).    *)
THEOREM TokensAgree == Spec => []TokenMatches
  <1>1. IInv => TokenMatches
    BY DEF IInv, TypeOK, ThreadsOK, TokenOK, TokenMatches
  <1> QED
    BY <1>1, Invariant, PTL
=============================================================================
