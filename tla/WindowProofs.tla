----------------------------- MODULE WindowProofs -----------------------------
(***************************************************************************)
(* Proofs about Window, for any callers, retry slots and bounds.           *)
(***************************************************************************)
EXTENDS Window, FiniteSetTheorems, TLAPS

\* A process that shows, retries or hides holds a window, and works for a
\* request that has been made.
Holding == {"record", "lock", "show", "schedule", "waiting", "retry", "release", "reload",
            "silent", "hide", "recheck"}

ArgsOK ==
    /\ pc \in [Procs -> Places] /\ arg \in [Procs -> Args]
    /\ \A p \in Procs : /\ arg[p].id <= request_id
                        /\ pc[p] \in Holding => arg[p].win # 0

\* Every window destroyed, and the one that lives, was built.
FlagsOK ==
    /\ creating \in BOOLEAN /\ handled \in BOOLEAN /\ showing \in BOOLEAN
    /\ show_when_ready \in BOOLEAN /\ backoff \in BOOLEAN /\ wanted \in BOOLEAN
    /\ request_id \in 0..MaxRequests /\ pending_id \in 0..request_id
    /\ destroys \in Nat /\ built \in 0..MaxWindows /\ win \in {0, built}
    /\ destroys + (IF win = 0 THEN 0 ELSE 1) <= built
    /\ visible \in BOOLEAN /\ loading \in BOOLEAN /\ (visible \/ loading => win # 0)
    /\ fallback \in Args \cup {None}

\* As long as nobody has asked for the window, no process is on its way to show
\* it, and none passes the wish on.
Quiet == ~show_when_ready /\ request_id = 0

Silently == {"idle", "delayed", "create", "guard", "build", "finish",
             "ready", "silent", "hide", "recheck"}

QuietOK ==
    Quiet => /\ ~visible /\ fallback = None
             /\ \A p \in Procs : pc[p] \in Silently /\ ~arg[p].show

\* The creator holds the guard.
Creators == {"build", "finish"}

GuardOK ==
    destroys = 0 => \A p \in Procs : pc[p] \in Creators =>
        /\ creating
        /\ \A q \in Procs : pc[q] \in Creators => q = p

IInv == ArgsOK /\ FlagsOK /\ QuietOK /\ GuardOK

-----------------------------------------------------------------------------
(* Operators.                                                              *)

LEMMA Constants ==
  /\ MaxRequests \in Nat /\ MaxWindows \in Nat
  /\ 0 \in 0..MaxRequests /\ 0 \in 0..MaxWindows
  BY WindowAssumption

\* Arguments that are made from others.
LEMMA WinChanged ==
  ASSUME NEW a \in Args, NEW w \in 0..MaxWindows
  PROVE  /\ [a EXCEPT !.win = w] \in Args
         /\ [a EXCEPT !.win = w].win = w /\ [a EXCEPT !.win = w].id = a.id
         /\ [a EXCEPT !.win = w].show = a.show
  BY DEF Args

LEMMA IdChanged ==
  ASSUME NEW a \in Args, NEW n \in 0..MaxRequests
  PROVE  /\ [a EXCEPT !.id = n] \in Args
         /\ [a EXCEPT !.id = n].id = n /\ [a EXCEPT !.id = n].win = a.win
         /\ [a EXCEPT !.id = n, !.show = TRUE] \in Args
  BY DEF Args

LEMMA ShowChanged ==
  ASSUME NEW a \in Args, NEW show \in BOOLEAN
  PROVE  /\ [a EXCEPT !.show = show] \in Args
         /\ [a EXCEPT !.show = show].show = show /\ [a EXCEPT !.show = show].id = a.id
  BY DEF Args

LEMMA NoArgTyped == NoArg \in Args /\ NoArg.id = 0 /\ NoArg.win = 0 /\ NoArg.show = FALSE
  BY Constants DEF NoArg, Args

\* A process moves on.
LEMMA GoKeeps ==
  ASSUME ArgsOK, UNCHANGED request_id, NEW p \in Procs, NEW place \in Places, NEW a \in Args,
         a.id <= request_id, place \in Holding => a.win # 0, Go(p, place, a)
  PROVE  /\ ArgsOK'
         /\ pc'[p] = place /\ arg'[p] = a
         /\ \A q \in Procs : q # p => pc'[q] = pc[q] /\ arg'[q] = arg[q]
  BY DEF ArgsOK, Go

LEMMA GotoIsGo ==
  ASSUME ArgsOK, NEW p \in Procs, NEW place, Goto(p, place)
  PROVE  Go(p, place, arg[p])
  BY DEF ArgsOK, Goto, Go

LEMMA LaterTyped ==
  ASSUME NEW n \in Nat, NEW a \in 0..n, NEW b \in 0..n
  PROVE  Later(a, b) \in 0..n
  BY DEF Later

\* Nobody takes a wish back.
LEMMA StaysLoud ==
  ASSUME FlagsOK, ArgsOK, QuietOK, ~Quiet, request_id' >= request_id, request_id' \in Nat,
         show_when_ready => show_when_ready'
  PROVE  ~Quiet' /\ QuietOK'
  BY DEF FlagsOK, Quiet, QuietOK

\* A process moves on that does not get to create a window.
LEMMA GuardKeeps ==
  ASSUME GuardOK, destroys' = 0 => destroys = 0 /\ creating' = creating,
         \A q \in Procs : pc'[q] \in Creators => pc[q] \in Creators
  PROVE  GuardOK'
  BY DEF GuardOK

-----------------------------------------------------------------------------
(* The invariant.                                                          *)

LEMMA InitIInv == Init => IInv
  <1> SUFFICES ASSUME Init PROVE IInv
    OBVIOUS
  <1>1. show_when_ready \in BOOLEAN
    BY DEF Init
  <1>2. /\ [NoArg EXCEPT !.show = show_when_ready] \in Args
        /\ [NoArg EXCEPT !.show = show_when_ready].id = 0
        /\ [NoArg EXCEPT !.show = show_when_ready].show = show_when_ready
    BY <1>1, NoArgTyped, ShowChanged
  <1>3. /\ \A p \in Procs : pc[p] \in {"create", "idle"}
        /\ pc \in [Procs -> Places]
    BY DEF Init, Places
  <1>4. /\ arg \in [Procs -> Args]
        /\ \A p \in Procs : arg[p].id = 0 /\ (arg[p].show => show_when_ready)
    <2>1. \A p \in Procs : arg[p] \in {NoArg, [NoArg EXCEPT !.show = show_when_ready]}
      BY DEF Init
    <2>2. \A p \in Procs : arg[p] \in Args /\ arg[p].id = 0 /\ (arg[p].show => show_when_ready)
      BY <1>2, <2>1, NoArgTyped
    <2> QED
      BY <2>2 DEF Init
  <1>5. ArgsOK /\ FlagsOK
    <2>1. ArgsOK
      BY <1>3, <1>4 DEF Init, ArgsOK, Holding
    <2>2. ~visible /\ ~loading /\ fallback \in Args \cup {None}
      BY DEF Init
    <2>3. /\ request_id \in 0..MaxRequests /\ pending_id \in 0..request_id
          /\ destroys \in Nat /\ built \in 0..MaxWindows /\ win \in {0, built}
          /\ destroys + (IF win = 0 THEN 0 ELSE 1) <= built
      BY Constants DEF Init
    <2> QED
      BY <1>1, <2>1, <2>2, <2>3 DEF Init, FlagsOK
  <1>6. QuietOK
    BY <1>3, <1>4 DEF Init, QuietOK, Quiet, Silently
  <1>7. GuardOK
    BY <1>3 DEF GuardOK, Creators
  <1> QED
    BY <1>5, <1>6, <1>7 DEF IInv

\* A step of a process that shows the window or is about to.
LEMMA FlowStep ==
  ASSUME IInv, NEW p \in Procs, pc[p] \notin Silently,
         NEW place \in Places \ Creators, NEW a \in Args, Go(p, place, a),
         a.id <= request_id, place \in Holding => a.win # 0,
         UNCHANGED <<creating, handled, show_when_ready, backoff, request_id, destroys,
                     win, loading, built, fallback, wanted>>,
         pending_id' \in 0..request_id, showing' \in BOOLEAN,
         visible' \in BOOLEAN, visible' => win # 0
  PROVE  IInv'
  <1>1. ArgsOK' /\ pc'[p] = place /\ \A q \in Procs : q # p => pc'[q] = pc[q]
    BY GoKeeps DEF IInv
  <1>2. FlagsOK'
    BY DEF IInv, FlagsOK
  <1>3. QuietOK'
    BY StaysLoud DEF IInv, QuietOK, FlagsOK
  <1>4. GuardOK'
    BY <1>1, GuardKeeps DEF IInv
  <1> QED
    BY <1>1, <1>2, <1>3, <1>4 DEF IInv

\* What a process has at a place of its code.
LEMMA HasArg ==
  ASSUME IInv, NEW p \in Procs
  PROVE  /\ arg[p] \in Args /\ arg[p].id \in 0..request_id /\ arg[p].id \in 0..MaxRequests
         /\ win \in 0..MaxWindows /\ request_id \in 0..MaxRequests /\ pending_id \in 0..request_id
         /\ pending_id \in 0..MaxRequests /\ request_id \in Nat
         /\ pc[p] \in Holding => arg[p].win # 0
  BY Constants DEF IInv, ArgsOK, FlagsOK, Args

LEMMA ProcsOf ==
  Callers \subseteq Procs /\ Flows \subseteq Procs /\ "ready" \in Procs /\ "fallback" \in Procs
  BY DEF Procs

LEMMA LookStep ==
  ASSUME IInv, NEW p \in Callers, Look(p)
  PROVE  IInv'
  <1>0. p \in Procs
    BY ProcsOf
  <1>1. pc[p] \notin Silently
    BY DEF Look, At, Silently
  <1>2. CASE win # 0 /\ Go(p, "record", [arg[p] EXCEPT !.win = win]) /\ UNCHANGED pending_id
    <2>1. /\ [arg[p] EXCEPT !.win = win] \in Args
          /\ [arg[p] EXCEPT !.win = win].id = arg[p].id
          /\ [arg[p] EXCEPT !.win = win].win = win
      BY <1>0, HasArg, WinChanged
    <2>2. "record" \in Places \ Creators
      BY DEF Places, Creators
    <2>3. /\ UNCHANGED <<creating, handled, show_when_ready, backoff, request_id, destroys,
                         win, loading, built, fallback, wanted, showing, visible>>
          /\ visible \in BOOLEAN /\ showing \in BOOLEAN /\ (visible => win # 0)
      BY DEF Look, page, IInv, FlagsOK
    <2>4. pending_id' \in 0..request_id /\ arg[p].id <= request_id
      BY <1>0, <1>2, HasArg
    <2> QED
      BY <1>0, <1>1, <1>2, <2>1, <2>2, <2>3, <2>4, FlowStep
  <1>3. CASE /\ win = 0 /\ pending_id' = Later(pending_id, arg[p].id)
             /\ Go(p, "create", [NoArg EXCEPT !.show = TRUE])
    <2>1. [NoArg EXCEPT !.show = TRUE] \in Args /\ [NoArg EXCEPT !.show = TRUE].id = 0
      BY NoArgTyped, ShowChanged
    <2>2. "create" \in Places \ Creators /\ "create" \notin Holding
      BY DEF Places, Creators, Holding
    <2>3. /\ UNCHANGED <<creating, handled, show_when_ready, backoff, request_id, destroys,
                         win, loading, built, fallback, wanted, showing, visible>>
          /\ visible \in BOOLEAN /\ showing \in BOOLEAN /\ (visible => win # 0)
      BY DEF Look, page, IInv, FlagsOK
    <2>4. pending_id' \in 0..request_id
      BY <1>0, <1>3, HasArg, LaterTyped
    <2>5. 0 <= request_id
      BY <1>0, HasArg
    <2> QED
      BY <1>0, <1>1, <1>3, <2>1, <2>2, <2>3, <2>4, <2>5, FlowStep
  <1> QED
    BY <1>2, <1>3 DEF Look

LEMMA ShowsStep ==
  ASSUME IInv, NEW p \in Procs, Record(p) \/ Lock(p) \/ Show(p)
  PROVE  IInv'
  <1>1. /\ pc[p] \in Holding /\ pc[p] \notin Silently /\ arg[p].win # 0
        /\ UNCHANGED <<creating, handled, show_when_ready, backoff, request_id, destroys,
                       win, loading, built, fallback, wanted>>
    BY HasArg DEF Record, Lock, Show, At, Holding, Silently, page
  <1>2. /\ {"lock", "show", "schedule", "idle"} \subseteq Places \ Creators
        /\ "idle" \notin Holding
    BY DEF Places, Creators, Holding
  <1>3. visible \in BOOLEAN /\ showing \in BOOLEAN /\ (visible => win # 0)
    BY DEF IInv, FlagsOK
  <1>4. arg[p].win \in 0..MaxWindows /\ 0 <= request_id
    BY HasArg DEF Args
  <1>5. CASE Record(p)
    <2>1. /\ [NoArg EXCEPT !.win = arg[p].win] \in Args
          /\ [NoArg EXCEPT !.win = arg[p].win].id = 0
          /\ [NoArg EXCEPT !.win = arg[p].win].win = arg[p].win
      BY <1>4, NoArgTyped, WinChanged
    <2>2. pending_id' \in 0..request_id
      BY <1>5, HasArg, LaterTyped DEF Record
    <2>3. Go(p, "lock", [NoArg EXCEPT !.win = arg[p].win]) /\ UNCHANGED <<showing, visible>>
      BY <1>5 DEF Record, page
    <2> QED
      BY <1>1, <1>2, <1>3, <1>4, <2>1, <2>2, <2>3, FlowStep
  <1>6. CASE Lock(p)
    <2>1. showing' \in BOOLEAN /\ UNCHANGED <<visible, pending_id>>
      BY <1>6 DEF Lock, page
    <2>2. CASE Return(p)
      BY <1>1, <1>2, <1>3, <1>4, <2>1, <2>2, NoArgTyped, HasArg, FlowStep DEF Return
    <2>3. CASE Goto(p, "show")
      <3>1. Go(p, "show", arg[p])
        BY <2>3, GotoIsGo DEF IInv
      <3> QED
        BY <1>1, <1>2, <1>3, <2>1, <3>1, HasArg, FlowStep
    <2> QED
      BY <1>6, <2>2, <2>3 DEF Lock
  <1>7. CASE Show(p)
    <2>1. /\ [arg[p] EXCEPT !.id = pending_id] \in Args
          /\ [arg[p] EXCEPT !.id = pending_id].id = pending_id
          /\ [arg[p] EXCEPT !.id = pending_id].win = arg[p].win
      BY HasArg, IdChanged
    <2>2. visible' \in BOOLEAN /\ (visible' => win # 0)
      BY <1>1, <1>3, <1>7 DEF Show
    <2>3. pending_id' \in 0..request_id /\ UNCHANGED showing
      BY <1>4, <1>7, HasArg DEF Show
    <2>4. Go(p, "schedule", [arg[p] EXCEPT !.id = pending_id])
      BY <1>7 DEF Show
    <2>5. showing' \in BOOLEAN /\ pending_id <= request_id
      BY <1>3, <2>3, HasArg
    <2> QED
      BY <1>1, <1>2, <2>1, <2>2, <2>3, <2>4, <2>5, FlowStep
  <1> QED
    BY <1>5, <1>6, <1>7

LEMMA RetriesStep ==
  ASSUME IInv, NEW f \in Flows, Retries(f)
  PROVE  IInv'
  <1>0. f \in Procs
    BY ProcsOf
  <1>1. /\ pc[f] \in Holding /\ pc[f] \notin Silently /\ arg[f].win # 0
        /\ UNCHANGED <<creating, handled, show_when_ready, backoff, request_id, destroys,
                       win, loading, built, fallback, wanted, pending_id>>
    <2>1. pc[f] \in {"waiting", "retry", "release", "reload"}
      BY DEF Retries, Fires, Retry, Release, Reload, At
    <2>2. UNCHANGED <<creating, handled, show_when_ready, backoff, request_id, destroys,
                      win, loading, built, fallback, wanted, pending_id>>
      BY DEF Retries, Fires, Retry, Release, Reload, page, flags
    <2> QED
      BY <1>0, <2>1, <2>2, HasArg DEF Holding, Silently
  <1>2. /\ {"retry", "release", "reload", "record", "idle"} \subseteq Places \ Creators
        /\ "idle" \notin Holding
    BY DEF Places, Creators, Holding
  <1>3. visible \in BOOLEAN /\ showing \in BOOLEAN /\ (visible => win # 0)
    BY DEF IInv, FlagsOK
  <1>4. /\ showing' \in BOOLEAN /\ visible' \in BOOLEAN
        /\ visible' => win # 0
    <2>1. CASE Fires(f) \/ Reload(f)
      BY <1>3, <2>1 DEF Fires, Reload, page, flags
    <2>2. CASE Release(f)
      BY <1>3, <2>2 DEF Release, page
    <2>3. CASE Retry(f)
      <3>1. showing' = showing
        BY <2>3 DEF Retry, flags
      <3>2. CASE request_id = arg[f].id /\ arg[f].win = win /\ ~visible
        BY <1>1, <1>3, <2>3, <3>1, <3>2 DEF Retry
      <3>3. CASE ~(request_id = arg[f].id /\ arg[f].win = win /\ ~visible)
        BY <1>3, <2>3, <3>1, <3>3 DEF Retry
      <3> QED
        BY <3>2, <3>3
    <2> QED
      BY <2>1, <2>2, <2>3 DEF Retries
  <1>5. CASE \E place \in {"retry", "release", "reload"} : Goto(f, place)
    <2>1. PICK place \in {"retry", "release", "reload"} : Goto(f, place)
      BY <1>5
    <2>2. Go(f, place, arg[f])
      BY <1>0, <2>1, GotoIsGo DEF IInv
    <2> QED
      BY <1>0, <1>1, <1>2, <1>4, <2>2, HasArg, FlowStep
  <1>6. CASE Return(f)
    BY <1>0, <1>1, <1>2, <1>4, <1>6, NoArgTyped, HasArg, FlowStep DEF Return
  <1>7. CASE Go(f, "record", [arg[f] EXCEPT !.id = pending_id])
    <2>1. /\ [arg[f] EXCEPT !.id = pending_id] \in Args
          /\ [arg[f] EXCEPT !.id = pending_id].id = pending_id
          /\ [arg[f] EXCEPT !.id = pending_id].win = arg[f].win
      BY <1>0, HasArg, IdChanged
    <2>2. pending_id' \in 0..request_id /\ pending_id <= request_id
      BY <1>0, <1>1, HasArg
    <2> QED
      BY <1>0, <1>1, <1>2, <1>4, <1>7, <2>1, <2>2, FlowStep
  <1> QED
    BY <1>5, <1>6, <1>7 DEF Retries, Fires, Retry, Release, Reload

\* schedule_windows_show_retries hands the window over to a task.
LEMMA ScheduleStep ==
  ASSUME IInv, NEW p \in Procs, Schedule(p)
  PROVE  IInv'
  <1>1. /\ pc[p] = "schedule"
        /\ UNCHANGED <<creating, handled, show_when_ready, request_id, pending_id, backoff, destroys,
                       win, visible, loading, built, fallback, wanted>>
    BY DEF Schedule, At, page
  <1>2. PICK task \in Flows : /\ pc' = [pc EXCEPT ![p] = "idle", ![task] = "waiting"]
                              /\ arg' = [arg EXCEPT ![p] = NoArg, ![task] = arg[p]]
    BY DEF Schedule
  <1>3. showing' \in BOOLEAN
    BY DEF Schedule, IInv, FlagsOK
  <1>4. task \in Procs /\ arg[p] \in Args /\ arg[p].id <= request_id /\ arg[p].win # 0
    BY <1>1, ProcsOf, HasArg DEF Holding
  <1>5. \A q \in Procs : \/ pc'[q] = pc[q] /\ arg'[q] = arg[q]
                         \/ pc'[q] = "idle" /\ arg'[q] = NoArg
                         \/ pc'[q] = "waiting" /\ arg'[q] = arg[p]
    BY <1>2, <1>4 DEF IInv, ArgsOK
  <1>6. ArgsOK'
    <2>1. pc' \in [Procs -> Places] /\ arg' \in [Procs -> Args]
      BY <1>2, <1>4, NoArgTyped DEF IInv, ArgsOK, Places
    <2>2. 0 <= request_id
      BY HasArg
    <2> QED
      BY <1>1, <1>4, <1>5, <2>1, <2>2, NoArgTyped DEF IInv, ArgsOK, Holding
  <1>7. FlagsOK'
    BY <1>1, <1>3 DEF IInv, FlagsOK
  <1>8. QuietOK'
    BY <1>1, StaysLoud DEF IInv, QuietOK, FlagsOK, Silently
  <1>9. GuardOK'
    BY <1>1, <1>5, GuardKeeps DEF IInv, Creators
  <1> QED
    BY <1>6, <1>7, <1>8, <1>9 DEF IInv

\* A request, and one that waits.
LEMMA RequestStep ==
  ASSUME IInv, NEW p \in Callers, NEW cancels \in BOOLEAN, Request(p, cancels)
  PROVE  IInv'
  <1>1. /\ request_id < MaxRequests /\ request_id' = request_id + 1
        /\ show_when_ready' = TRUE /\ wanted' = TRUE
        /\ UNCHANGED <<creating, handled, showing, pending_id, backoff, destroys, win, visible,
                       loading, built, fallback>>
    BY DEF Request, page
  <1>2. p \in Procs /\ request_id \in Nat /\ request_id + 1 \in 0..MaxRequests
    BY <1>1, ProcsOf, HasArg, Constants
  <1>3. \A q \in Procs : pc'[q] \in {pc[q], "look", "idle"}
    BY DEF Request
  <1>4. /\ arg' = [arg EXCEPT ![p] = [NoArg EXCEPT !.id = request_id + 1]]
        /\ pc' \in [Procs -> Places]
    BY DEF Request, IInv, ArgsOK, Places
  <1>5. [NoArg EXCEPT !.id = request_id + 1] \in Args
        /\ [NoArg EXCEPT !.id = request_id + 1].id = request_id + 1
    BY <1>2, NoArgTyped, IdChanged
  <1>6. pc'[p] = "look"
    BY <1>2 DEF Request
  <1>7. ArgsOK'
    <2>1. arg' \in [Procs -> Args]
      BY <1>4, <1>5 DEF IInv, ArgsOK
    <2>2. \A q \in Procs : arg'[q].id <= request_id'
      <3>1. \A q \in Procs : arg[q].id \in 0..request_id
        BY HasArg
      <3>2. \A q \in Procs : arg'[q].id \in {arg[q].id, request_id + 1}
        BY <1>4, <1>5 DEF IInv, ArgsOK
      <3> QED
        BY <1>1, <1>2, <3>1, <3>2
    <2>3. \A q \in Procs : pc'[q] \in Holding => arg'[q].win # 0
      <3>1. \A q \in Procs : q # p => arg'[q] = arg[q]
        BY <1>4 DEF IInv, ArgsOK
      <3> QED
        BY <1>3, <1>6, <3>1 DEF IInv, ArgsOK, Holding
    <2> QED
      BY <1>4, <2>1, <2>2, <2>3 DEF ArgsOK
  <1>8. FlagsOK'
    <2>1. request_id' \in 0..MaxRequests /\ pending_id' \in 0..request_id'
      BY <1>1, <1>2, HasArg
    <2> QED
      BY <1>1, <2>1 DEF IInv, FlagsOK
  <1>9. QuietOK' /\ GuardOK'
    <2>1. QuietOK'
      BY <1>1 DEF QuietOK, Quiet
    <2>2. GuardOK'
      BY <1>1, <1>3, GuardKeeps DEF IInv, Creators
    <2> QED
      BY <2>1, <2>2
  <1> QED
    BY <1>7, <1>8, <1>9 DEF IInv

\* A step that leaves the flags, but for visible, loading, handled and fallback, to a process
\* that is no creator.
LEMMA QuietStep ==
  ASSUME IInv, NEW p \in Procs, NEW place \in Places \ Creators, NEW a \in Args, Go(p, place, a),
         a.id <= request_id, place \in Holding => a.win # 0,
         UNCHANGED <<creating, show_when_ready, backoff, request_id, destroys, showing,
                     pending_id, win, built>>,
         handled' \in BOOLEAN, loading' \in BOOLEAN, loading' => win # 0, wanted' \in BOOLEAN,
         visible' \in BOOLEAN, visible' => visible,
         fallback' \in {None, fallback},
         Quiet => place \in Silently /\ ~a.show
  PROVE  IInv'
  <1>1. ArgsOK' /\ pc'[p] = place /\ arg'[p] = a
    BY GoKeeps DEF IInv
  <1>2. \A q \in Procs : q # p => pc'[q] = pc[q] /\ arg'[q] = arg[q]
    BY GoKeeps DEF IInv
  <1>3. FlagsOK'
    BY DEF IInv, FlagsOK
  <1>4. QuietOK'
    BY <1>1, <1>2 DEF IInv, QuietOK, Quiet
  <1>5. GuardOK'
    BY <1>1, <1>2, GuardKeeps DEF IInv
  <1> QED
    BY <1>1, <1>3, <1>4, <1>5 DEF IInv

LEMMA DelayStep ==
  ASSUME IInv, NEW p \in Callers, Delay(p)
  PROVE  IInv'
  <1>1. p \in Procs
    BY ProcsOf
  <1>2. Go(p, "delayed", arg[p])
    BY <1>1, GotoIsGo DEF Delay, IInv
  <1>3. "delayed" \in Places \ Creators /\ "delayed" \in Silently /\ "delayed" \notin Holding
    BY DEF Places, Creators, Silently, Holding
  <1>4. /\ UNCHANGED <<creating, show_when_ready, backoff, request_id, destroys, showing,
                       pending_id, win, built, visible, loading, handled, fallback>>
        /\ wanted' \in BOOLEAN
    BY DEF Delay, flags, page
  <1>5. handled \in BOOLEAN /\ loading \in BOOLEAN /\ (loading => win # 0) /\ visible \in BOOLEAN
    BY DEF IInv, FlagsOK
  <1>6. Quiet => ~arg[p].show
    BY <1>1 DEF IInv, QuietOK
  <1>7. arg[p] \in Args /\ arg[p].id <= request_id
    BY <1>1, HasArg
  <1> QED
    BY <1>1, <1>2, <1>3, <1>4, <1>5, <1>6, <1>7, QuietStep

LEMMA SilentStep ==
  ASSUME IInv, Silent
  PROVE  IInv'
  <1> DEFINE p == "ready"
  <1>1. p \in Procs /\ pc[p] \in Holding /\ pc[p] \in {"silent", "hide", "recheck"}
    BY ProcsOf DEF Silent, At, Holding
  <1>2. /\ UNCHANGED <<creating, show_when_ready, backoff, request_id, destroys, showing,
                       pending_id, win, built, loading, handled, fallback, wanted>>
        /\ visible' \in {visible, visible /\ arg[p].win # win}
    BY DEF Silent, flags
  <1>3. /\ handled' \in BOOLEAN /\ loading' \in BOOLEAN /\ (loading' => win # 0)
        /\ wanted' \in BOOLEAN /\ visible \in BOOLEAN /\ fallback' \in {None, fallback}
    BY <1>2 DEF IInv, FlagsOK
  <1>4. visible' \in BOOLEAN /\ (visible' => visible)
    BY <1>2, <1>3
  <1>5. /\ arg[p] \in Args /\ arg[p].win # 0 /\ arg[p].id <= request_id
        /\ request_id \in 0..MaxRequests /\ 0 <= request_id
    BY <1>1, HasArg
  <1>6. Quiet => ~arg[p].show /\ ~(request_id > 0)
    BY <1>1 DEF IInv, QuietOK, Quiet
  <1>7. /\ {"hide", "recheck", "record", "idle"} \subseteq Places \ Creators
        /\ {"hide", "recheck", "idle"} \subseteq Silently /\ "idle" \notin Holding
    BY DEF Places, Creators, Silently, Holding
  <1> HIDE DEF p
  <1>8. CASE \E place \in {"hide", "recheck"} : Goto(p, place)
    <2>1. PICK place \in {"hide", "recheck"} : Goto(p, place)
      BY <1>8
    <2>2. Go(p, place, arg[p])
      BY <1>1, <2>1, GotoIsGo DEF IInv
    <2> QED
      BY <1>1, <1>2, <1>3, <1>4, <1>5, <1>6, <1>7, <2>2, QuietStep
  <1>9. CASE request_id > 0 /\ Go(p, "record", [arg[p] EXCEPT !.id = request_id])
    <2>1. /\ [arg[p] EXCEPT !.id = request_id] \in Args
          /\ [arg[p] EXCEPT !.id = request_id].id = request_id
          /\ [arg[p] EXCEPT !.id = request_id].win = arg[p].win
      BY <1>5, IdChanged
    <2>2. request_id <= request_id /\ ~Quiet
      BY <1>5, <1>6, <1>9
    <2> QED
      BY <1>1, <1>2, <1>3, <1>4, <1>5, <1>7, <1>9, <2>1, <2>2, QuietStep
  <1>10. CASE Return(p)
    BY <1>1, <1>2, <1>3, <1>4, <1>5, <1>7, <1>10, NoArgTyped, QuietStep DEF Return
  <1> QED
    BY <1>8, <1>9, <1>10 DEF p, Silent, AfterHide

\* create_window, up to the guard.
LEMMA CreateStep ==
  ASSUME IInv, NEW p \in Procs, Create(p)
  PROVE  IInv'
  <1>1. /\ pc[p] = "create"
        /\ UNCHANGED <<creating, handled, request_id, showing, pending_id, destroys,
                       win, visible, loading, built, fallback>>
        /\ show_when_ready' = (show_when_ready \/ arg[p].show)
    BY DEF Create, At, page
  <1>2. /\ arg[p] \in Args /\ arg[p].id <= request_id /\ request_id \in 0..MaxRequests
        /\ request_id \in Nat /\ win \in 0..MaxWindows /\ 0 <= request_id
    BY HasArg
  <1>3. show_when_ready' \in BOOLEAN /\ backoff' \in BOOLEAN /\ wanted' \in BOOLEAN
    <2>1. arg[p].show \in BOOLEAN
      BY <1>2 DEF Args
    <2>2. show_when_ready' \in BOOLEAN
      BY <1>1, <2>1 DEF IInv, FlagsOK
    <2>3. backoff' \in {backoff, FALSE} /\ wanted' \in {wanted, wanted /\ creating}
      BY DEF Create
    <2> QED
      BY <2>2, <2>3 DEF IInv, FlagsOK
  <1>4. FlagsOK'
    BY <1>1, <1>3 DEF IInv, FlagsOK
  <1>5. PICK place \in Places, a \in Args :
          /\ Go(p, place, a)
          /\ place \in {"idle", "guard", "record"}
          /\ a.id <= request_id
          /\ place \in Holding => a.win # 0
          /\ Quiet' => place # "record" /\ ~a.show
    <2>1. {"idle", "guard", "record"} \subseteq Places /\ "idle" \notin Holding /\ "guard" \notin Holding
      BY DEF Places, Holding
    <2>2. CASE Return(p)
      BY <1>2, <2>1, <2>2, NoArgTyped DEF Return
    <2>3. CASE Goto(p, "guard")
      <3>1. Go(p, "guard", arg[p])
        BY <2>3, GotoIsGo DEF IInv
      <3>2. Quiet' => ~arg[p].show
        BY <1>1 DEF Quiet
      <3> QED
        BY <1>2, <2>1, <3>1, <3>2
    <2>4. CASE /\ win # 0 /\ ShouldShow(arg[p].show)
               /\ Go(p, "record", [arg[p] EXCEPT !.id = request_id, !.win = win])
      <3>1. /\ [arg[p] EXCEPT !.id = request_id, !.win = win] \in Args
            /\ [arg[p] EXCEPT !.id = request_id, !.win = win].id = request_id
            /\ [arg[p] EXCEPT !.id = request_id, !.win = win].win = win
        BY <1>2 DEF Args
      <3>2. ~Quiet'
        <4>1. CASE arg[p].show
          BY <1>1, <4>1 DEF Quiet
        <4>2. CASE request_id > 0
          BY <1>1, <1>2, <4>2 DEF Quiet
        <4> QED
          BY <2>4, <4>1, <4>2 DEF ShouldShow
      <3>3. request_id <= request_id
        BY <1>2
      <3> QED
        BY <2>1, <2>4, <3>1, <3>2, <3>3
    <2> QED
      BY <2>2, <2>3, <2>4 DEF Create
  <1>6. /\ ArgsOK' /\ pc'[p] = place /\ arg'[p] = a
        /\ \A q \in Procs : q # p => pc'[q] = pc[q] /\ arg'[q] = arg[q]
    BY <1>1, <1>5, GoKeeps DEF IInv
  <1>7. QuietOK'
    <2>1. Quiet' => Quiet
      BY <1>1, <1>2 DEF Quiet
    <2>2. place # "record" => place \in Silently
      BY <1>5 DEF Silently
    <2> QED
      BY <1>1, <1>5, <1>6, <2>1, <2>2 DEF IInv, QuietOK
  <1>8. GuardOK'
    BY <1>1, <1>5, <1>6, GuardKeeps DEF IInv, Creators
  <1> QED
    BY <1>4, <1>6, <1>7, <1>8 DEF IInv

\* MainWindowCreatingGuard, the build and its end.
LEMMA GuardedStep ==
  ASSUME IInv, NEW p \in Procs, Guard(p) \/ Build(p) \/ Finish(p)
  PROVE  IInv'
  <1>1. /\ pc[p] \in {"guard", "build", "finish"}
        /\ UNCHANGED <<show_when_ready, request_id, showing, pending_id, destroys>>
    BY DEF Guard, Build, Finish, At, page
  <1>2. /\ arg[p] \in Args /\ arg[p].id <= request_id /\ request_id \in 0..MaxRequests
        /\ request_id \in Nat /\ 0 <= request_id
    BY HasArg
  <1>3. /\ creating' \in BOOLEAN /\ backoff' \in BOOLEAN /\ handled' \in BOOLEAN /\ wanted' \in BOOLEAN
        /\ visible' = visible
    <2>1. CASE Guard(p)
      BY <2>1 DEF Guard, page, IInv, FlagsOK
    <2>2. CASE Build(p)
      BY <2>2 DEF Build, IInv, FlagsOK
    <2>3. CASE Finish(p)
      BY <2>3 DEF Finish, page, IInv, FlagsOK
    <2> QED
      BY <2>1, <2>2, <2>3
  <1>4. /\ built' \in 0..MaxWindows /\ win' \in {0, built'}
        /\ destroys + (IF win' = 0 THEN 0 ELSE 1) <= built'
        /\ loading' \in BOOLEAN /\ (visible' \/ loading' => win' # 0)
    <2>1. CASE UNCHANGED <<win, built, loading>>
      BY <1>3, <2>1 DEF IInv, FlagsOK
    <2>2. CASE /\ win = 0 /\ built < MaxWindows
               /\ win' = built + 1 /\ built' = built + 1 /\ loading' = TRUE
      <3>1. built \in Nat /\ destroys \in Nat /\ destroys <= built
        BY <2>2, Constants DEF IInv, FlagsOK
      <3> QED
        BY <2>2, <3>1, Constants
    <2> QED
      BY <2>1, <2>2 DEF Guard, Build, Finish, page
  <1>5. fallback' \in Args \cup {None} /\ (Quiet => fallback' = fallback)
    <2>1. CASE fallback' = fallback
      BY <2>1 DEF IInv, FlagsOK
    <2>2. CASE /\ pc[p] = "finish" /\ ShouldShow(arg[p].show)
               /\ fallback' = [NoArg EXCEPT !.id = request_id, !.show = TRUE]
      <3>1. fallback' \in Args
        BY <1>2, <2>2, NoArgTyped, IdChanged
      <3>2. ~Quiet
        BY <1>2, <2>2 DEF IInv, QuietOK, Quiet, ShouldShow
      <3> QED
        BY <3>1, <3>2
    <2> QED
      BY <2>1, <2>2 DEF Guard, Build, Finish, At
  <1>6. FlagsOK'
    BY <1>1, <1>3, <1>4, <1>5 DEF IInv, FlagsOK
  <1>7. PICK place \in Places, a \in Args :
          /\ Go(p, place, a)
          /\ place \in {"idle", "build", "finish"}
          /\ a.id <= request_id /\ (Quiet => ~a.show)
          /\ place = "build" => pc[p] = "guard" /\ ~creating /\ creating'
          /\ place = "finish" => pc[p] = "build" /\ creating' = creating
          /\ place = "idle" => creating' = creating \/ pc[p] \in Creators
    <2>1. {"idle", "build", "finish"} \subseteq Places
      BY DEF Places
    <2>2. Quiet => ~arg[p].show
      BY DEF IInv, QuietOK
    <2>3. CASE Return(p) /\ (creating' = creating \/ pc[p] \in Creators)
      BY <1>2, <2>1, <2>3, NoArgTyped DEF Return
    <2>4. CASE /\ Goto(p, "build") /\ pc[p] = "guard" /\ ~creating /\ creating' = TRUE
      <3>1. Go(p, "build", arg[p])
        BY <2>4, GotoIsGo DEF IInv
      <3> QED
        BY <1>2, <2>1, <2>2, <2>4, <3>1
    <2>5. CASE /\ Goto(p, "finish") /\ pc[p] = "build" /\ UNCHANGED creating
      <3>1. Go(p, "finish", arg[p])
        BY <2>5, GotoIsGo DEF IInv
      <3> QED
        BY <1>2, <2>1, <2>2, <2>5, <3>1
    <2> QED
      BY <2>3, <2>4, <2>5 DEF Guard, Build, Finish, At, Creators
  <1>8. "idle" \notin Holding /\ "build" \notin Holding /\ "finish" \notin Holding
    BY DEF Holding
  <1>9. /\ ArgsOK' /\ pc'[p] = place /\ arg'[p] = a
        /\ \A q \in Procs : q # p => pc'[q] = pc[q] /\ arg'[q] = arg[q]
    BY <1>1, <1>7, <1>8, GoKeeps DEF IInv
  <1>10. QuietOK'
    <2>1. Quiet' => Quiet
      BY <1>1 DEF Quiet
    <2>2. place \in Silently
      BY <1>7 DEF Silently
    <2> QED
      BY <1>3, <1>5, <1>7, <1>9, <2>1, <2>2 DEF IInv, QuietOK
  <1>11. GuardOK'
    <2> SUFFICES ASSUME destroys = 0, NEW q \in Procs, pc'[q] \in Creators
                 PROVE  creating' /\ \A r \in Procs : pc'[r] \in Creators => r = q
      BY <1>1 DEF GuardOK
    <2>1. CASE place = "build"
      BY <1>7, <1>9, <2>1 DEF IInv, GuardOK
    <2>2. CASE place = "finish"
      BY <1>7, <1>9, <2>2 DEF IInv, GuardOK, Creators
    <2>3. CASE place = "idle"
      BY <1>7, <1>9, <2>3 DEF IInv, GuardOK, Creators
    <2> QED
      BY <1>7, <2>1, <2>2, <2>3
  <1> QED
    BY <1>6, <1>9, <1>10, <1>11 DEF IInv

\* The fallback task and the ready handler.
LEMMA FallbackStep ==
  ASSUME IInv, FallbackFires
  PROVE  IInv'
  <1> DEFINE p == "fallback"
  <1>1. p \in Procs /\ fallback # None /\ fallback' = None
    BY ProcsOf DEF FallbackFires
  <1>2. /\ UNCHANGED <<creating, show_when_ready, backoff, request_id, destroys, showing,
                       pending_id, win, built, visible, loading, handled, wanted>>
        /\ handled \in BOOLEAN /\ loading \in BOOLEAN /\ (loading => win # 0)
        /\ visible \in BOOLEAN /\ wanted \in BOOLEAN
    BY DEF FallbackFires, flags, page, IInv, FlagsOK
  <1>3. ~Quiet
    BY <1>1 DEF IInv, QuietOK
  <1>4. /\ arg[p] \in Args /\ arg[p].id <= request_id /\ request_id \in 0..MaxRequests
        /\ win \in 0..MaxWindows /\ request_id <= request_id /\ (pc[p] \in Holding => arg[p].win # 0)
    BY <1>1, HasArg
  <1>5. "record" \in Places \ Creators /\ "idle" \in Places \ Creators
    BY DEF Places, Creators
  <1> HIDE DEF p
  <1>6. CASE win # 0 /\ Go(p, "record", [NoArg EXCEPT !.id = request_id, !.win = win])
    <2>1. /\ [NoArg EXCEPT !.id = request_id, !.win = win] \in Args
          /\ [NoArg EXCEPT !.id = request_id, !.win = win].id = request_id
          /\ [NoArg EXCEPT !.id = request_id, !.win = win].win = win
      BY <1>4, NoArgTyped DEF Args
    <2> QED
      BY <1>1, <1>2, <1>3, <1>4, <1>5, <1>6, <2>1, QuietStep
  <1>7. CASE UNCHANGED <<pc, arg>>
    <2>1. pc[p] = "idle"
      BY DEF FallbackFires, At, p
    <2>2. Go(p, "idle", arg[p])
      BY <1>1, <1>7, <2>1 DEF Go, IInv, ArgsOK
    <2>3. "idle" \notin Holding
      BY DEF Holding
    <2> QED
      BY <1>1, <1>2, <1>3, <1>4, <1>5, <2>2, <2>3, QuietStep
  <1> QED
    BY <1>6, <1>7 DEF FallbackFires, p

LEMMA ReadyStep ==
  ASSUME IInv, Ready \/ ReadyEvent
  PROVE  IInv'
  <1> DEFINE p == "ready"
  <1>1. p \in Procs
    BY ProcsOf
  <1>2. /\ UNCHANGED <<creating, show_when_ready, backoff, request_id, destroys, showing,
                       pending_id, win, built, visible, fallback, wanted>>
        /\ visible \in BOOLEAN /\ wanted \in BOOLEAN
    BY DEF Ready, ReadyEvent, flags, page, IInv, FlagsOK
  <1>3. handled' \in BOOLEAN /\ loading' \in BOOLEAN /\ (loading' => win # 0)
    <2>1. CASE Ready
      BY <2>1 DEF Ready, flags, page, IInv, FlagsOK
    <2>2. CASE ReadyEvent
      BY <2>2 DEF ReadyEvent, flags, IInv, FlagsOK
    <2> QED
      BY <2>1, <2>2
  <1>4. /\ arg[p] \in Args /\ arg[p].id <= request_id /\ request_id \in 0..MaxRequests
        /\ win \in 0..MaxWindows /\ request_id <= request_id /\ 0 <= request_id
        /\ (pc[p] \in Holding => arg[p].win # 0)
    BY <1>1, HasArg
  <1>5. /\ {"idle", "ready", "record", "create", "silent"} \subseteq Places \ Creators
        /\ {"idle", "ready", "create", "silent"} \subseteq Silently
        /\ "idle" \notin Holding /\ "ready" \notin Holding /\ "create" \notin Holding
    BY DEF Places, Creators, Silently, Holding
  <1>6. Quiet => ~arg[p].show
    BY <1>1 DEF IInv, QuietOK
  <1>7. ShouldShow(show_when_ready) => ~Quiet
    BY <1>4 DEF ShouldShow, Quiet
  <1> HIDE DEF p
  <1>8. CASE /\ ShouldShow(show_when_ready) /\ win # 0
             /\ Go(p, "record", [NoArg EXCEPT !.id = request_id, !.win = win])
    <2>1. /\ [NoArg EXCEPT !.id = request_id, !.win = win] \in Args
          /\ [NoArg EXCEPT !.id = request_id, !.win = win].id = request_id
          /\ [NoArg EXCEPT !.id = request_id, !.win = win].win = win
      BY <1>4, NoArgTyped DEF Args
    <2> QED
      BY <1>1, <1>2, <1>3, <1>4, <1>5, <1>7, <1>8, <2>1, QuietStep
  <1>9. CASE ShouldShow(show_when_ready) /\ Go(p, "create", [NoArg EXCEPT !.show = TRUE])
    <2>1. [NoArg EXCEPT !.show = TRUE] \in Args /\ [NoArg EXCEPT !.show = TRUE].id = 0
      BY NoArgTyped, ShowChanged
    <2> QED
      BY <1>1, <1>2, <1>3, <1>4, <1>5, <1>7, <1>9, <2>1, QuietStep
  <1>10. CASE win # 0 /\ Go(p, "silent", [NoArg EXCEPT !.win = win])
    <2>1. /\ [NoArg EXCEPT !.win = win] \in Args /\ [NoArg EXCEPT !.win = win].id = 0
          /\ [NoArg EXCEPT !.win = win].win = win /\ [NoArg EXCEPT !.win = win].show = FALSE
      BY <1>4, NoArgTyped, WinChanged
    <2> QED
      BY <1>1, <1>2, <1>3, <1>4, <1>5, <1>10, <2>1, QuietStep
  <1>11. CASE Return(p)
    BY <1>1, <1>2, <1>3, <1>4, <1>5, <1>11, NoArgTyped, QuietStep DEF Return
  <1>12. CASE Goto(p, "ready")
    <2>1. Go(p, "ready", arg[p])
      BY <1>1, <1>12, GotoIsGo DEF IInv
    <2> QED
      BY <1>1, <1>2, <1>3, <1>4, <1>5, <1>6, <2>1, QuietStep
  <1>13. CASE pc[p] = "idle" /\ UNCHANGED <<pc, arg>>
    <2>1. Go(p, "idle", arg[p])
      BY <1>1, <1>13 DEF Go, IInv, ArgsOK
    <2> QED
      BY <1>1, <1>2, <1>3, <1>4, <1>5, <1>6, <2>1, QuietStep
  <1> QED
    BY <1>8, <1>9, <1>10, <1>11, <1>12, <1>13 DEF Ready, ReadyEvent, At, p

\* The user closes the window, or the system destroys it.
LEMMA UserStep ==
  ASSUME IInv, Close \/ Destroy
  PROVE  IInv'
  <1>1. UNCHANGED <<show_when_ready, request_id, built, fallback, pc, arg>> /\ visible' = FALSE
    BY DEF Close, Destroy, flags
  <1>2. ArgsOK' /\ QuietOK'
    <2>1. ArgsOK'
      BY <1>1 DEF IInv, ArgsOK
    <2>2. QuietOK'
      BY <1>1 DEF IInv, QuietOK, Quiet
    <2> QED
      BY <2>1, <2>2
  <1>3. CASE Close
    <2>1. FlagsOK'
      BY <1>1, <1>3 DEF Close, flags, IInv, FlagsOK
    <2>2. GuardOK'
      BY <1>1, <1>3 DEF Close, flags, IInv, GuardOK
    <2> QED
      BY <1>2, <2>1, <2>2 DEF IInv
  <1>4. CASE Destroy
    <2>1. destroys \in Nat /\ built \in Nat /\ destroys + 1 <= built
      BY <1>4, Constants DEF Destroy, IInv, FlagsOK
    <2>2. /\ destroys' \in Nat /\ destroys' # 0
          /\ destroys' + (IF win' = 0 THEN 0 ELSE 1) <= built
      <3>1. (destroys' = 1 \/ destroys' = destroys + 1) /\ win' = 0
        BY <1>4 DEF Destroy
      <3>2. CASE destroys' = 1
        BY <2>1, <3>1, <3>2
      <3>3. CASE destroys' = destroys + 1
        BY <2>1, <3>1, <3>3
      <3> QED
        BY <3>1, <3>2, <3>3
    <2>3. backoff' \in BOOLEAN
      BY <1>4 DEF Destroy
    <2>4. pending_id' \in 0..request_id
      BY <1>4, HasArg, ProcsOf DEF Destroy
    <2>5. /\ creating' = FALSE /\ handled' = FALSE /\ showing' = FALSE /\ wanted' = FALSE
          /\ win' = 0 /\ loading' = FALSE
      BY <1>4 DEF Destroy
    <2>6. FlagsOK'
      BY <1>1, <2>2, <2>3, <2>4, <2>5 DEF IInv, FlagsOK
    <2>7. GuardOK'
      BY <2>2 DEF GuardOK
    <2> QED
      BY <1>2, <2>6, <2>7 DEF IInv
  <1> QED
    BY <1>3, <1>4

LEMMA Invariant == Spec => []IInv
  <1>1. ASSUME IInv, UNCHANGED vars PROVE IInv'
    BY <1>1 DEF vars, flags, page, IInv, ArgsOK, FlagsOK, QuietOK, Quiet, GuardOK
  <1>2. ASSUME IInv, Next PROVE IInv'
    <2>1. CASE \E p \in Callers : (\E cancels \in BOOLEAN : Request(p, cancels)) \/ Delay(p) \/ Look(p)
      BY <1>2, <2>1, RequestStep, DelayStep, LookStep
    <2>2. CASE \E p \in Procs : Creates(p) \/ Shows(p)
      BY <1>2, <2>2, CreateStep, GuardedStep, ShowsStep, ScheduleStep DEF Creates, Shows
    <2>3. CASE \E f \in Flows : Retries(f)
      BY <1>2, <2>3, RetriesStep
    <2>4. CASE FallbackFires \/ ReadyEvent \/ Ready \/ Silent
      BY <1>2, <2>4, FallbackStep, ReadyStep, SilentStep
    <2>5. CASE Close \/ Destroy
      BY <1>2, <2>5, UserStep
    <2> QED
      BY <1>2, <2>1, <2>2, <2>3, <2>4, <2>5 DEF Next
  <1> QED
    BY InitIInv, <1>1, <1>2, PTL DEF Spec

-----------------------------------------------------------------------------

(* Types; no id is pending that was not given out, and no window is shown  *)
(* or loads that is not there.                                             *)
THEOREM TypeCorrect == Spec => []TypeOK
  <1>1. ASSUME IInv PROVE TypeOK
    <2>1. destroys \in 0..MaxWindows
      <3>1. destroys \in Nat /\ built \in 0..MaxWindows /\ destroys <= built
        BY <1>1 DEF IInv, FlagsOK
      <3> QED
        BY <3>1, Constants
    <2> QED
      BY <1>1, <2>1 DEF IInv, ArgsOK, FlagsOK, TypeOK
  <1> QED
    BY <1>1, Invariant, PTL

(* A silent start stays hidden until somebody asks for the window,         *)
(* whichever of the creation, the fallback task and the ready handler ends *)
(* last (create_window, register_frontend_ready_listener).                 *)
THEOREM SilentStartIsHidden == Spec => []SilentStaysHidden
  <1>1. IInv => SilentStaysHidden
    BY DEF IInv, QuietOK, Quiet, SilentStaysHidden
  <1> QED
    BY <1>1, Invariant, PTL

(* As long as no window was destroyed at most one thread is past the       *)
(* creating guard (MainWindowCreatingGuard).                               *)
THEOREM OneThreadCreates == Spec => []OneCreator
  <1>1. ASSUME IInv PROVE OneCreator
    <2> SUFFICES ASSUME destroys = 0
                 PROVE  Cardinality({p \in Procs : pc[p] \in {"build", "finish"}}) <= 1
      BY DEF OneCreator
    <2>1. CASE \E p \in Procs : pc[p] \in Creators
      <3>1. PICK p \in Procs : pc[p] \in Creators
        BY <2>1
      <3>2. {q \in Procs : pc[q] \in {"build", "finish"}} = {p}
        BY <1>1, <3>1 DEF IInv, GuardOK, Creators
      <3>3. Cardinality({p}) = 1
        BY FS_Singleton
      <3> QED
        BY <3>2, <3>3
    <2>2. CASE ~\E p \in Procs : pc[p] \in Creators
      <3>1. {q \in Procs : pc[q] \in {"build", "finish"}} = {}
        BY <2>2 DEF Creators
      <3> QED
        BY <3>1, FS_EmptySet
    <2> QED
      BY <2>1, <2>2
  <1> QED
    BY <1>1, Invariant, PTL
=============================================================================
