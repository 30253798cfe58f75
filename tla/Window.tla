------------------------------- MODULE Window -------------------------------
(***************************************************************************)
(* The main window: who creates it, shows it, hides it and brings it back  *)
(* (window/create.rs, show.rs, state.rs).                                  *)
(*                                                                         *)
(* Threads that want the window shown (tray, hotkey, the singleton's HTTP  *)
(* server), the setup, the handler of the frontend's "ready" event, the    *)
(* fallback task of a creation and the retry tasks of a show all work on   *)
(* the same atomics without a lock.  Every process is at one place "pc" of *)
(* the functions it runs; "arg" has its arguments.  An id that a thread    *)
(* merges into a show in progress must be picked up when that show ends.   *)
(*                                                                         *)
(* Comparisons with the clock go either way.  One timing assumption is     *)
(* made: a retry, 400 ms after the show, does not fall between two steps   *)
(* of the ready handler in its hiding.                                     *)
(*                                                                         *)
(* Definitions whose names begin with Bug are mistakes the code does not   *)
(* make: each must break the property its comment names.                   *)
(***************************************************************************)
EXTENDS Naturals, FiniteSets

CONSTANTS
    Callers,      \* threads that call show_main_window
    Flows,        \* slots for retry tasks
    MaxRecreateDestroys,
    MaxRequests,  \* bound: show requests
    MaxWindows    \* bound: windows built

ASSUME WindowAssumption ==
    /\ Callers \cap (Flows \cup {"setup", "ready", "fallback"}) = {}
    /\ Flows \cap {"setup", "ready", "fallback"} = {}
    /\ {MaxRequests, MaxWindows, MaxRecreateDestroys} \subseteq Nat \ {0}

Procs == Callers \cup Flows \cup {"setup", "ready", "fallback"}

VARIABLES
    creating, handled, show_when_ready, request_id, showing, pending_id,
    backoff,    \* MAIN_WINDOW_STATE is RECREATE_BACKOFF; its other values are only logged
    destroys,   \* unexpected destructions within a minute
    win,        \* the window, numbered; 0: none
    visible,    \* it is shown and not minimized
    loading,    \* its frontend has not reported yet
    built,      \* windows built
    fallback,   \* the task of a creation that waits: its arguments, or None
    pc, arg,
    wanted      \* history: a show was asked for and nothing has ended the wish

flags == <<creating, handled, show_when_ready, showing, pending_id, backoff>>
page == <<win, visible, loading, built>>
vars == <<flags, request_id, destroys, page, fallback, pc, arg, wanted>>

\* The id of the request a process works for, the window it holds, and the
\* show_when_ready it passes on.
NoArg == [id |-> 0, win |-> 0, show |-> FALSE]

None == [NoArg EXCEPT !.win = MaxWindows + 1]

Places == {"idle", "delayed", "look", "create", "guard", "build", "finish",
           "record", "lock", "show", "schedule", "waiting", "retry", "release", "reload",
           "ready", "silent", "hide", "recheck"}

\* register_frontend_ready_listener has run and the setup creates the window.
Init ==
    /\ creating = FALSE /\ handled = FALSE /\ show_when_ready \in BOOLEAN
    /\ request_id = 0 /\ showing = FALSE /\ pending_id = 0 /\ backoff = FALSE
    /\ destroys = 0
    /\ win = 0 /\ visible = FALSE /\ loading = FALSE /\ built = 0
    /\ fallback = None
    /\ pc = [p \in Procs |-> IF p = "setup" THEN "create" ELSE "idle"]
    /\ arg = [p \in Procs |-> IF p = "setup" THEN [NoArg EXCEPT !.show = show_when_ready]
                              ELSE NoArg]
    /\ wanted = FALSE

At(p, place) == pc[p] = place

Goto(p, place) == pc' = [pc EXCEPT ![p] = place] /\ UNCHANGED arg

Go(p, place, a) == pc' = [pc EXCEPT ![p] = place] /\ arg' = [arg EXCEPT ![p] = a]

Return(p) == Go(p, "idle", NoArg)

-----------------------------------------------------------------------------
(* show_main_window.                                                       *)

\* The threads are interchangeable: the next idle one takes a new request.
Idle(p) == At(p, "idle") /\ p = CHOOSE q \in Callers : At(q, "idle")

\* It is called at once, or by the task that waited for the end of a hide; the
\* tray (as cancels) cancels that task when no hide is in progress.
Request(p, cancels) ==
    /\ Idle(p) \/ (At(p, "delayed") /\ ~cancels)
    /\ request_id < MaxRequests
    /\ request_id' = request_id + 1
    /\ show_when_ready' = TRUE
    /\ pc' = [q \in Procs |-> IF q = p THEN "look"
                              ELSE IF cancels /\ At(q, "delayed") THEN "idle" ELSE pc[q]]
    /\ arg' = [arg EXCEPT ![p] = [NoArg EXCEPT !.id = request_id + 1]]
    /\ wanted' = TRUE
    /\ UNCHANGED <<creating, handled, showing, pending_id, backoff, destroys, page, fallback>>

\* show_main_window_after_hide_transition during a hide: one task waits.
Delay(p) ==
    /\ Idle(p) /\ request_id < MaxRequests
    /\ \A q \in Callers : ~At(q, "delayed")
    /\ Goto(p, "delayed")
    /\ wanted' = TRUE
    /\ UNCHANGED <<flags, request_id, destroys, page, fallback>>

\* Breaks TypeOK: an id is made up.
BugLater(a, b) == a + b

Later(a, b) == IF a > b THEN a ELSE b

Look(p) ==
    /\ At(p, "look")
    /\ \/ win # 0 /\ Go(p, "record", [arg[p] EXCEPT !.win = win]) /\ UNCHANGED pending_id
       \/ win = 0 /\ pending_id' = Later(pending_id, arg[p].id)
          /\ Go(p, "create", [NoArg EXCEPT !.show = TRUE])
    /\ UNCHANGED <<creating, handled, show_when_ready, request_id, showing, backoff, destroys, page,
                   fallback, wanted>>

\* Breaks SilentStaysHidden: a silent window is shown, too.
BugShouldShow(show) == TRUE

\* A window is shown when its creator or a request wants it.
ShouldShow(show) == show \/ request_id > 0

\* main_window_recreate_allowed.  After a destruction it may also be too soon,
\* or the minute with too many of them may not be over.
RecreateAllowed == ~creating /\ ~backoff

RecreateRefused == creating \/ destroys > 0

-----------------------------------------------------------------------------
(* create_window.                                                          *)

\* show_main_window has asked main_window_recreate_allowed just before.
Create(p) ==
    /\ At(p, "create")
    /\ show_when_ready' = (show_when_ready \/ arg[p].show)
    /\ \/ /\ RecreateRefused
          /\ wanted' = (wanted /\ creating) /\ Return(p) /\ UNCHANGED backoff
       \/ /\ RecreateAllowed /\ win = 0
          /\ Goto(p, "guard") /\ UNCHANGED <<backoff, wanted>>
       \/ /\ RecreateAllowed /\ win # 0
          /\ backoff' = FALSE
          /\ IF ShouldShow(arg[p].show)
             THEN Go(p, "record", [arg[p] EXCEPT !.id = request_id, !.win = win])
             ELSE Return(p)
          /\ UNCHANGED wanted
    /\ UNCHANGED <<creating, handled, request_id, showing, pending_id, destroys, page, fallback>>

\* Breaks OneCreator: the flag is stored without being compared.
BugGuard(p) ==
    /\ At(p, "guard")
    /\ creating' = TRUE /\ backoff' = FALSE /\ handled' = FALSE /\ Goto(p, "build")
    /\ UNCHANGED <<show_when_ready, request_id, showing, pending_id, destroys, page, fallback, wanted>>

\* MainWindowCreatingGuard::try_lock.
Guard(p) ==
    /\ At(p, "guard")
    /\ \/ creating /\ Return(p) /\ UNCHANGED <<creating, backoff, handled>>
       \/ ~creating
          /\ creating' = TRUE /\ backoff' = FALSE /\ handled' = FALSE /\ Goto(p, "build")
    /\ UNCHANGED <<show_when_ready, request_id, showing, pending_id, destroys, page, fallback, wanted>>

\* The configured or the fallback build succeeds, unless there is a window; or
\* the data directory is missing, or both builds fail.
Build(p) ==
    /\ At(p, "build")
    /\ \/ /\ win = 0 /\ built < MaxWindows
          /\ win' = built + 1 /\ built' = built + 1 /\ loading' = TRUE
          /\ Goto(p, "finish")
          /\ UNCHANGED <<creating, backoff, visible, wanted>>
       \/ /\ backoff' \in {backoff, FALSE}
          /\ creating' = FALSE /\ Return(p)
          /\ wanted' = FALSE
          /\ UNCHANGED <<win, built, loading, visible>>
    /\ UNCHANGED <<handled, show_when_ready, request_id, showing, pending_id, destroys, fallback>>

\* schedule_create_window_show_fallback, in 1.5 s; then the guard is dropped.
Finish(p) ==
    /\ At(p, "finish")
    /\ backoff' = FALSE
    /\ fallback' = IF ShouldShow(arg[p].show) THEN [NoArg EXCEPT !.id = request_id, !.show = TRUE]
                   ELSE fallback
    /\ creating' = FALSE
    /\ Return(p)
    /\ UNCHANGED <<handled, show_when_ready, request_id, showing, pending_id, destroys, page,
                   wanted>>

\* The task shows the window unless the ready handler has and it is visible.
FallbackFires ==
    /\ fallback # None /\ At("fallback", "idle")
    /\ fallback' = None
    /\ IF /\ ShouldShow(fallback.show) /\ win # 0
          /\ ~handled \/ request_id > fallback.id \/ ~visible
       THEN Go("fallback", "record", [NoArg EXCEPT !.id = request_id, !.win = win])
       ELSE UNCHANGED <<pc, arg>>
    /\ UNCHANGED <<flags, request_id, destroys, page, wanted>>

-----------------------------------------------------------------------------
(* request_show_existing_window and its retries.                           *)

\* record_pending_show_request.
Record(p) ==
    /\ At(p, "record")
    /\ pending_id' = Later(pending_id, arg[p].id)
    /\ Go(p, "lock", [NoArg EXCEPT !.win = arg[p].win])
    /\ UNCHANGED <<creating, handled, show_when_ready, request_id, showing, backoff, destroys, page,
                   fallback, wanted>>

\* MainWindowShowingGuard::try_lock: a request made during a show is merged.
Lock(p) ==
    /\ At(p, "lock")
    /\ showing' = TRUE
    /\ IF showing THEN Return(p) ELSE Goto(p, "show")
    /\ UNCHANGED <<creating, handled, show_when_ready, request_id, pending_id, backoff, destroys, page,
                   fallback, wanted>>

\* It takes the pending id and shows the window it holds.
Show(p) ==
    /\ At(p, "show")
    /\ pending_id' = 0
    /\ visible' = (visible \/ arg[p].win = win)
    /\ Go(p, "schedule", [arg[p] EXCEPT !.id = pending_id])
    /\ UNCHANGED <<creating, handled, show_when_ready, request_id, showing, backoff, destroys, win,
                   loading, built, fallback, wanted>>

\* schedule_windows_show_retries: the task owns the guard.  A task that still
\* waits is replaced and drops its guard, whoever holds the flag now.
Schedule(p) ==
    LET waiting == {f \in Flows : At(f, "waiting")}
        free == {f \in Flows : At(f, "idle")} \cup ({p} \cap Flows)
        task == CHOOSE f \in Flows : f \in IF waiting # {} THEN waiting ELSE free
    IN  /\ At(p, "schedule")
        /\ waiting \cup free # {}
        /\ pc' = [pc EXCEPT ![p] = "idle", ![task] = "waiting"]
        /\ arg' = [arg EXCEPT ![p] = NoArg, ![task] = arg[p]]
        /\ showing' = (showing /\ waiting = {})
        /\ UNCHANGED <<creating, handled, show_when_ready, request_id, pending_id, backoff, destroys,
                       page, fallback, wanted>>

Fires(f) ==
    /\ At(f, "waiting")
    /\ Goto(f, "retry")
    /\ UNCHANGED <<flags, request_id, destroys, page, fallback, wanted>>

\* A retry shows the window again unless a later request came or it is visible,
\* once, or once more 600 ms later.
\* (It does not fall between two steps of the ready handler.)
Retry(f) ==
    /\ At(f, "retry")
    /\ pc["ready"] \notin {"hide", "recheck"}
    /\ IF request_id = arg[f].id /\ arg[f].win = win /\ ~visible
       THEN visible' = TRUE /\ \E place \in {"retry", "release"} : Goto(f, place)
       ELSE Goto(f, "release") /\ UNCHANGED visible
    /\ UNCHANGED <<flags, request_id, destroys, win, loading, built, fallback, wanted>>

\* finish_show_flow drops the guard ...
Release(f) ==
    /\ At(f, "release")
    /\ showing' = FALSE
    /\ Goto(f, "reload")
    /\ UNCHANGED <<creating, handled, show_when_ready, request_id, pending_id, backoff, destroys, page,
                   fallback, wanted>>

\* Breaks ShowIsServed: the merged request is forgotten.
BugReload(f) ==
    /\ At(f, "reload") /\ Return(f)
    /\ UNCHANGED <<flags, request_id, destroys, page, fallback, wanted>>

\* ... and then serves the request that was merged meanwhile.
Reload(f) ==
    /\ At(f, "reload")
    /\ IF pending_id <= arg[f].id THEN Return(f)
       ELSE Go(f, "record", [arg[f] EXCEPT !.id = pending_id])
    /\ UNCHANGED <<flags, request_id, destroys, page, fallback, wanted>>

-----------------------------------------------------------------------------
(* The listener of frontend://ready.                                       *)

ReadyEvent ==
    /\ win # 0 /\ loading /\ At("ready", "idle")
    /\ loading' = FALSE /\ handled' = TRUE
    /\ IF handled THEN UNCHANGED <<pc, arg>> ELSE Goto("ready", "ready")
    /\ UNCHANGED <<creating, show_when_ready, request_id, showing, pending_id, backoff, destroys, win,
                   visible, built, fallback, wanted>>

Ready ==
    /\ At("ready", "ready")
    /\ \/ ShouldShow(show_when_ready) /\ win # 0
          /\ Go("ready", "record", [NoArg EXCEPT !.id = request_id, !.win = win])
       \/ ShouldShow(show_when_ready) /\ win = 0
          /\ Go("ready", "create", [NoArg EXCEPT !.show = TRUE])
       \/ ~ShouldShow(show_when_ready) /\ win # 0
          /\ Go("ready", "silent", [NoArg EXCEPT !.win = win])
       \/ ~ShouldShow(show_when_ready) /\ win = 0 /\ Return("ready")
    /\ UNCHANGED <<flags, request_id, destroys, page, fallback, wanted>>

AfterHide == IF request_id > 0 THEN Go("ready", "record", [arg["ready"] EXCEPT !.id = request_id])
             ELSE Return("ready")

\* A request that comes between the looks is found by the second one.
Silent ==
    /\ \/ /\ At("ready", "silent")
          /\ IF request_id > 0 THEN AfterHide ELSE Goto("ready", "hide")
          /\ UNCHANGED visible
       \/ /\ At("ready", "hide")
          /\ visible' = (visible /\ arg["ready"].win # win)
          /\ Goto("ready", "recheck")
       \/ /\ At("ready", "recheck")
          /\ AfterHide
          /\ UNCHANGED visible
    /\ UNCHANGED <<flags, request_id, destroys, win, loading, built, fallback, wanted>>

-----------------------------------------------------------------------------
(* The user, the system and the destroys.                                     *)

\* Closing and the dashboard hotkey hide it, minimizing leaves it on the task bar.
Close ==
    /\ visible
    /\ visible' = FALSE /\ wanted' = FALSE
    /\ UNCHANGED <<flags, request_id, destroys, win, loading, built, fallback, pc, arg>>

\* The webview dies; on_main_window_destroyed counts it, from one again when a
\* minute is over.
Destroy ==
    /\ win # 0
    /\ win' = 0 /\ visible' = FALSE /\ loading' = FALSE
    /\ destroys' \in {1, destroys + 1}
    /\ backoff' = (destroys' >= MaxRecreateDestroys)
    /\ creating' = FALSE /\ showing' = FALSE /\ pending_id' = 0 /\ handled' = FALSE
    /\ wanted' = FALSE
    /\ UNCHANGED <<show_when_ready, request_id, built, fallback, pc, arg>>

Creates(p) == Create(p) \/ Guard(p) \/ Build(p) \/ Finish(p)

Shows(p) == Record(p) \/ Lock(p) \/ Show(p) \/ Schedule(p)

Retries(f) == Fires(f) \/ Retry(f) \/ Release(f) \/ Reload(f)

Next ==
    \/ \E p \in Callers : (\E cancels \in BOOLEAN : Request(p, cancels)) \/ Delay(p) \/ Look(p)
    \/ \E p \in Procs : Creates(p) \/ Shows(p)
    \/ \E f \in Flows : Retries(f)
    \/ FallbackFires \/ ReadyEvent \/ Ready \/ Silent
    \/ Close \/ Destroy

\* Threads and tasks go on and timers fire; no page has to report, no user has
\* to act.
Fairness ==
    /\ \A p \in Callers : WF_vars(Look(p)) /\ WF_vars(At(p, "delayed") /\ Request(p, FALSE))
    /\ \A p \in Procs : WF_vars(Creates(p)) /\ WF_vars(Shows(p))
    /\ \A f \in Flows : WF_vars(Retries(f))
    /\ WF_vars(FallbackFires) /\ WF_vars(Ready) /\ WF_vars(Silent)

Spec == Init /\ [][Next]_vars /\ Fairness

-----------------------------------------------------------------------------
Args == [id : 0..MaxRequests, win : 0..MaxWindows, show : BOOLEAN]

\* Types; no id is pending that was not given out.
TypeOK ==
    /\ creating \in BOOLEAN /\ handled \in BOOLEAN /\ showing \in BOOLEAN
    /\ show_when_ready \in BOOLEAN /\ backoff \in BOOLEAN /\ wanted \in BOOLEAN
    /\ request_id \in 0..MaxRequests /\ pending_id \in 0..request_id
    /\ destroys \in 0..MaxWindows
    /\ built \in 0..MaxWindows /\ win \in {0, built}
    /\ visible \in BOOLEAN /\ loading \in BOOLEAN /\ (visible \/ loading => win # 0)
    /\ fallback \in Args \cup {None}
    /\ pc \in [Procs -> Places] /\ arg \in [Procs -> Args]

\* A silent start leaves the window hidden until somebody asks for it, whichever
\* of the creation, the fallback task and the ready handler ends last.
SilentStaysHidden == ~show_when_ready /\ request_id = 0 => ~visible

\* As long as no window was destroyed, at most one thread is past the creating
\* guard (the handler of a destruction clears the flag under a creator's feet).
OneCreator ==
    destroys = 0 => Cardinality({p \in Procs : pc[p] \in {"build", "finish"}}) <= 1

\* Whoever asks for the window gets it, unless its creation fails or the user hides
\* it again: no request is lost between the threads that find another one creating
\* or showing the window.  (After a destruction a show of the dead window may take
\* the id of a new request.)
ShowIsServed == wanted ~> (visible \/ ~wanted \/ destroys > 0)
=============================================================================
