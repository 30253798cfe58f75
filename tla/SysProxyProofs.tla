---------------------------- MODULE SysProxyProofs ----------------------------
(***************************************************************************)
(* Proofs about SysProxy, for any number of failures, changes by others,   *)
(* ends of the process and patches.  What recovery and the ways of giving  *)
(* the proxy up bring back is proved for a port and bypass list that never *)
(* change (FixedTarget): with two of them the promise does not hold.       *)
(***************************************************************************)
EXTENDS SysProxy, TLAPS

OnTarget(values) == values.on /\ values.server \in Targets
Writes == {On(target) : target \in Targets}

\* Places of an update between its look at the values and its return.
Early == {"capture", "prepare"}
Tentative == {"set", "own", "rollback", "rearm"}
Enabling == Early \cup Tentative
Disabling == {"disable", "give_back", "forget"}

InitPlaces == {"boot", "boot_clear", "idle", "recover", "clear", "begin", "ok", "failed", "after",
               "undo", "undone", "done"} \cup Enabling
UpdatePlaces == {"idle", "lock", "relock", "ok", "failed", "after", "undo", "undone"}
                    \cup Enabling \cup Disabling
GuardPlaces == {"idle", "lock", "set", "own", "done"}
ExitPlaces == {"idle", "lock", "reset", "clear", "done"}

\* The places at which a thread has the mutex.
Locked(p) ==
    CASE p = "guard" -> {"set", "own", "done"}
      [] p = "exit"  -> {"reset", "clear"}
      [] OTHER       -> {"recover", "clear", "begin", "ok", "failed"} \cup Enabling \cup Disabling

\* The mutex is held by whoever is at such a place, and until recovery has run
\* at the start nothing else does.
MutexOK ==
    /\ pc["init"] \in InitPlaces
    /\ pc["patch"] \in UpdatePlaces /\ pc["heal"] \in UpdatePlaces
    /\ pc["guard"] \in GuardPlaces /\ pc["exit"] \in ExitPlaces
    /\ \A p \in Processes : pc[p] \in Locked(p) <=> proxy_operation = p
    /\ pc["init"] \in {"boot", "boot_clear"} =>
          /\ proxy_operation = Free
          /\ \A p \in Processes \ {"init"} : pc[p] = "idle"
          /\ ~guard_scheduled
          /\ cur_sysproxy = None /\ old_windows_proxy = None /\ owned_windows_proxy = None

\* What a thread has read is there when it uses it.
LocalsOK ==
    /\ \A p \in Updaters :
          /\ pc[p] \in Enabling => op.target \in Targets
          /\ pc[p] \in Enabling \ {"capture"} => op.snap \in Snapshots
          /\ pc[p] \in Tentative => journal # None
          /\ pc[p] = "forget" => ~taken
    /\ pc["guard"] \in {"lock", "set", "own"} => guard_target \in Targets
    /\ pc["exit"] = "clear" => ~taken
    /\ pc["init"] \in {"boot_clear", "clear"} => journal # None /\ ~taken

\* What the app wrote is remembered.
WrittenOK ==
    /\ written \in Writes \cup {None} /\ op.written \in Writes \cup {None}
    /\ taken => written # None /\ theirs # None
    /\ op.taken => op.written # None /\ op.theirs # None
    /\ ~spoiled => owned_windows_proxy \in Writes \cup {None}

\* Outside of an enable that may be undone, a proxy that is taken has its
\* journal, and from recovery on the copies in memory that fit it.
Settled == \A p \in Updaters : pc[p] \notin {"own", "rollback", "rearm"}

HeldOK ==
    ~spoiled /\ taken /\ Settled =>
        /\ journal # None
        /\ pc["init"] # "boot" =>
              /\ cur_sysproxy \in Targets
              /\ owned_windows_proxy # None
              /\ pc["guard"] # "own" => owned_windows_proxy = written

\* The state an enable would return to, and the one it is in.
UntouchedBy == taken = op.taken /\ written = op.written /\ theirs = op.theirs /\ registry = op.snap
WrittenBy == taken /\ registry = On(op.target) /\ written = On(op.target)

EnableOK ==
    ~spoiled => \A p \in Updaters :
        /\ pc[p] \in {"prepare", "set", "rearm"} => UntouchedBy
        /\ pc[p] = "own" => WrittenBy
        /\ pc[p] = "rollback" => UntouchedBy \/ WrittenBy
        /\ pc[p] \in Enabling \ {"capture"} /\ op.taken =>
              cur_sysproxy \in Targets /\ owned_windows_proxy # None /\ owned_windows_proxy = op.written

\* init_sysproxy enables what recovery has given back.
InitOK ==
    ~spoiled =>
        /\ pc["init"] \in {"begin", "capture", "prepare", "set"} => ~taken
        /\ pc["init"] \in Enabling \ {"capture"} => ~op.taken

GuardOK ==
    ~spoiled /\ pc["guard"] = "own" => registry = On(guard_target) /\ written = On(guard_target)

\* Whoever has a proxy to set up wants it, or a patch that does not waits.
Waiting == pc["patch"] \in {"lock", "relock"}

WishOK ==
    /\ pc["patch"] \in Enabling => latest.enable
    /\ pc["patch"] \in Disabling => ~latest.enable
    /\ \A p \in {"init", "heal"} : pc[p] \in Enabling => latest.enable \/ Waiting
    /\ pc["guard"] \in {"set", "own"} => latest.enable \/ Waiting

\* A proxy that nobody wants any more is about to be given up.
LeftOverOK ==
    ~spoiled /\ Ours /\ ~latest.enable =>
        \/ pc["init"] = "boot" \/ Waiting
        \/ pc["patch"] \in {"disable", "give_back", "undo"}
        \/ pc["patch"] = "failed" /\ ~op.again

\* Only a journal that is owned has the values that the app wrote.
JournalOK == journal # None => (journal.owned = None <=> journal.phase = "prepared")

IInv == TypeOK /\ MutexOK /\ LocalsOK /\ WrittenOK /\ HeldOK /\ EnableOK /\ InitOK /\ GuardOK
            /\ WishOK /\ LeftOverOK /\ JournalOK

-----------------------------------------------------------------------------
(* One port and bypass list.                                               *)

FixedTarget == \A s, t \in Targets : s = t

\* The journal of a proxy that the app has, or may set again, holds the user's
\* values.
Fits ==
    /\ journal # None /\ journal.original = theirs
    /\ journal.phase = "owned" => journal.owned \in Writes

Firm == \A p \in Updaters : pc[p] \notin Tentative

JournalFits ==
    ~spoiled /\ taken =>
        /\ ~OnTarget(theirs)
        /\ Ours => Fits
        /\ Firm /\ pc["init"] # "boot" => Fits /\ old_windows_proxy = theirs

\* A proxy of the app that it does not answer for is nobody's; a journal
\* without a proxy is about to be cleared or replaced.
NoneLeft ==
    ~spoiled /\ ~taken =>
        /\ ~OnTarget(registry)
        /\ journal # None =>
              \/ pc["init"] \in {"boot", "boot_clear", "clear"} \/ pc["exit"] = "clear"
              \/ \E p \in Updaters : pc[p] \in {"set", "rollback", "rearm", "forget"}

\* The original of an enable: what it found, or what the app remembers if it
\* found its own proxy.
Original == IF op.save THEN op.snap ELSE op.theirs

OriginalOK ==
    ~spoiled => \A p \in Updaters : pc[p] \in Enabling \ {"capture"} =>
        /\ op.save <=> ~OnTarget(op.snap)
        /\ OnTarget(op.snap) => op.taken
        /\ op.taken => /\ op.theirs \in Snapshots /\ ~OnTarget(op.theirs)
                       /\ old_windows_proxy = op.theirs
        /\ pc[p] \in Tentative => journal.phase = "prepared" /\ journal.original = Original
        /\ pc[p] = "own" => theirs = Original
        /\ pc[p] = "rollback" => UntouchedBy \/ (WrittenBy /\ theirs = Original)

RInv == JournalFits /\ NoneLeft /\ OriginalOK

-----------------------------------------------------------------------------
(* Operators.                                                              *)

LEMMA Constants ==
  /\ None \notin Targets /\ None # "off" /\ None \notin Snapshots /\ None \notin Phases
  /\ "off" \notin Targets /\ User \notin Targets /\ NoServer \notin Targets
  /\ Free \notin Processes
  BY SysProxyAssumption

LEMMA Threads ==
  /\ "init" \in Updaters /\ "patch" \in Updaters /\ "heal" \in Updaters
  /\ Updaters \subseteq Processes /\ "guard" \in Processes /\ "exit" \in Processes
  /\ \A p \in Processes : p \in Updaters \/ p = "guard" \/ p = "exit"
  /\ "guard" \notin Updaters /\ "exit" \notin Updaters
  /\ \A p \in Updaters : p = "init" \/ p = "patch" \/ p = "heal"
  BY DEF Updaters, Processes

\* A thread moves, the others stay.
LEMMA Moved ==
  ASSUME TypeOK, NEW p \in Processes, NEW place \in Places, Goto(p, place)
  PROVE  /\ pc' \in [Processes -> Places] /\ pc'[p] = place
         /\ \A q \in Processes : q # p => pc'[q] = pc[q]
  BY DEF TypeOK, Goto

LEMMA OnIsSnapshot ==
  ASSUME NEW target \in Targets
  PROVE  /\ On(target) \in Snapshots /\ On(target) \in Writes
         /\ On(target).on /\ On(target).server = target /\ ~On(target).pac
  BY DEF On, Snapshots, Writes

LEMMA SamePac ==
  ASSUME NEW values \in Snapshots, NEW pac, pac = values.pac
  PROVE  [values EXCEPT !.pac = pac] = values
  BY DEF Snapshots

LEMMA WritesAreSnapshots ==
  ASSUME NEW w \in Writes
  PROVE  w \in Snapshots /\ w.on /\ w.server \in Targets /\ ~w.pac
  <1>1. PICK target \in Targets : w = On(target)
    BY DEF Writes
  <1> QED
    BY <1>1, OnIsSnapshot

\* What restore_if_unchanged leaves behind.
LEMMA RestoredValues ==
  ASSUME NEW original \in Snapshots, NEW owned, NEW current \in Snapshots
  PROVE  /\ RestoreIfUnchanged(original, owned, current) \in Snapshots
         /\ \A v \in Values : RestoreIfUnchanged(original, owned, current)[v] =
               IF current[v] = owned[v] THEN original[v] ELSE current[v]
  BY DEF RestoreIfUnchanged, Snapshots, Values

LEMMA OffIsSnapshot ==
  ASSUME NEW values \in Snapshots
  PROVE  Off(values) \in Snapshots /\ ~Off(values).on
  BY DEF Off, Snapshots

LEMMA RecoveredTyped ==
  ASSUME NEW j \in Phases, NEW current \in Snapshots
  PROVE  RecoveredValues(j, current) \in Snapshots
  BY RestoredValues DEF RecoveredValues, Phases

\* What other programs do to the values.
LEMMA OthersValues ==
  ASSUME NEW values \in Snapshots,
         NEW new \in {[on |-> TRUE, server |-> User, pac |-> values.pac],
                      [values EXCEPT !.on = ~@], [values EXCEPT !.pac = ~@]}
  PROVE  /\ new \in Snapshots
         /\ new.server = values.server \/ new.server = User
  <1>1. CASE new = [on |-> TRUE, server |-> User, pac |-> values.pac]
    BY <1>1 DEF Snapshots
  <1>2. CASE new = [values EXCEPT !.on = ~@]
    BY <1>2 DEF Snapshots
  <1>3. CASE new = [values EXCEPT !.pac = ~@]
    BY <1>3 DEF Snapshots
  <1> QED
    BY <1>1, <1>2, <1>3

\* The two records that the steps build.
LEMMA BegunFields ==
  ASSUME NEW again, NEW target
  PROVE  /\ Begun(again, target).again = again /\ Begun(again, target).target = target
         /\ Begun(again, target).snap = None /\ ~Begun(again, target).taken
         /\ Begun(again, target).theirs = None /\ Begun(again, target).written = None
  BY DEF Begun

LEMMA BegunLocals ==
  ASSUME NEW again \in BOOLEAN, NEW target \in Targets \cup {None}
  PROVE  Begun(again, target) \in Locals
  BY DEF Begun, Locals

LEMMA OwnedFields ==
  ASSUME NEW owned, NEW target
  PROVE  /\ RecordOwned(owned, target).phase = "owned"
         /\ RecordOwned(owned, target).owned = owned
         /\ RecordOwned(owned, target).original = journal.original
  BY DEF RecordOwned

LEMMA Recorded ==
  ASSUME TypeOK, journal # None, NEW owned \in Snapshots, NEW target \in Targets
  PROVE  RecordOwned(owned, target) \in Phases
  BY DEF TypeOK, RecordOwned, Phases

-----------------------------------------------------------------------------
(* The invariant.                                                          *)

LEMMA InitIInv == Init => IInv
  <1> SUFFICES ASSUME Init PROVE IInv
    OBVIOUS
  <1>1. TypeOK
    <2>1. op \in Locals
      BY BegunLocals DEF Init, NoOp
    <2>2. registry \in Snapshots
      <3>1. CASE registry = [on |-> TRUE, server |-> User, pac |-> FALSE]
        BY <3>1 DEF Snapshots
      <3>2. CASE registry \in [on : {FALSE}, server : {NoServer}, pac : BOOLEAN]
        BY <3>2 DEF Snapshots
      <3> QED
        BY <3>1, <3>2 DEF Init
    <2>3. pc \in [Processes -> Places]
      BY Threads DEF Init, Places
    <2> QED
      BY <2>1, <2>2, <2>3, Constants DEF Init, TypeOK
  <1>2. MutexOK
    BY Constants, Threads DEF Init, MutexOK, Locked, InitPlaces, UpdatePlaces, GuardPlaces, ExitPlaces, Enabling, Early, Tentative, Disabling
  <1>3. LocalsOK /\ WishOK
    BY Threads DEF Init, LocalsOK, WishOK, Enabling, Early, Tentative, Disabling
  <1>4. WrittenOK /\ HeldOK /\ LeftOverOK /\ JournalOK
    BY DEF Init, WrittenOK, HeldOK, LeftOverOK, JournalOK, Ours, NoOp, Begun
  <1>5. EnableOK /\ InitOK /\ GuardOK
    BY Threads DEF Init, EnableOK, InitOK, GuardOK, Enabling, Early, Tentative
  <1> QED
    BY <1>1, <1>2, <1>3, <1>4, <1>5 DEF IInv

LEMMA InitAcquireKeeps ==
  ASSUME IInv, InitAcquire
  PROVE  IInv'
  <1>1. TypeOK'
    BY Constants, Threads
       DEF InitAcquire, Goto, IInv, TypeOK, LocalsOK, Places, Count, Enabling, Early, Tentative,
         Disabling, memVars, settingVars, taskVars, historyVars
  <1>2. MutexOK'
    BY Constants, Threads
       DEF InitAcquire, Goto, IInv, TypeOK, MutexOK, Locked, InitPlaces, UpdatePlaces, GuardPlaces,
         ExitPlaces, Enabling, Early, Tentative, Disabling, memVars, settingVars, taskVars,
         historyVars
  <1>3. LocalsOK'
    BY Constants, Threads
       DEF InitAcquire, Goto, IInv, TypeOK, MutexOK, LocalsOK, Locked, Enabling, Early, Tentative,
         Disabling, memVars, settingVars, taskVars, historyVars
  <1>4. WrittenOK'
    BY Constants, Threads
       DEF InitAcquire, Goto, IInv, NoOp, TypeOK, LocalsOK, WrittenOK, Enabling, Early, Tentative,
         Disabling, memVars, settingVars, taskVars, historyVars
  <1>5. HeldOK'
    BY Constants, Threads
       DEF InitAcquire, Goto, IInv, TypeOK, MutexOK, LocalsOK, HeldOK, Settled, Locked, Enabling, Early,
         Tentative, Disabling, memVars, settingVars, taskVars, historyVars
  <1>6. EnableOK'
    BY Constants, Threads
       DEF InitAcquire, Goto, IInv, TypeOK, MutexOK, EnableOK, UntouchedBy, WrittenBy, Locked, Enabling,
         Early, Tentative, Disabling, memVars, settingVars, taskVars, historyVars
  <1>7. InitOK'
    BY Constants, Threads
       DEF InitAcquire, Goto, IInv, TypeOK, MutexOK, InitOK, Locked, Enabling, Early, Tentative,
         Disabling, memVars, settingVars, taskVars, historyVars
  <1>8. GuardOK'
    BY Constants, Threads
       DEF InitAcquire, Goto, IInv, TypeOK, MutexOK, GuardOK, Locked, Enabling, Early, Tentative,
         Disabling, memVars, settingVars, taskVars, historyVars
  <1>9. WishOK'
    BY Constants, Threads
       DEF InitAcquire, Goto, IInv, TypeOK, MutexOK, WishOK, Waiting, Locked, Enabling, Early, Tentative,
         Disabling, memVars, settingVars, taskVars, historyVars
  <1>10. LeftOverOK'
    BY Constants, Threads
       DEF InitAcquire, Goto, IInv, TypeOK, MutexOK, WishOK, LeftOverOK, Waiting, Ours, Locked, Enabling,
         Early, Tentative, Disabling, memVars, settingVars, taskVars, historyVars
  <1>11. JournalOK'
    BY Constants, Threads
       DEF InitAcquire, Goto, IInv, TypeOK, LocalsOK, JournalOK, Enabling, Early, Tentative, Disabling,
         memVars, settingVars, taskVars, historyVars
  <1> QED
    BY <1>1, <1>2, <1>3, <1>4, <1>5, <1>6, <1>7, <1>8, <1>9, <1>10, <1>11 DEF IInv

LEMMA PatchBeginKeeps ==
  ASSUME IInv, PatchBegin
  PROVE  IInv'
  <1>1. TypeOK'
    BY Constants, Threads
       DEF PatchBegin, Goto, IInv, TypeOK, LocalsOK, Places, Count, Enabling, Early, Tentative, Disabling,
         memVars, settingVars, taskVars, historyVars
  <1>2. MutexOK'
    BY Constants, Threads
       DEF PatchBegin, Goto, IInv, TypeOK, MutexOK, Locked, InitPlaces, UpdatePlaces, GuardPlaces,
         ExitPlaces, Enabling, Early, Tentative, Disabling, memVars, settingVars, taskVars,
         historyVars
  <1>3. LocalsOK'
    BY Constants, Threads
       DEF PatchBegin, Goto, IInv, TypeOK, MutexOK, LocalsOK, Locked, Enabling, Early, Tentative,
         Disabling, memVars, settingVars, taskVars, historyVars
  <1>4. WrittenOK'
    BY Constants, Threads
       DEF PatchBegin, Goto, IInv, NoOp, TypeOK, LocalsOK, WrittenOK, Enabling, Early, Tentative,
         Disabling, memVars, settingVars, taskVars, historyVars
  <1>5. HeldOK'
    BY Constants, Threads
       DEF PatchBegin, Goto, IInv, TypeOK, MutexOK, LocalsOK, HeldOK, Settled, Locked, Enabling, Early,
         Tentative, Disabling, memVars, settingVars, taskVars, historyVars
  <1>6. EnableOK'
    BY Constants, Threads
       DEF PatchBegin, Goto, IInv, TypeOK, MutexOK, EnableOK, UntouchedBy, WrittenBy, Locked, Enabling,
         Early, Tentative, Disabling, memVars, settingVars, taskVars, historyVars
  <1>7. InitOK'
    BY Constants, Threads
       DEF PatchBegin, Goto, IInv, TypeOK, MutexOK, InitOK, Locked, Enabling, Early, Tentative, Disabling,
         memVars, settingVars, taskVars, historyVars
  <1>8. GuardOK'
    BY Constants, Threads
       DEF PatchBegin, Goto, IInv, TypeOK, MutexOK, GuardOK, Locked, Enabling, Early, Tentative,
         Disabling, memVars, settingVars, taskVars, historyVars
  <1>9. WishOK'
    BY Constants, Threads
       DEF PatchBegin, Goto, IInv, TypeOK, MutexOK, WishOK, Waiting, Locked, Enabling, Early, Tentative,
         Disabling, memVars, settingVars, taskVars, historyVars
  <1>10. LeftOverOK'
    BY Constants, Threads
       DEF PatchBegin, Goto, IInv, TypeOK, MutexOK, WishOK, LeftOverOK, Waiting, Ours, Locked, Enabling,
         Early, Tentative, Disabling, memVars, settingVars, taskVars, historyVars
  <1>11. JournalOK'
    BY Constants, Threads
       DEF PatchBegin, Goto, IInv, TypeOK, LocalsOK, JournalOK, Enabling, Early, Tentative, Disabling,
         memVars, settingVars, taskVars, historyVars
  <1> QED
    BY <1>1, <1>2, <1>3, <1>4, <1>5, <1>6, <1>7, <1>8, <1>9, <1>10, <1>11 DEF IInv

LEMMA HealBeginKeeps ==
  ASSUME IInv, HealBegin
  PROVE  IInv'
  <1>1. TypeOK'
    BY Constants, Threads
       DEF HealBegin, Goto, IInv, TypeOK, LocalsOK, Places, Count, Enabling, Early, Tentative, Disabling,
         memVars, settingVars, taskVars, historyVars
  <1>2. MutexOK'
    BY Constants, Threads
       DEF HealBegin, Goto, IInv, TypeOK, MutexOK, Locked, InitPlaces, UpdatePlaces, GuardPlaces,
         ExitPlaces, Enabling, Early, Tentative, Disabling, memVars, settingVars, taskVars,
         historyVars
  <1>3. LocalsOK'
    BY Constants, Threads
       DEF HealBegin, Goto, IInv, TypeOK, MutexOK, LocalsOK, Locked, Enabling, Early, Tentative,
         Disabling, memVars, settingVars, taskVars, historyVars
  <1>4. WrittenOK'
    BY Constants, Threads
       DEF HealBegin, Goto, IInv, NoOp, TypeOK, LocalsOK, WrittenOK, Enabling, Early, Tentative,
         Disabling, memVars, settingVars, taskVars, historyVars
  <1>5. HeldOK'
    BY Constants, Threads
       DEF HealBegin, Goto, IInv, TypeOK, MutexOK, LocalsOK, HeldOK, Settled, Locked, Enabling, Early,
         Tentative, Disabling, memVars, settingVars, taskVars, historyVars
  <1>6. EnableOK'
    BY Constants, Threads
       DEF HealBegin, Goto, IInv, TypeOK, MutexOK, EnableOK, UntouchedBy, WrittenBy, Locked, Enabling,
         Early, Tentative, Disabling, memVars, settingVars, taskVars, historyVars
  <1>7. InitOK'
    BY Constants, Threads
       DEF HealBegin, Goto, IInv, TypeOK, MutexOK, InitOK, Locked, Enabling, Early, Tentative, Disabling,
         memVars, settingVars, taskVars, historyVars
  <1>8. GuardOK'
    BY Constants, Threads
       DEF HealBegin, Goto, IInv, TypeOK, MutexOK, GuardOK, Locked, Enabling, Early, Tentative, Disabling,
         memVars, settingVars, taskVars, historyVars
  <1>9. WishOK'
    BY Constants, Threads
       DEF HealBegin, Goto, IInv, TypeOK, MutexOK, WishOK, Waiting, Locked, Enabling, Early, Tentative,
         Disabling, memVars, settingVars, taskVars, historyVars
  <1>10. LeftOverOK'
    BY Constants, Threads
       DEF HealBegin, Goto, IInv, TypeOK, MutexOK, WishOK, LeftOverOK, Waiting, Ours, Locked, Enabling,
         Early, Tentative, Disabling, memVars, settingVars, taskVars, historyVars
  <1>11. JournalOK'
    BY Constants, Threads
       DEF HealBegin, Goto, IInv, TypeOK, LocalsOK, JournalOK, Enabling, Early, Tentative, Disabling,
         memVars, settingVars, taskVars, historyVars
  <1> QED
    BY <1>1, <1>2, <1>3, <1>4, <1>5, <1>6, <1>7, <1>8, <1>9, <1>10, <1>11 DEF IInv

LEMMA UpdateAcquireKeeps ==
  ASSUME IInv, NEW p \in {"patch", "heal"}, UpdateAcquire(p)
  PROVE  IInv'
  <1>1. TypeOK'
    <2>1. op' \in Locals
      BY BegunLocals DEF IInv, UpdateAcquire, TypeOK, Settings
    <2> QED
      BY <2>1, Constants, Threads
         DEF UpdateAcquire, Goto, IInv, TypeOK, LocalsOK, Places, Count, Enabling, Early, Tentative,
         Disabling, memVars, settingVars, taskVars, historyVars
  <1>2. MutexOK'
    BY Constants, Threads
       DEF UpdateAcquire, Goto, IInv, TypeOK, MutexOK, Locked, InitPlaces, UpdatePlaces, GuardPlaces,
         ExitPlaces, Enabling, Early, Tentative, Disabling, memVars, settingVars, taskVars,
         historyVars
  <1>3. LocalsOK'
    BY Constants, Threads, BegunFields
       DEF UpdateAcquire, Goto, IInv, TypeOK, MutexOK, LocalsOK, Locked, Enabling, Early, Tentative,
         Disabling, memVars, settingVars, taskVars, historyVars, Settings
  <1>4. WrittenOK'
    BY Constants, Threads, BegunFields
       DEF UpdateAcquire, Goto, IInv, NoOp, TypeOK, LocalsOK, WrittenOK, Enabling, Early, Tentative,
         Disabling, memVars, settingVars, taskVars, historyVars, Settings
  <1>5. HeldOK'
    BY Constants, Threads
       DEF UpdateAcquire, Goto, IInv, TypeOK, MutexOK, LocalsOK, HeldOK, Settled, Locked, Enabling, Early,
         Tentative, Disabling, memVars, settingVars, taskVars, historyVars
  <1>6. EnableOK'
    BY Constants, Threads
       DEF UpdateAcquire, Goto, IInv, TypeOK, MutexOK, EnableOK, UntouchedBy, WrittenBy, Locked, Enabling,
         Early, Tentative, Disabling, memVars, settingVars, taskVars, historyVars
  <1>7. InitOK'
    BY Constants, Threads
       DEF UpdateAcquire, Goto, IInv, TypeOK, MutexOK, InitOK, Locked, Enabling, Early, Tentative,
         Disabling, memVars, settingVars, taskVars, historyVars
  <1>8. GuardOK'
    BY Constants, Threads
       DEF UpdateAcquire, Goto, IInv, TypeOK, MutexOK, GuardOK, Locked, Enabling, Early, Tentative,
         Disabling, memVars, settingVars, taskVars, historyVars
  <1>9. WishOK'
    BY Constants, Threads
       DEF UpdateAcquire, Goto, IInv, TypeOK, MutexOK, WishOK, Waiting, Locked, Enabling, Early,
         Tentative, Disabling, memVars, settingVars, taskVars, historyVars
  <1>10. LeftOverOK'
    BY Constants, Threads
       DEF UpdateAcquire, Goto, IInv, TypeOK, MutexOK, WishOK, LeftOverOK, Waiting, Ours, Locked,
         Enabling, Early, Tentative, Disabling, memVars, settingVars, taskVars, historyVars
  <1>11. JournalOK'
    BY Constants, Threads
       DEF UpdateAcquire, Goto, IInv, TypeOK, LocalsOK, JournalOK, Enabling, Early, Tentative, Disabling,
         memVars, settingVars, taskVars, historyVars
  <1> QED
    BY <1>1, <1>2, <1>3, <1>4, <1>5, <1>6, <1>7, <1>8, <1>9, <1>10, <1>11 DEF IInv

LEMMA ReleaseKeeps ==
  ASSUME IInv, NEW p \in Updaters, Release(p)
  PROVE  IInv'
  <1>1. TypeOK'
    <2>1. op' \in Locals
      BY BegunLocals DEF Release, NoOp
    <2> QED
      BY <2>1, Constants, Threads
         DEF Release, Goto, IInv, TypeOK, LocalsOK, Places, Count, Enabling, Early, Tentative, Disabling,
         memVars, settingVars, taskVars, historyVars
  <1>2. MutexOK'
    BY Constants, Threads
       DEF Release, Goto, IInv, TypeOK, MutexOK, Locked, InitPlaces, UpdatePlaces, GuardPlaces,
         ExitPlaces, Enabling, Early, Tentative, Disabling, memVars, settingVars, taskVars,
         historyVars
  <1>3. LocalsOK'
    BY Constants, Threads
       DEF Release, Goto, IInv, TypeOK, MutexOK, LocalsOK, Locked, Enabling, Early, Tentative, Disabling,
         memVars, settingVars, taskVars, historyVars
  <1>4. WrittenOK'
    BY Constants, Threads
       DEF Release, Goto, IInv, NoOp, TypeOK, LocalsOK, WrittenOK, Enabling, Early, Tentative, Disabling,
         memVars, settingVars, taskVars, historyVars, Begun
  <1>5. HeldOK'
    BY Constants, Threads
       DEF Release, Goto, IInv, TypeOK, MutexOK, LocalsOK, HeldOK, Settled, Locked, Enabling, Early,
         Tentative, Disabling, memVars, settingVars, taskVars, historyVars
  <1>6. EnableOK'
    BY Constants, Threads
       DEF Release, Goto, IInv, TypeOK, MutexOK, EnableOK, UntouchedBy, WrittenBy, Locked, Enabling,
         Early, Tentative, Disabling, memVars, settingVars, taskVars, historyVars
  <1>7. InitOK'
    BY Constants, Threads
       DEF Release, Goto, IInv, TypeOK, MutexOK, InitOK, Locked, Enabling, Early, Tentative, Disabling,
         memVars, settingVars, taskVars, historyVars
  <1>8. GuardOK'
    BY Constants, Threads
       DEF Release, Goto, IInv, TypeOK, MutexOK, GuardOK, Locked, Enabling, Early, Tentative, Disabling,
         memVars, settingVars, taskVars, historyVars
  <1>9. WishOK'
    BY Constants, Threads
       DEF Release, Goto, IInv, TypeOK, MutexOK, WishOK, Waiting, Locked, Enabling, Early, Tentative,
         Disabling, memVars, settingVars, taskVars, historyVars
  <1>10. LeftOverOK'
    BY Constants, Threads
       DEF Release, Goto, IInv, TypeOK, MutexOK, WishOK, LeftOverOK, Waiting, Ours, Locked, Enabling,
         Early, Tentative, Disabling, memVars, settingVars, taskVars, historyVars
  <1>11. JournalOK'
    BY Constants, Threads
       DEF Release, Goto, IInv, TypeOK, LocalsOK, JournalOK, Enabling, Early, Tentative, Disabling,
         memVars, settingVars, taskVars, historyVars
  <1> QED
    BY <1>1, <1>2, <1>3, <1>4, <1>5, <1>6, <1>7, <1>8, <1>9, <1>10, <1>11 DEF IInv

LEMMA AfterKeeps ==
  ASSUME IInv, NEW p \in Updaters, After(p)
  PROVE  IInv'
  <1>1. TypeOK'
    BY Constants, Threads
       DEF After, Goto, GuardProxy, IInv, TypeOK, LocalsOK, Places, Count, Enabling, Early, Tentative,
         Disabling, memVars, settingVars, taskVars, historyVars, Settings
  <1>2. MutexOK'
    BY Constants, Threads
       DEF After, Goto, GuardProxy, IInv, TypeOK, MutexOK, Locked, InitPlaces, UpdatePlaces, GuardPlaces,
         ExitPlaces, Enabling, Early, Tentative, Disabling, memVars, settingVars, taskVars,
         historyVars
  <1>3. LocalsOK'
    BY Constants, Threads
       DEF After, Goto, GuardProxy, IInv, TypeOK, MutexOK, LocalsOK, Locked, Enabling, Early, Tentative,
         Disabling, memVars, settingVars, taskVars, historyVars
  <1>4. WrittenOK'
    BY Constants, Threads
       DEF After, Goto, GuardProxy, IInv, NoOp, TypeOK, LocalsOK, WrittenOK, Enabling, Early, Tentative,
         Disabling, memVars, settingVars, taskVars, historyVars
  <1>5. HeldOK'
    BY Constants, Threads
       DEF After, Goto, GuardProxy, IInv, TypeOK, MutexOK, LocalsOK, HeldOK, Settled, Locked, Enabling,
         Early, Tentative, Disabling, memVars, settingVars, taskVars, historyVars
  <1>6. EnableOK'
    BY Constants, Threads
       DEF After, Goto, GuardProxy, IInv, TypeOK, MutexOK, EnableOK, UntouchedBy, WrittenBy, Locked,
         Enabling, Early, Tentative, Disabling, memVars, settingVars, taskVars, historyVars
  <1>7. InitOK'
    BY Constants, Threads
       DEF After, Goto, GuardProxy, IInv, TypeOK, MutexOK, InitOK, Locked, Enabling, Early, Tentative,
         Disabling, memVars, settingVars, taskVars, historyVars
  <1>8. GuardOK'
    BY Constants, Threads
       DEF After, Goto, GuardProxy, IInv, TypeOK, MutexOK, GuardOK, Locked, Enabling, Early, Tentative,
         Disabling, memVars, settingVars, taskVars, historyVars
  <1>9. WishOK'
    BY Constants, Threads
       DEF After, Goto, GuardProxy, IInv, TypeOK, MutexOK, WishOK, Waiting, Locked, Enabling, Early,
         Tentative, Disabling, memVars, settingVars, taskVars, historyVars
  <1>10. LeftOverOK'
    BY Constants, Threads
       DEF After, Goto, GuardProxy, IInv, TypeOK, MutexOK, WishOK, LeftOverOK, Waiting, Ours, Locked,
         Enabling, Early, Tentative, Disabling, memVars, settingVars, taskVars, historyVars
  <1>11. JournalOK'
    BY Constants, Threads
       DEF After, Goto, GuardProxy, IInv, TypeOK, LocalsOK, JournalOK, Enabling, Early, Tentative,
         Disabling, memVars, settingVars, taskVars, historyVars
  <1> QED
    BY <1>1, <1>2, <1>3, <1>4, <1>5, <1>6, <1>7, <1>8, <1>9, <1>10, <1>11 DEF IInv

LEMMA PatchErrKeeps ==
  ASSUME IInv, PatchErr
  PROVE  IInv'
  <1>1. TypeOK'
    BY Constants, Threads
       DEF PatchErr, Goto, GuardProxy, Fault, Event, IInv, TypeOK, LocalsOK, Places, Count, Enabling,
         Early, Tentative, Disabling, memVars, settingVars, taskVars, historyVars, Settings
  <1>2. MutexOK'
    BY Constants, Threads
       DEF PatchErr, Goto, GuardProxy, Fault, Event, IInv, TypeOK, MutexOK, Locked, InitPlaces,
         UpdatePlaces, GuardPlaces, ExitPlaces, Enabling, Early, Tentative, Disabling, memVars,
         settingVars, taskVars, historyVars
  <1>3. LocalsOK'
    BY Constants, Threads
       DEF PatchErr, Goto, GuardProxy, Fault, Event, IInv, TypeOK, MutexOK, LocalsOK, Locked, Enabling,
         Early, Tentative, Disabling, memVars, settingVars, taskVars, historyVars
  <1>4. WrittenOK'
    BY Constants, Threads
       DEF PatchErr, Goto, GuardProxy, Fault, Event, IInv, NoOp, TypeOK, LocalsOK, WrittenOK, Enabling,
         Early, Tentative, Disabling, memVars, settingVars, taskVars, historyVars
  <1>5. HeldOK'
    BY Constants, Threads
       DEF PatchErr, Goto, GuardProxy, Fault, Event, IInv, TypeOK, MutexOK, LocalsOK, HeldOK, Settled,
         Locked, Enabling, Early, Tentative, Disabling, memVars, settingVars, taskVars,
         historyVars
  <1>6. EnableOK'
    BY Constants, Threads
       DEF PatchErr, Goto, GuardProxy, Fault, Event, IInv, TypeOK, MutexOK, EnableOK, UntouchedBy,
         WrittenBy, Locked, Enabling, Early, Tentative, Disabling, memVars, settingVars,
         taskVars, historyVars
  <1>7. InitOK'
    BY Constants, Threads
       DEF PatchErr, Goto, GuardProxy, Fault, Event, IInv, TypeOK, MutexOK, InitOK, Locked, Enabling,
         Early, Tentative, Disabling, memVars, settingVars, taskVars, historyVars
  <1>8. GuardOK'
    BY Constants, Threads
       DEF PatchErr, Goto, GuardProxy, Fault, Event, IInv, TypeOK, MutexOK, GuardOK, Locked, Enabling,
         Early, Tentative, Disabling, memVars, settingVars, taskVars, historyVars
  <1>9. WishOK'
    BY Constants, Threads
       DEF PatchErr, Goto, GuardProxy, Fault, Event, IInv, TypeOK, MutexOK, WishOK, Waiting, Locked,
         Enabling, Early, Tentative, Disabling, memVars, settingVars, taskVars, historyVars
  <1>10. LeftOverOK'
    BY Constants, Threads
       DEF PatchErr, Goto, GuardProxy, Fault, Event, IInv, TypeOK, MutexOK, WishOK, LeftOverOK, Waiting,
         Ours, Locked, Enabling, Early, Tentative, Disabling, memVars, settingVars, taskVars,
         historyVars
  <1>11. JournalOK'
    BY Constants, Threads
       DEF PatchErr, Goto, GuardProxy, Fault, Event, IInv, TypeOK, LocalsOK, JournalOK, Enabling, Early,
         Tentative, Disabling, memVars, settingVars, taskVars, historyVars
  <1> QED
    BY <1>1, <1>2, <1>3, <1>4, <1>5, <1>6, <1>7, <1>8, <1>9, <1>10, <1>11 DEF IInv

LEMMA UndoKeeps ==
  ASSUME IInv, NEW p \in Updaters, Undo(p)
  PROVE  IInv'
  <1>1. TypeOK'
    BY Constants, Threads
       DEF Undo, Goto, IInv, TypeOK, LocalsOK, Places, Count, Enabling, Early, Tentative, Disabling,
         memVars, settingVars, taskVars, historyVars, Settings
  <1>2. MutexOK'
    BY Constants, Threads
       DEF Undo, Goto, IInv, TypeOK, MutexOK, Locked, InitPlaces, UpdatePlaces, GuardPlaces, ExitPlaces,
         Enabling, Early, Tentative, Disabling, memVars, settingVars, taskVars, historyVars
  <1>3. LocalsOK'
    BY Constants, Threads
       DEF Undo, Goto, IInv, TypeOK, MutexOK, LocalsOK, Locked, Enabling, Early, Tentative, Disabling,
         memVars, settingVars, taskVars, historyVars
  <1>4. WrittenOK'
    BY Constants, Threads
       DEF Undo, Goto, IInv, NoOp, TypeOK, LocalsOK, WrittenOK, Enabling, Early, Tentative, Disabling,
         memVars, settingVars, taskVars, historyVars
  <1>5. HeldOK'
    BY Constants, Threads
       DEF Undo, Goto, IInv, TypeOK, MutexOK, LocalsOK, HeldOK, Settled, Locked, Enabling, Early,
         Tentative, Disabling, memVars, settingVars, taskVars, historyVars
  <1>6. EnableOK'
    BY Constants, Threads
       DEF Undo, Goto, IInv, TypeOK, MutexOK, EnableOK, UntouchedBy, WrittenBy, Locked, Enabling, Early,
         Tentative, Disabling, memVars, settingVars, taskVars, historyVars
  <1>7. InitOK'
    BY Constants, Threads
       DEF Undo, Goto, IInv, TypeOK, MutexOK, InitOK, Locked, Enabling, Early, Tentative, Disabling,
         memVars, settingVars, taskVars, historyVars
  <1>8. GuardOK'
    BY Constants, Threads
       DEF Undo, Goto, IInv, TypeOK, MutexOK, GuardOK, Locked, Enabling, Early, Tentative, Disabling,
         memVars, settingVars, taskVars, historyVars
  <1>9. WishOK'
    BY Constants, Threads
       DEF Undo, Goto, IInv, TypeOK, MutexOK, WishOK, Waiting, Locked, Enabling, Early, Tentative,
         Disabling, memVars, settingVars, taskVars, historyVars
  <1>10. LeftOverOK'
    BY Constants, Threads
       DEF Undo, Goto, IInv, TypeOK, MutexOK, WishOK, LeftOverOK, Waiting, Ours, Locked, Enabling, Early,
         Tentative, Disabling, memVars, settingVars, taskVars, historyVars
  <1>11. JournalOK'
    BY Constants, Threads
       DEF Undo, Goto, IInv, TypeOK, LocalsOK, JournalOK, Enabling, Early, Tentative, Disabling, memVars,
         settingVars, taskVars, historyVars
  <1> QED
    BY <1>1, <1>2, <1>3, <1>4, <1>5, <1>6, <1>7, <1>8, <1>9, <1>10, <1>11 DEF IInv

LEMMA RecoverNothingKeeps ==
  ASSUME IInv, RecoverNothing
  PROVE  IInv'
  <1>1. TypeOK'
    BY Constants, Threads
       DEF RecoverNothing, Goto, Recovering, AfterRecovery, IInv, TypeOK, LocalsOK, Places, Count,
         Enabling, Early, Tentative, Disabling, memVars, settingVars, taskVars, historyVars
  <1>2. MutexOK'
    BY Constants, Threads
       DEF RecoverNothing, Goto, Recovering, AfterRecovery, IInv, TypeOK, MutexOK, Locked, InitPlaces,
         UpdatePlaces, GuardPlaces, ExitPlaces, Enabling, Early, Tentative, Disabling, memVars,
         settingVars, taskVars, historyVars
  <1>3. LocalsOK'
    BY Constants, Threads
       DEF RecoverNothing, Goto, Recovering, AfterRecovery, IInv, TypeOK, MutexOK, LocalsOK, Locked,
         Enabling, Early, Tentative, Disabling, memVars, settingVars, taskVars, historyVars
  <1>4. WrittenOK'
    BY Constants, Threads
       DEF RecoverNothing, Goto, Recovering, AfterRecovery, IInv, NoOp, TypeOK, LocalsOK, WrittenOK,
         Enabling, Early, Tentative, Disabling, memVars, settingVars, taskVars, historyVars
  <1>5. HeldOK'
    BY Constants, Threads
       DEF RecoverNothing, Goto, Recovering, AfterRecovery, IInv, TypeOK, MutexOK, LocalsOK, HeldOK,
         Settled, Locked, Enabling, Early, Tentative, Disabling, memVars, settingVars, taskVars,
         historyVars
  <1>6. EnableOK'
    BY Constants, Threads
       DEF RecoverNothing, Goto, Recovering, AfterRecovery, IInv, TypeOK, MutexOK, EnableOK, UntouchedBy,
         WrittenBy, Locked, Enabling, Early, Tentative, Disabling, memVars, settingVars,
         taskVars, historyVars
  <1>7. InitOK'
    BY Constants, Threads
       DEF RecoverNothing, Goto, Recovering, AfterRecovery, IInv, TypeOK, MutexOK, InitOK, Locked,
         Enabling, Early, Tentative, Disabling, memVars, settingVars, taskVars, historyVars,
         HeldOK, Settled
  <1>8. GuardOK'
    BY Constants, Threads
       DEF RecoverNothing, Goto, Recovering, AfterRecovery, IInv, TypeOK, MutexOK, GuardOK, Locked,
         Enabling, Early, Tentative, Disabling, memVars, settingVars, taskVars, historyVars
  <1>9. WishOK'
    BY Constants, Threads
       DEF RecoverNothing, Goto, Recovering, AfterRecovery, IInv, TypeOK, MutexOK, WishOK, Waiting,
         Locked, Enabling, Early, Tentative, Disabling, memVars, settingVars, taskVars,
         historyVars
  <1>10. LeftOverOK'
    BY Constants, Threads
       DEF RecoverNothing, Goto, Recovering, AfterRecovery, IInv, TypeOK, MutexOK, WishOK, LeftOverOK,
         Waiting, Ours, Locked, Enabling, Early, Tentative, Disabling, memVars, settingVars,
         taskVars, historyVars, HeldOK, Settled
  <1>11. JournalOK'
    BY Constants, Threads
       DEF RecoverNothing, Goto, Recovering, AfterRecovery, IInv, TypeOK, LocalsOK, JournalOK, Enabling,
         Early, Tentative, Disabling, memVars, settingVars, taskVars, historyVars
  <1> QED
    BY <1>1, <1>2, <1>3, <1>4, <1>5, <1>6, <1>7, <1>8, <1>9, <1>10, <1>11 DEF IInv

LEMMA RecoverRestoreKeeps ==
  ASSUME IInv, RecoverRestore
  PROVE  IInv'
  <1>1. TypeOK'
    BY Constants, Threads, RecoveredTyped
       DEF RecoverRestore, Goto, Recovering, IInv, TypeOK, LocalsOK, Places, Count, Enabling, Early,
         Tentative, Disabling, memVars, settingVars, taskVars, historyVars
  <1>2. MutexOK'
    BY Constants, Threads, RecoveredTyped
       DEF RecoverRestore, Goto, Recovering, IInv, TypeOK, MutexOK, Locked, InitPlaces, UpdatePlaces,
         GuardPlaces, ExitPlaces, Enabling, Early, Tentative, Disabling, memVars, settingVars,
         taskVars, historyVars
  <1>3. LocalsOK'
    BY Constants, Threads, RecoveredTyped
       DEF RecoverRestore, Goto, Recovering, IInv, TypeOK, MutexOK, LocalsOK, Locked, Enabling, Early,
         Tentative, Disabling, memVars, settingVars, taskVars, historyVars
  <1>4. WrittenOK'
    BY Constants, Threads, RecoveredTyped
       DEF RecoverRestore, Goto, Recovering, IInv, NoOp, TypeOK, LocalsOK, WrittenOK, Enabling, Early,
         Tentative, Disabling, memVars, settingVars, taskVars, historyVars
  <1>5. HeldOK'
    BY Constants, Threads, RecoveredTyped
       DEF RecoverRestore, Goto, Recovering, IInv, TypeOK, MutexOK, LocalsOK, HeldOK, Settled, Locked,
         Enabling, Early, Tentative, Disabling, memVars, settingVars, taskVars, historyVars
  <1>6. EnableOK'
    BY Constants, Threads, RecoveredTyped
       DEF RecoverRestore, Goto, Recovering, IInv, TypeOK, MutexOK, EnableOK, UntouchedBy, WrittenBy,
         Locked, Enabling, Early, Tentative, Disabling, memVars, settingVars, taskVars,
         historyVars
  <1>7. InitOK'
    BY Constants, Threads, RecoveredTyped
       DEF RecoverRestore, Goto, Recovering, IInv, TypeOK, MutexOK, InitOK, Locked, Enabling, Early,
         Tentative, Disabling, memVars, settingVars, taskVars, historyVars
  <1>8. GuardOK'
    BY Constants, Threads, RecoveredTyped
       DEF RecoverRestore, Goto, Recovering, IInv, TypeOK, MutexOK, GuardOK, Locked, Enabling, Early,
         Tentative, Disabling, memVars, settingVars, taskVars, historyVars
  <1>9. WishOK'
    BY Constants, Threads, RecoveredTyped
       DEF RecoverRestore, Goto, Recovering, IInv, TypeOK, MutexOK, WishOK, Waiting, Locked, Enabling,
         Early, Tentative, Disabling, memVars, settingVars, taskVars, historyVars
  <1>10. LeftOverOK'
    BY Constants, Threads, RecoveredTyped
       DEF RecoverRestore, Goto, Recovering, IInv, TypeOK, MutexOK, WishOK, LeftOverOK, Waiting, Ours,
         Locked, Enabling, Early, Tentative, Disabling, memVars, settingVars, taskVars,
         historyVars
  <1>11. JournalOK'
    BY Constants, Threads, RecoveredTyped
       DEF RecoverRestore, Goto, Recovering, IInv, TypeOK, LocalsOK, JournalOK, Enabling, Early,
         Tentative, Disabling, memVars, settingVars, taskVars, historyVars
  <1> QED
    BY <1>1, <1>2, <1>3, <1>4, <1>5, <1>6, <1>7, <1>8, <1>9, <1>10, <1>11 DEF IInv

LEMMA RecoverErrKeeps ==
  ASSUME IInv, RecoverErr
  PROVE  IInv'
  <1>1. TypeOK'
    BY Constants, Threads
       DEF RecoverErr, Goto, Recovering, Fault, Event, IInv, TypeOK, LocalsOK, Places, Count, Enabling,
         Early, Tentative, Disabling, memVars, settingVars, taskVars, historyVars
  <1>2. MutexOK'
    BY Constants, Threads
       DEF RecoverErr, Goto, Recovering, Fault, Event, IInv, TypeOK, MutexOK, Locked, InitPlaces,
         UpdatePlaces, GuardPlaces, ExitPlaces, Enabling, Early, Tentative, Disabling, memVars,
         settingVars, taskVars, historyVars
  <1>3. LocalsOK'
    BY Constants, Threads
       DEF RecoverErr, Goto, Recovering, Fault, Event, IInv, TypeOK, MutexOK, LocalsOK, Locked, Enabling,
         Early, Tentative, Disabling, memVars, settingVars, taskVars, historyVars
  <1>4. WrittenOK'
    BY Constants, Threads
       DEF RecoverErr, Goto, Recovering, Fault, Event, IInv, NoOp, TypeOK, LocalsOK, WrittenOK, Enabling,
         Early, Tentative, Disabling, memVars, settingVars, taskVars, historyVars
  <1>5. HeldOK'
    BY Constants, Threads
       DEF RecoverErr, Goto, Recovering, Fault, Event, IInv, TypeOK, MutexOK, LocalsOK, HeldOK, Settled,
         Locked, Enabling, Early, Tentative, Disabling, memVars, settingVars, taskVars,
         historyVars
  <1>6. EnableOK'
    BY Constants, Threads
       DEF RecoverErr, Goto, Recovering, Fault, Event, IInv, TypeOK, MutexOK, EnableOK, UntouchedBy,
         WrittenBy, Locked, Enabling, Early, Tentative, Disabling, memVars, settingVars,
         taskVars, historyVars
  <1>7. InitOK'
    BY Constants, Threads
       DEF RecoverErr, Goto, Recovering, Fault, Event, IInv, TypeOK, MutexOK, InitOK, Locked, Enabling,
         Early, Tentative, Disabling, memVars, settingVars, taskVars, historyVars
  <1>8. GuardOK'
    BY Constants, Threads
       DEF RecoverErr, Goto, Recovering, Fault, Event, IInv, TypeOK, MutexOK, GuardOK, Locked, Enabling,
         Early, Tentative, Disabling, memVars, settingVars, taskVars, historyVars
  <1>9. WishOK'
    BY Constants, Threads
       DEF RecoverErr, Goto, Recovering, Fault, Event, IInv, TypeOK, MutexOK, WishOK, Waiting, Locked,
         Enabling, Early, Tentative, Disabling, memVars, settingVars, taskVars, historyVars
  <1>10. LeftOverOK'
    BY Constants, Threads
       DEF RecoverErr, Goto, Recovering, Fault, Event, IInv, TypeOK, MutexOK, WishOK, LeftOverOK, Waiting,
         Ours, Locked, Enabling, Early, Tentative, Disabling, memVars, settingVars, taskVars,
         historyVars
  <1>11. JournalOK'
    BY Constants, Threads
       DEF RecoverErr, Goto, Recovering, Fault, Event, IInv, TypeOK, LocalsOK, JournalOK, Enabling, Early,
         Tentative, Disabling, memVars, settingVars, taskVars, historyVars
  <1> QED
    BY <1>1, <1>2, <1>3, <1>4, <1>5, <1>6, <1>7, <1>8, <1>9, <1>10, <1>11 DEF IInv

LEMMA RecoverClearKeeps ==
  ASSUME IInv, RecoverClear
  PROVE  IInv'
  <1>1. TypeOK'
    BY Constants, Threads
       DEF RecoverClear, Goto, AfterRecovery, IInv, TypeOK, LocalsOK, Places, Count, Enabling, Early,
         Tentative, Disabling, memVars, settingVars, taskVars, historyVars
  <1>2. MutexOK'
    BY Constants, Threads
       DEF RecoverClear, Goto, AfterRecovery, IInv, TypeOK, MutexOK, Locked, InitPlaces, UpdatePlaces,
         GuardPlaces, ExitPlaces, Enabling, Early, Tentative, Disabling, memVars, settingVars,
         taskVars, historyVars
  <1>3. LocalsOK'
    BY Constants, Threads
       DEF RecoverClear, Goto, AfterRecovery, IInv, TypeOK, MutexOK, LocalsOK, Locked, Enabling, Early,
         Tentative, Disabling, memVars, settingVars, taskVars, historyVars
  <1>4. WrittenOK'
    BY Constants, Threads
       DEF RecoverClear, Goto, AfterRecovery, IInv, NoOp, TypeOK, LocalsOK, WrittenOK, Enabling, Early,
         Tentative, Disabling, memVars, settingVars, taskVars, historyVars
  <1>5. HeldOK'
    BY Constants, Threads
       DEF RecoverClear, Goto, AfterRecovery, IInv, TypeOK, MutexOK, LocalsOK, HeldOK, Settled, Locked,
         Enabling, Early, Tentative, Disabling, memVars, settingVars, taskVars, historyVars
  <1>6. EnableOK'
    BY Constants, Threads
       DEF RecoverClear, Goto, AfterRecovery, IInv, TypeOK, MutexOK, EnableOK, UntouchedBy, WrittenBy,
         Locked, Enabling, Early, Tentative, Disabling, memVars, settingVars, taskVars,
         historyVars
  <1>7. InitOK'
    BY Constants, Threads
       DEF RecoverClear, Goto, AfterRecovery, IInv, TypeOK, MutexOK, InitOK, Locked, Enabling, Early,
         Tentative, Disabling, memVars, settingVars, taskVars, historyVars, LocalsOK
  <1>8. GuardOK'
    BY Constants, Threads
       DEF RecoverClear, Goto, AfterRecovery, IInv, TypeOK, MutexOK, GuardOK, Locked, Enabling, Early,
         Tentative, Disabling, memVars, settingVars, taskVars, historyVars
  <1>9. WishOK'
    BY Constants, Threads
       DEF RecoverClear, Goto, AfterRecovery, IInv, TypeOK, MutexOK, WishOK, Waiting, Locked, Enabling,
         Early, Tentative, Disabling, memVars, settingVars, taskVars, historyVars
  <1>10. LeftOverOK'
    BY Constants, Threads
       DEF RecoverClear, Goto, AfterRecovery, IInv, TypeOK, MutexOK, WishOK, LeftOverOK, Waiting, Ours,
         Locked, Enabling, Early, Tentative, Disabling, memVars, settingVars, taskVars,
         historyVars
  <1>11. JournalOK'
    BY Constants, Threads
       DEF RecoverClear, Goto, AfterRecovery, IInv, TypeOK, LocalsOK, JournalOK, Enabling, Early,
         Tentative, Disabling, memVars, settingVars, taskVars, historyVars
  <1> QED
    BY <1>1, <1>2, <1>3, <1>4, <1>5, <1>6, <1>7, <1>8, <1>9, <1>10, <1>11 DEF IInv

LEMMA InitBeginKeeps ==
  ASSUME IInv, InitBegin
  PROVE  IInv'
  <1>1. op' \in Locals /\ op'.target = latest.target /\ op'.written = None /\ ~op'.taken /\ ~op'.again
    BY BegunLocals DEF IInv, InitBegin, TypeOK, Settings, Begun
  <1>2. /\ pc["init"] = "begin"
       /\ \/ latest.enable /\ Goto("init", "capture") /\ UNCHANGED cur_sysproxy
          \/ Goto("init", "ok") /\ cur_sysproxy' = "off"
       /\ UNCHANGED <<registry, journal, old_windows_proxy, owned_windows_proxy, settingVars,
                      proxy_operation, taskVars, historyVars, counts>>
    BY DEF InitBegin
  <1>3. TypeOK'
    BY <1>1, <1>2, Constants, Threads
       DEF Goto, IInv, TypeOK, LocalsOK, Places, Count, Enabling, Early, Tentative, Disabling, memVars,
         settingVars, taskVars, historyVars, Settings
  <1>4. MutexOK'
    BY <1>1, <1>2, Constants, Threads
       DEF Goto, IInv, TypeOK, MutexOK, Locked, InitPlaces, UpdatePlaces, GuardPlaces, ExitPlaces,
         Enabling, Early, Tentative, Disabling, memVars, settingVars, taskVars, historyVars
  <1>5. LocalsOK'
    BY <1>1, <1>2, Constants, Threads
       DEF Goto, IInv, TypeOK, MutexOK, LocalsOK, Locked, Enabling, Early, Tentative, Disabling, memVars,
         settingVars, taskVars, historyVars, Settings
  <1>6. WrittenOK'
    BY <1>1, <1>2, Constants, Threads
       DEF Goto, IInv, NoOp, TypeOK, LocalsOK, WrittenOK, Enabling, Early, Tentative, Disabling, memVars,
         settingVars, taskVars, historyVars
  <1>7. HeldOK'
    BY <1>1, <1>2, Constants, Threads
       DEF Goto, IInv, TypeOK, MutexOK, LocalsOK, HeldOK, Settled, Locked, Enabling, Early, Tentative,
         Disabling, memVars, settingVars, taskVars, historyVars, InitOK
  <1>8. EnableOK'
    BY <1>1, <1>2, Constants, Threads
       DEF Goto, IInv, TypeOK, MutexOK, EnableOK, UntouchedBy, WrittenBy, Locked, Enabling, Early,
         Tentative, Disabling, memVars, settingVars, taskVars, historyVars
  <1>9. InitOK'
    BY <1>1, <1>2, Constants, Threads
       DEF Goto, IInv, TypeOK, MutexOK, InitOK, Locked, Enabling, Early, Tentative, Disabling, memVars,
         settingVars, taskVars, historyVars
  <1>10. GuardOK'
    BY <1>1, <1>2, Constants, Threads
       DEF Goto, IInv, TypeOK, MutexOK, GuardOK, Locked, Enabling, Early, Tentative, Disabling, memVars,
         settingVars, taskVars, historyVars
  <1>11. WishOK'
    BY <1>1, <1>2, Constants, Threads
       DEF Goto, IInv, TypeOK, MutexOK, WishOK, Waiting, Locked, Enabling, Early, Tentative, Disabling,
         memVars, settingVars, taskVars, historyVars
  <1>12. LeftOverOK'
    BY <1>1, <1>2, Constants, Threads
       DEF Goto, IInv, TypeOK, MutexOK, WishOK, LeftOverOK, Waiting, Ours, Locked, Enabling, Early,
         Tentative, Disabling, memVars, settingVars, taskVars, historyVars
  <1>13. JournalOK'
    BY <1>1, <1>2, Constants, Threads
       DEF Goto, IInv, TypeOK, LocalsOK, JournalOK, Enabling, Early, Tentative, Disabling, memVars,
         settingVars, taskVars, historyVars
  <1> QED
    BY <1>3, <1>4, <1>5, <1>6, <1>7, <1>8, <1>9, <1>10, <1>11, <1>12, <1>13 DEF IInv

LEMMA EnableCaptureKeeps ==
  ASSUME IInv, NEW p \in Updaters, EnableCapture(p)
  PROVE  IInv'
  <1>1. TypeOK'
    <2>1. op' \in Locals
      BY DEF IInv, TypeOK, EnableCapture, Locals, ShouldSaveOld
    <2> QED
      BY <2>1, Constants, Threads
         DEF EnableCapture, Goto, IInv, TypeOK, LocalsOK, Places, Count, Enabling, Early, Tentative,
         Disabling, memVars, settingVars, taskVars, historyVars
  <1>2. MutexOK'
    BY Constants, Threads
       DEF EnableCapture, Goto, IInv, TypeOK, MutexOK, Locked, InitPlaces, UpdatePlaces, GuardPlaces,
         ExitPlaces, Enabling, Early, Tentative, Disabling, memVars, settingVars, taskVars,
         historyVars
  <1>3. LocalsOK'
    BY Constants, Threads
       DEF EnableCapture, Goto, IInv, TypeOK, MutexOK, LocalsOK, Locked, Enabling, Early, Tentative,
         Disabling, memVars, settingVars, taskVars, historyVars
  <1>4. WrittenOK'
    BY Constants, Threads
       DEF EnableCapture, Goto, IInv, NoOp, TypeOK, LocalsOK, WrittenOK, Enabling, Early, Tentative,
         Disabling, memVars, settingVars, taskVars, historyVars
  <1>5. HeldOK'
    BY Constants, Threads
       DEF EnableCapture, Goto, IInv, TypeOK, MutexOK, LocalsOK, HeldOK, Settled, Locked, Enabling, Early,
         Tentative, Disabling, memVars, settingVars, taskVars, historyVars
  <1>6. EnableOK'
    BY Constants, Threads
       DEF EnableCapture, Goto, IInv, TypeOK, MutexOK, EnableOK, UntouchedBy, WrittenBy, Locked, Enabling,
         Early, Tentative, Disabling, memVars, settingVars, taskVars, historyVars, HeldOK,
         Settled
  <1>7. InitOK'
    BY Constants, Threads
       DEF EnableCapture, Goto, IInv, TypeOK, MutexOK, InitOK, Locked, Enabling, Early, Tentative,
         Disabling, memVars, settingVars, taskVars, historyVars
  <1>8. GuardOK'
    BY Constants, Threads
       DEF EnableCapture, Goto, IInv, TypeOK, MutexOK, GuardOK, Locked, Enabling, Early, Tentative,
         Disabling, memVars, settingVars, taskVars, historyVars
  <1>9. WishOK'
    BY Constants, Threads
       DEF EnableCapture, Goto, IInv, TypeOK, MutexOK, WishOK, Waiting, Locked, Enabling, Early,
         Tentative, Disabling, memVars, settingVars, taskVars, historyVars
  <1>10. LeftOverOK'
    BY Constants, Threads
       DEF EnableCapture, Goto, IInv, TypeOK, MutexOK, WishOK, LeftOverOK, Waiting, Ours, Locked,
         Enabling, Early, Tentative, Disabling, memVars, settingVars, taskVars, historyVars
  <1>11. JournalOK'
    BY Constants, Threads
       DEF EnableCapture, Goto, IInv, TypeOK, LocalsOK, JournalOK, Enabling, Early, Tentative, Disabling,
         memVars, settingVars, taskVars, historyVars
  <1> QED
    BY <1>1, <1>2, <1>3, <1>4, <1>5, <1>6, <1>7, <1>8, <1>9, <1>10, <1>11 DEF IInv

LEMMA EnableRefusedKeeps ==
  ASSUME IInv, NEW p \in Updaters, EnableRefused(p)
  PROVE  IInv'
  <1>1. TypeOK'
    BY Constants, Threads
       DEF EnableRefused, Goto, Fault, Event, IInv, TypeOK, LocalsOK, Places, Count, Enabling, Early,
         Tentative, Disabling, memVars, settingVars, taskVars, historyVars
  <1>2. MutexOK'
    BY Constants, Threads
       DEF EnableRefused, Goto, Fault, Event, IInv, TypeOK, MutexOK, Locked, InitPlaces, UpdatePlaces,
         GuardPlaces, ExitPlaces, Enabling, Early, Tentative, Disabling, memVars, settingVars,
         taskVars, historyVars
  <1>3. LocalsOK'
    BY Constants, Threads
       DEF EnableRefused, Goto, Fault, Event, IInv, TypeOK, MutexOK, LocalsOK, Locked, Enabling, Early,
         Tentative, Disabling, memVars, settingVars, taskVars, historyVars
  <1>4. WrittenOK'
    BY Constants, Threads
       DEF EnableRefused, Goto, Fault, Event, IInv, NoOp, TypeOK, LocalsOK, WrittenOK, Enabling, Early,
         Tentative, Disabling, memVars, settingVars, taskVars, historyVars
  <1>5. HeldOK'
    BY Constants, Threads
       DEF EnableRefused, Goto, Fault, Event, IInv, TypeOK, MutexOK, LocalsOK, HeldOK, Settled, Locked,
         Enabling, Early, Tentative, Disabling, memVars, settingVars, taskVars, historyVars
  <1>6. EnableOK'
    BY Constants, Threads
       DEF EnableRefused, Goto, Fault, Event, IInv, TypeOK, MutexOK, EnableOK, UntouchedBy, WrittenBy,
         Locked, Enabling, Early, Tentative, Disabling, memVars, settingVars, taskVars,
         historyVars
  <1>7. InitOK'
    BY Constants, Threads
       DEF EnableRefused, Goto, Fault, Event, IInv, TypeOK, MutexOK, InitOK, Locked, Enabling, Early,
         Tentative, Disabling, memVars, settingVars, taskVars, historyVars
  <1>8. GuardOK'
    BY Constants, Threads
       DEF EnableRefused, Goto, Fault, Event, IInv, TypeOK, MutexOK, GuardOK, Locked, Enabling, Early,
         Tentative, Disabling, memVars, settingVars, taskVars, historyVars
  <1>9. WishOK'
    BY Constants, Threads
       DEF EnableRefused, Goto, Fault, Event, IInv, TypeOK, MutexOK, WishOK, Waiting, Locked, Enabling,
         Early, Tentative, Disabling, memVars, settingVars, taskVars, historyVars
  <1>10. LeftOverOK'
    BY Constants, Threads
       DEF EnableRefused, Goto, Fault, Event, IInv, TypeOK, MutexOK, WishOK, LeftOverOK, Waiting, Ours,
         Locked, Enabling, Early, Tentative, Disabling, memVars, settingVars, taskVars,
         historyVars
  <1>11. JournalOK'
    BY Constants, Threads
       DEF EnableRefused, Goto, Fault, Event, IInv, TypeOK, LocalsOK, JournalOK, Enabling, Early,
         Tentative, Disabling, memVars, settingVars, taskVars, historyVars
  <1> QED
    BY <1>1, <1>2, <1>3, <1>4, <1>5, <1>6, <1>7, <1>8, <1>9, <1>10, <1>11 DEF IInv

LEMMA EnablePrepareKeeps ==
  ASSUME IInv, NEW p \in Updaters, EnablePrepare(p)
  PROVE  IInv'
  <1>1. journal' \in Phases
    BY DEF IInv, TypeOK, LocalsOK, EnablePrepare, RecoveryOriginal, Phases, Enabling, Early, Tentative
  <1>2. TypeOK'
    BY <1>1, Constants, Threads
       DEF EnablePrepare, Goto, IInv, TypeOK, LocalsOK, Places, Count, Enabling, Early, Tentative,
         Disabling, memVars, settingVars, taskVars, historyVars
  <1>3. MutexOK'
    BY <1>1, Constants, Threads
       DEF EnablePrepare, Goto, IInv, TypeOK, MutexOK, Locked, InitPlaces, UpdatePlaces, GuardPlaces,
         ExitPlaces, Enabling, Early, Tentative, Disabling, memVars, settingVars, taskVars,
         historyVars
  <1>4. LocalsOK'
    BY <1>1, Constants, Threads
       DEF EnablePrepare, Goto, IInv, TypeOK, MutexOK, LocalsOK, Locked, Enabling, Early, Tentative,
         Disabling, memVars, settingVars, taskVars, historyVars
  <1>5. WrittenOK'
    BY <1>1, Constants, Threads
       DEF EnablePrepare, Goto, IInv, NoOp, TypeOK, LocalsOK, WrittenOK, Enabling, Early, Tentative,
         Disabling, memVars, settingVars, taskVars, historyVars
  <1>6. HeldOK'
    BY <1>1, Constants, Threads
       DEF EnablePrepare, Goto, IInv, TypeOK, MutexOK, LocalsOK, HeldOK, Settled, Locked, Enabling, Early,
         Tentative, Disabling, memVars, settingVars, taskVars, historyVars
  <1>7. EnableOK'
    BY <1>1, Constants, Threads
       DEF EnablePrepare, Goto, IInv, TypeOK, MutexOK, EnableOK, UntouchedBy, WrittenBy, Locked, Enabling,
         Early, Tentative, Disabling, memVars, settingVars, taskVars, historyVars
  <1>8. InitOK'
    BY <1>1, Constants, Threads
       DEF EnablePrepare, Goto, IInv, TypeOK, MutexOK, InitOK, Locked, Enabling, Early, Tentative,
         Disabling, memVars, settingVars, taskVars, historyVars
  <1>9. GuardOK'
    BY <1>1, Constants, Threads
       DEF EnablePrepare, Goto, IInv, TypeOK, MutexOK, GuardOK, Locked, Enabling, Early, Tentative,
         Disabling, memVars, settingVars, taskVars, historyVars
  <1>10. WishOK'
    BY <1>1, Constants, Threads
       DEF EnablePrepare, Goto, IInv, TypeOK, MutexOK, WishOK, Waiting, Locked, Enabling, Early,
         Tentative, Disabling, memVars, settingVars, taskVars, historyVars
  <1>11. LeftOverOK'
    BY <1>1, Constants, Threads
       DEF EnablePrepare, Goto, IInv, TypeOK, MutexOK, WishOK, LeftOverOK, Waiting, Ours, Locked,
         Enabling, Early, Tentative, Disabling, memVars, settingVars, taskVars, historyVars
  <1>12. JournalOK'
    BY <1>1, Constants, Threads
       DEF EnablePrepare, Goto, IInv, TypeOK, LocalsOK, JournalOK, Enabling, Early, Tentative, Disabling,
         memVars, settingVars, taskVars, historyVars
  <1> QED
    BY <1>2, <1>3, <1>4, <1>5, <1>6, <1>7, <1>8, <1>9, <1>10, <1>11, <1>12 DEF IInv

LEMMA EnableSetKeeps ==
  ASSUME IInv, NEW p \in Updaters, EnableSet(p)
  PROVE  IInv'
  <1>1. /\ op.target \in Targets /\ On(op.target) \in Snapshots /\ On(op.target) \in Writes
         /\ On(op.target) # None /\ registry # None
    BY OnIsSnapshot, Constants DEF IInv, TypeOK, LocalsOK, EnableSet, Enabling, Early, Tentative
  <1>2. TypeOK'
    BY <1>1, Constants, Threads
       DEF EnableSet, Goto, Take, Ours, IInv, TypeOK, LocalsOK, Places, Count, Enabling, Early, Tentative,
         Disabling, memVars, settingVars, taskVars, historyVars
  <1>3. MutexOK'
    BY <1>1, Constants, Threads
       DEF EnableSet, Goto, Take, Ours, IInv, TypeOK, MutexOK, Locked, InitPlaces, UpdatePlaces,
         GuardPlaces, ExitPlaces, Enabling, Early, Tentative, Disabling, memVars, settingVars,
         taskVars, historyVars
  <1>4. LocalsOK'
    BY <1>1, Constants, Threads
       DEF EnableSet, Goto, Take, Ours, IInv, TypeOK, MutexOK, LocalsOK, Locked, Enabling, Early,
         Tentative, Disabling, memVars, settingVars, taskVars, historyVars
  <1>5. WrittenOK'
    BY <1>1, Constants, Threads
       DEF EnableSet, Goto, Take, Ours, IInv, NoOp, TypeOK, LocalsOK, WrittenOK, Enabling, Early,
         Tentative, Disabling, memVars, settingVars, taskVars, historyVars
  <1>6. HeldOK'
    BY <1>1, Constants, Threads
       DEF EnableSet, Goto, Take, Ours, IInv, TypeOK, MutexOK, LocalsOK, HeldOK, Settled, Locked,
         Enabling, Early, Tentative, Disabling, memVars, settingVars, taskVars, historyVars
  <1>7. EnableOK'
    <2>1. \A q \in Updaters : q # p => pc[q] \notin Enabling /\ pc'[q] = pc[q]
      BY Threads DEF IInv, TypeOK, MutexOK, Locked, EnableSet, Goto, Enabling, Early, Tentative
    <2>2. pc'[p] = "own" /\ pc[p] = "set"
      BY Threads DEF IInv, TypeOK, EnableSet, Goto
    <2>3. WrittenBy'
      BY <1>1 DEF EnableSet, Take, WrittenBy
    <2>4. ~spoiled /\ op.taken =>
               cur_sysproxy \in Targets /\ owned_windows_proxy # None /\ owned_windows_proxy = op.written
      BY <2>2 DEF IInv, EnableOK, Enabling, Early, Tentative
    <2> QED
      BY <2>1, <2>2, <2>3, <2>4 DEF EnableOK, EnableSet, memVars, Enabling, Early, Tentative
  <1>8. InitOK'
    BY <1>1, Constants, Threads
       DEF EnableSet, Goto, Take, Ours, IInv, TypeOK, MutexOK, InitOK, Locked, Enabling, Early, Tentative,
         Disabling, memVars, settingVars, taskVars, historyVars
  <1>9. GuardOK'
    BY <1>1, Constants, Threads
       DEF EnableSet, Goto, Take, Ours, IInv, TypeOK, MutexOK, GuardOK, Locked, Enabling, Early,
         Tentative, Disabling, memVars, settingVars, taskVars, historyVars
  <1>10. WishOK'
    BY <1>1, Constants, Threads
       DEF EnableSet, Goto, Take, Ours, IInv, TypeOK, MutexOK, WishOK, Waiting, Locked, Enabling, Early,
         Tentative, Disabling, memVars, settingVars, taskVars, historyVars
  <1>11. LeftOverOK'
    BY <1>1, Constants, Threads
       DEF EnableSet, Goto, Take, Ours, IInv, TypeOK, MutexOK, WishOK, LeftOverOK, Waiting, Locked,
         Enabling, Early, Tentative, Disabling, memVars, settingVars, taskVars, historyVars
  <1>12. JournalOK'
    BY <1>1, Constants, Threads
       DEF EnableSet, Goto, Take, Ours, IInv, TypeOK, LocalsOK, JournalOK, Enabling, Early, Tentative,
         Disabling, memVars, settingVars, taskVars, historyVars
  <1> QED
    BY <1>2, <1>3, <1>4, <1>5, <1>6, <1>7, <1>8, <1>9, <1>10, <1>11, <1>12 DEF IInv

LEMMA EnableSetErrKeeps ==
  ASSUME IInv, NEW p \in Updaters, EnableSetErr(p)
  PROVE  IInv'
  <1>1. /\ op.target \in Targets /\ On(op.target) \in Snapshots /\ On(op.target) \in Writes
         /\ On(op.target) # None /\ registry # None
    BY OnIsSnapshot, Constants
       DEF IInv, TypeOK, LocalsOK, EnableSetErr, Enabling, Early, Tentative
  <1>2. TypeOK'
    <2>1. registry' \in Snapshots /\ theirs' \in Snapshots \cup {None} /\ written' \in Snapshots \cup {None}
             /\ taken' \in BOOLEAN
      BY <1>1 DEF IInv, TypeOK, EnableSetErr, Take
    <2> QED
      BY <2>1, <1>1, Constants, Threads
         DEF EnableSetErr, Goto, Take, Ours, Fault, Event, IInv, TypeOK, LocalsOK, Places, Count, Enabling,
         Early, Tentative, Disabling, memVars, settingVars, taskVars, historyVars
  <1>3. MutexOK'
    BY <1>1, Constants, Threads
       DEF EnableSetErr, Goto, Take, Ours, Fault, Event, IInv, TypeOK, MutexOK, Locked, InitPlaces,
         UpdatePlaces, GuardPlaces, ExitPlaces, Enabling, Early, Tentative, Disabling, memVars,
         settingVars, taskVars, historyVars
  <1>4. LocalsOK'
    BY <1>1, Constants, Threads
       DEF EnableSetErr, Goto, Take, Ours, Fault, Event, IInv, TypeOK, MutexOK, LocalsOK, Locked,
         Enabling, Early, Tentative, Disabling, memVars, settingVars, taskVars, historyVars
  <1>5. WrittenOK'
    BY <1>1, Constants, Threads
       DEF EnableSetErr, Goto, Take, Ours, Fault, Event, IInv, NoOp, TypeOK, LocalsOK, WrittenOK,
         Enabling, Early, Tentative, Disabling, memVars, settingVars, taskVars, historyVars
  <1>6. HeldOK'
    BY <1>1, Constants, Threads
       DEF EnableSetErr, Goto, Take, Ours, Fault, Event, IInv, TypeOK, MutexOK, LocalsOK, HeldOK, Settled,
         Locked, Enabling, Early, Tentative, Disabling, memVars, settingVars, taskVars,
         historyVars
  <1>7. EnableOK'
    BY <1>1, Constants, Threads
       DEF EnableSetErr, Goto, Take, Ours, Fault, Event, IInv, TypeOK, MutexOK, EnableOK, UntouchedBy,
         WrittenBy, Locked, Enabling, Early, Tentative, Disabling, memVars, settingVars,
         taskVars, historyVars
  <1>8. InitOK'
    BY <1>1, Constants, Threads
       DEF EnableSetErr, Goto, Take, Ours, Fault, Event, IInv, TypeOK, MutexOK, InitOK, Locked, Enabling,
         Early, Tentative, Disabling, memVars, settingVars, taskVars, historyVars
  <1>9. GuardOK'
    BY <1>1, Constants, Threads
       DEF EnableSetErr, Goto, Take, Ours, Fault, Event, IInv, TypeOK, MutexOK, GuardOK, Locked, Enabling,
         Early, Tentative, Disabling, memVars, settingVars, taskVars, historyVars
  <1>10. WishOK'
    BY <1>1, Constants, Threads
       DEF EnableSetErr, Goto, Take, Ours, Fault, Event, IInv, TypeOK, MutexOK, WishOK, Waiting, Locked,
         Enabling, Early, Tentative, Disabling, memVars, settingVars, taskVars, historyVars
  <1>11. LeftOverOK'
    BY <1>1, Constants, Threads
       DEF EnableSetErr, Goto, Take, Ours, Fault, Event, IInv, TypeOK, MutexOK, WishOK, LeftOverOK,
         Waiting, Locked, Enabling, Early, Tentative, Disabling, memVars, settingVars, taskVars,
         historyVars
  <1>12. JournalOK'
    BY <1>1, Constants, Threads
       DEF EnableSetErr, Goto, Take, Ours, Fault, Event, IInv, TypeOK, LocalsOK, JournalOK, Enabling,
         Early, Tentative, Disabling, memVars, settingVars, taskVars, historyVars
  <1> QED
    BY <1>2, <1>3, <1>4, <1>5, <1>6, <1>7, <1>8, <1>9, <1>10, <1>11, <1>12 DEF IInv

LEMMA EnableOwnKeeps ==
  ASSUME IInv, NEW p \in Updaters, EnableOwn(p)
  PROVE  IInv'
  <1>1. /\ op.target \in Targets /\ On(op.target) \in Writes /\ registry # None
         /\ journal # None /\ journal' \in Phases
    BY OnIsSnapshot, Constants, Recorded
       DEF IInv, TypeOK, LocalsOK, EnableOwn, Enabling, Early, Tentative, Phases
  <1>2. TypeOK'
    BY <1>1, Constants, Threads
       DEF EnableOwn, Goto, Fault, Event, IInv, TypeOK, LocalsOK, Places, Count, Enabling, Early,
         Tentative, Disabling, memVars, settingVars, taskVars, historyVars, Locals
  <1>3. MutexOK'
    BY <1>1, Constants, Threads
       DEF EnableOwn, Goto, Fault, Event, IInv, TypeOK, MutexOK, Locked, InitPlaces, UpdatePlaces,
         GuardPlaces, ExitPlaces, Enabling, Early, Tentative, Disabling, memVars, settingVars,
         taskVars, historyVars
  <1>4. LocalsOK'
    BY <1>1, Constants, Threads
       DEF EnableOwn, Goto, Fault, Event, IInv, TypeOK, MutexOK, LocalsOK, Locked, Enabling, Early,
         Tentative, Disabling, memVars, settingVars, taskVars, historyVars
  <1>5. WrittenOK'
    BY <1>1, Constants, Threads
       DEF EnableOwn, Goto, Fault, Event, IInv, NoOp, TypeOK, LocalsOK, WrittenOK, Enabling, Early,
         Tentative, Disabling, memVars, settingVars, taskVars, historyVars, EnableOK, WrittenBy
  <1>6. HeldOK'
    BY <1>1, Constants, Threads
       DEF EnableOwn, Goto, Fault, Event, IInv, TypeOK, MutexOK, LocalsOK, HeldOK, Settled, Locked,
         Enabling, Early, Tentative, Disabling, memVars, settingVars, taskVars, historyVars,
         EnableOK, WrittenBy
  <1>7. EnableOK'
    BY <1>1, Constants, Threads
       DEF EnableOwn, Goto, Fault, Event, IInv, TypeOK, MutexOK, EnableOK, UntouchedBy, WrittenBy, Locked,
         Enabling, Early, Tentative, Disabling, memVars, settingVars, taskVars, historyVars
  <1>8. InitOK'
    BY <1>1, Constants, Threads
       DEF EnableOwn, Goto, Fault, Event, IInv, TypeOK, MutexOK, InitOK, Locked, Enabling, Early,
         Tentative, Disabling, memVars, settingVars, taskVars, historyVars
  <1>9. GuardOK'
    BY <1>1, Constants, Threads
       DEF EnableOwn, Goto, Fault, Event, IInv, TypeOK, MutexOK, GuardOK, Locked, Enabling, Early,
         Tentative, Disabling, memVars, settingVars, taskVars, historyVars
  <1>10. WishOK'
    BY <1>1, Constants, Threads
       DEF EnableOwn, Goto, Fault, Event, IInv, TypeOK, MutexOK, WishOK, Waiting, Locked, Enabling, Early,
         Tentative, Disabling, memVars, settingVars, taskVars, historyVars
  <1>11. LeftOverOK'
    BY <1>1, Constants, Threads
       DEF EnableOwn, Goto, Fault, Event, IInv, TypeOK, MutexOK, WishOK, LeftOverOK, Waiting, Ours,
         Locked, Enabling, Early, Tentative, Disabling, memVars, settingVars, taskVars,
         historyVars
  <1>12. JournalOK'
    <2>1. registry \in Snapshots /\ journal \in Phases /\ journal.target \in Targets
      BY DEF IInv, TypeOK, LocalsOK, EnableOwn, Enabling, Early, Tentative, Phases
    <2>2. journal' # journal => journal' = RecordOwned(registry, journal.target)
      BY DEF EnableOwn
    <2>3. journal' # journal => journal'.phase = "owned" /\ journal'.owned = registry
      BY <2>2, OwnedFields
    <2> QED
      BY <2>1, <2>2, <2>3, Constants DEF IInv, JournalOK
  <1> QED
    BY <1>2, <1>3, <1>4, <1>5, <1>6, <1>7, <1>8, <1>9, <1>10, <1>11, <1>12 DEF IInv

LEMMA EnableOwnErrKeeps ==
  ASSUME IInv, NEW p \in Updaters, EnableOwnErr(p)
  PROVE  IInv'
  <1>1. TypeOK'
    BY Constants, Threads
       DEF EnableOwnErr, Goto, Fault, Event, IInv, TypeOK, LocalsOK, Places, Count, Enabling, Early,
         Tentative, Disabling, memVars, settingVars, taskVars, historyVars
  <1>2. MutexOK'
    BY Constants, Threads
       DEF EnableOwnErr, Goto, Fault, Event, IInv, TypeOK, MutexOK, Locked, InitPlaces, UpdatePlaces,
         GuardPlaces, ExitPlaces, Enabling, Early, Tentative, Disabling, memVars, settingVars,
         taskVars, historyVars
  <1>3. LocalsOK'
    BY Constants, Threads
       DEF EnableOwnErr, Goto, Fault, Event, IInv, TypeOK, MutexOK, LocalsOK, Locked, Enabling, Early,
         Tentative, Disabling, memVars, settingVars, taskVars, historyVars
  <1>4. WrittenOK'
    BY Constants, Threads
       DEF EnableOwnErr, Goto, Fault, Event, IInv, NoOp, TypeOK, LocalsOK, WrittenOK, Enabling, Early,
         Tentative, Disabling, memVars, settingVars, taskVars, historyVars
  <1>5. HeldOK'
    BY Constants, Threads
       DEF EnableOwnErr, Goto, Fault, Event, IInv, TypeOK, MutexOK, LocalsOK, HeldOK, Settled, Locked,
         Enabling, Early, Tentative, Disabling, memVars, settingVars, taskVars, historyVars
  <1>6. EnableOK'
    BY Constants, Threads
       DEF EnableOwnErr, Goto, Fault, Event, IInv, TypeOK, MutexOK, EnableOK, UntouchedBy, WrittenBy,
         Locked, Enabling, Early, Tentative, Disabling, memVars, settingVars, taskVars,
         historyVars
  <1>7. InitOK'
    BY Constants, Threads
       DEF EnableOwnErr, Goto, Fault, Event, IInv, TypeOK, MutexOK, InitOK, Locked, Enabling, Early,
         Tentative, Disabling, memVars, settingVars, taskVars, historyVars
  <1>8. GuardOK'
    BY Constants, Threads
       DEF EnableOwnErr, Goto, Fault, Event, IInv, TypeOK, MutexOK, GuardOK, Locked, Enabling, Early,
         Tentative, Disabling, memVars, settingVars, taskVars, historyVars
  <1>9. WishOK'
    BY Constants, Threads
       DEF EnableOwnErr, Goto, Fault, Event, IInv, TypeOK, MutexOK, WishOK, Waiting, Locked, Enabling,
         Early, Tentative, Disabling, memVars, settingVars, taskVars, historyVars
  <1>10. LeftOverOK'
    BY Constants, Threads
       DEF EnableOwnErr, Goto, Fault, Event, IInv, TypeOK, MutexOK, WishOK, LeftOverOK, Waiting, Ours,
         Locked, Enabling, Early, Tentative, Disabling, memVars, settingVars, taskVars,
         historyVars
  <1>11. JournalOK'
    BY Constants, Threads
       DEF EnableOwnErr, Goto, Fault, Event, IInv, TypeOK, LocalsOK, JournalOK, Enabling, Early,
         Tentative, Disabling, memVars, settingVars, taskVars, historyVars
  <1> QED
    BY <1>1, <1>2, <1>3, <1>4, <1>5, <1>6, <1>7, <1>8, <1>9, <1>10, <1>11 DEF IInv

LEMMA RollbackKeeps ==
  ASSUME IInv, NEW p \in Updaters, Rollback(p)
  PROVE  IInv'
  <1>1. /\ op.snap \in Snapshots /\ op.taken \in BOOLEAN
       /\ op.theirs \in Snapshots \cup {None} /\ op.written \in Snapshots \cup {None}
    BY DEF IInv, TypeOK, LocalsOK, Rollback, Locals, Enabling, Early, Tentative
  <1>2. TypeOK'
    BY <1>1, Constants, Threads
       DEF Rollback, Goto, Fault, Event, IInv, TypeOK, LocalsOK, Places, Count, Enabling, Early,
         Tentative, Disabling, memVars, settingVars, taskVars, historyVars
  <1>3. MutexOK'
    BY <1>1, Constants, Threads
       DEF Rollback, Goto, Fault, Event, IInv, TypeOK, MutexOK, Locked, InitPlaces, UpdatePlaces,
         GuardPlaces, ExitPlaces, Enabling, Early, Tentative, Disabling, memVars, settingVars,
         taskVars, historyVars
  <1>4. LocalsOK'
    BY <1>1, Constants, Threads
       DEF Rollback, Goto, Fault, Event, IInv, TypeOK, MutexOK, LocalsOK, Locked, Enabling, Early,
         Tentative, Disabling, memVars, settingVars, taskVars, historyVars
  <1>5. WrittenOK'
    BY <1>1, Constants, Threads
       DEF Rollback, Goto, Fault, Event, IInv, NoOp, TypeOK, LocalsOK, WrittenOK, Enabling, Early,
         Tentative, Disabling, memVars, settingVars, taskVars, historyVars
  <1>6. HeldOK'
    BY <1>1, Constants, Threads
       DEF Rollback, Goto, Fault, Event, IInv, TypeOK, MutexOK, LocalsOK, HeldOK, Settled, Locked,
         Enabling, Early, Tentative, Disabling, memVars, settingVars, taskVars, historyVars,
         EnableOK, UntouchedBy
  <1>7. EnableOK'
    BY <1>1, Constants, Threads
       DEF Rollback, Goto, Fault, Event, IInv, TypeOK, MutexOK, EnableOK, UntouchedBy, WrittenBy, Locked,
         Enabling, Early, Tentative, Disabling, memVars, settingVars, taskVars, historyVars
  <1>8. InitOK'
    BY <1>1, Constants, Threads
       DEF Rollback, Goto, Fault, Event, IInv, TypeOK, MutexOK, InitOK, Locked, Enabling, Early,
         Tentative, Disabling, memVars, settingVars, taskVars, historyVars
  <1>9. GuardOK'
    BY <1>1, Constants, Threads
       DEF Rollback, Goto, Fault, Event, IInv, TypeOK, MutexOK, GuardOK, Locked, Enabling, Early,
         Tentative, Disabling, memVars, settingVars, taskVars, historyVars
  <1>10. WishOK'
    BY <1>1, Constants, Threads
       DEF Rollback, Goto, Fault, Event, IInv, TypeOK, MutexOK, WishOK, Waiting, Locked, Enabling, Early,
         Tentative, Disabling, memVars, settingVars, taskVars, historyVars
  <1>11. LeftOverOK'
    BY <1>1, Constants, Threads
       DEF Rollback, Goto, Fault, Event, IInv, TypeOK, MutexOK, WishOK, LeftOverOK, Waiting, Ours, Locked,
         Enabling, Early, Tentative, Disabling, memVars, settingVars, taskVars, historyVars
  <1>12. JournalOK'
    BY <1>1, Constants, Threads
       DEF Rollback, Goto, Fault, Event, IInv, TypeOK, LocalsOK, JournalOK, Enabling, Early, Tentative,
         Disabling, memVars, settingVars, taskVars, historyVars
  <1> QED
    BY <1>2, <1>3, <1>4, <1>5, <1>6, <1>7, <1>8, <1>9, <1>10, <1>11, <1>12 DEF IInv

LEMMA RearmKeeps ==
  ASSUME IInv, NEW p \in Updaters, Rearm(p)
  PROVE  IInv'
  <1>1. /\ journal' \in Phases \cup {None}
       /\ p # "init" /\ cur_sysproxy \in Targets => journal' # None
    BY Constants DEF IInv, TypeOK, LocalsOK, Rearm, Rearmed, Phases, Enabling, Early, Tentative
  <1>2. TypeOK'
    BY Constants, Threads
       DEF Rearm, Goto, IInv, TypeOK, LocalsOK, Places, Count, Enabling, Early, Tentative, Disabling,
         memVars, settingVars, taskVars, historyVars, Rearmed, Phases
  <1>3. MutexOK'
    BY Constants, Threads
       DEF Rearm, Goto, IInv, TypeOK, MutexOK, Locked, InitPlaces, UpdatePlaces, GuardPlaces, ExitPlaces,
         Enabling, Early, Tentative, Disabling, memVars, settingVars, taskVars, historyVars
  <1>4. LocalsOK'
    BY Constants, Threads
       DEF Rearm, Goto, IInv, TypeOK, MutexOK, LocalsOK, Locked, Enabling, Early, Tentative, Disabling,
         memVars, settingVars, taskVars, historyVars
  <1>5. WrittenOK'
    BY Constants, Threads
       DEF Rearm, Goto, IInv, NoOp, TypeOK, LocalsOK, WrittenOK, Enabling, Early, Tentative, Disabling,
         memVars, settingVars, taskVars, historyVars
  <1>6. HeldOK'
    <2>1. ~spoiled' /\ taken' =>
               ~spoiled /\ taken /\ op.taken /\ p # "init" /\ written' = op.written
      BY Threads DEF IInv, EnableOK, InitOK, UntouchedBy, Rearm, TypeOK, Enabling, Early, Tentative
    <2>2. ~spoiled' /\ taken' =>
               /\ cur_sysproxy' \in Targets /\ cur_sysproxy \in Targets /\ owned_windows_proxy' # None
               /\ owned_windows_proxy' = op.written
      BY <2>1 DEF IInv, EnableOK, Rearm, memVars, Enabling, Tentative
    <2> QED
      BY <2>1, <2>2, <1>1 DEF HeldOK
  <1>7. EnableOK'
    BY Constants, Threads
       DEF Rearm, Goto, IInv, TypeOK, MutexOK, EnableOK, UntouchedBy, WrittenBy, Locked, Enabling, Early,
         Tentative, Disabling, memVars, settingVars, taskVars, historyVars
  <1>8. InitOK'
    BY Constants, Threads
       DEF Rearm, Goto, IInv, TypeOK, MutexOK, InitOK, Locked, Enabling, Early, Tentative, Disabling,
         memVars, settingVars, taskVars, historyVars
  <1>9. GuardOK'
    BY Constants, Threads
       DEF Rearm, Goto, IInv, TypeOK, MutexOK, GuardOK, Locked, Enabling, Early, Tentative, Disabling,
         memVars, settingVars, taskVars, historyVars
  <1>10. WishOK'
    BY Constants, Threads
       DEF Rearm, Goto, IInv, TypeOK, MutexOK, WishOK, Waiting, Locked, Enabling, Early, Tentative,
         Disabling, memVars, settingVars, taskVars, historyVars
  <1>11. LeftOverOK'
    BY Constants, Threads
       DEF Rearm, Goto, IInv, TypeOK, MutexOK, WishOK, LeftOverOK, Waiting, Ours, Locked, Enabling, Early,
         Tentative, Disabling, memVars, settingVars, taskVars, historyVars
  <1>12. JournalOK'
    BY Constants, Threads
       DEF Rearm, Goto, IInv, TypeOK, LocalsOK, JournalOK, Enabling, Early, Tentative, Disabling, memVars,
         settingVars, taskVars, historyVars, Rearmed, Phases
  <1> QED
    BY <1>2, <1>3, <1>4, <1>5, <1>6, <1>7, <1>8, <1>9, <1>10, <1>11, <1>12 DEF IInv

LEMMA DisableSkipKeeps ==
  ASSUME IInv, NEW p \in Updaters, DisableSkip(p)
  PROVE  IInv'
  <1>1. TypeOK'
    BY Constants, Threads
       DEF DisableSkip, Goto, Forget, IInv, TypeOK, LocalsOK, Places, Count, Enabling, Early, Tentative,
         Disabling, memVars, settingVars, taskVars, historyVars
  <1>2. MutexOK'
    BY Constants, Threads
       DEF DisableSkip, Goto, Forget, IInv, TypeOK, MutexOK, Locked, InitPlaces, UpdatePlaces,
         GuardPlaces, ExitPlaces, Enabling, Early, Tentative, Disabling, memVars, settingVars,
         taskVars, historyVars
  <1>3. LocalsOK'
    BY Constants, Threads
       DEF DisableSkip, Goto, Forget, IInv, TypeOK, MutexOK, LocalsOK, Locked, Enabling, Early, Tentative,
         Disabling, memVars, settingVars, taskVars, historyVars
  <1>4. WrittenOK'
    BY Constants, Threads
       DEF DisableSkip, Goto, Forget, IInv, NoOp, TypeOK, LocalsOK, WrittenOK, Enabling, Early, Tentative,
         Disabling, memVars, settingVars, taskVars, historyVars
  <1>5. HeldOK'
    BY Constants, Threads
       DEF DisableSkip, Goto, Forget, IInv, TypeOK, MutexOK, LocalsOK, HeldOK, Settled, Locked, Enabling,
         Early, Tentative, Disabling, memVars, settingVars, taskVars, historyVars
  <1>6. EnableOK'
    BY Constants, Threads
       DEF DisableSkip, Goto, Forget, IInv, TypeOK, MutexOK, EnableOK, UntouchedBy, WrittenBy, Locked,
         Enabling, Early, Tentative, Disabling, memVars, settingVars, taskVars, historyVars
  <1>7. InitOK'
    BY Constants, Threads
       DEF DisableSkip, Goto, Forget, IInv, TypeOK, MutexOK, InitOK, Locked, Enabling, Early, Tentative,
         Disabling, memVars, settingVars, taskVars, historyVars
  <1>8. GuardOK'
    BY Constants, Threads
       DEF DisableSkip, Goto, Forget, IInv, TypeOK, MutexOK, GuardOK, Locked, Enabling, Early, Tentative,
         Disabling, memVars, settingVars, taskVars, historyVars
  <1>9. WishOK'
    BY Constants, Threads
       DEF DisableSkip, Goto, Forget, IInv, TypeOK, MutexOK, WishOK, Waiting, Locked, Enabling, Early,
         Tentative, Disabling, memVars, settingVars, taskVars, historyVars
  <1>10. LeftOverOK'
    BY Constants, Threads
       DEF DisableSkip, Goto, Forget, IInv, TypeOK, MutexOK, WishOK, LeftOverOK, Waiting, Ours, Locked,
         Enabling, Early, Tentative, Disabling, memVars, settingVars, taskVars, historyVars
  <1>11. JournalOK'
    BY Constants, Threads
       DEF DisableSkip, Goto, Forget, IInv, TypeOK, LocalsOK, JournalOK, Enabling, Early, Tentative,
         Disabling, memVars, settingVars, taskVars, historyVars
  <1> QED
    BY <1>1, <1>2, <1>3, <1>4, <1>5, <1>6, <1>7, <1>8, <1>9, <1>10, <1>11 DEF IInv

LEMMA DisableOwnedKeeps ==
  ASSUME IInv, NEW p \in Updaters, DisableOwned(p)
  PROVE  IInv'
  <1>1. TypeOK'
    BY Constants, Threads
       DEF DisableOwned, Goto, IInv, TypeOK, LocalsOK, Places, Count, Enabling, Early, Tentative,
         Disabling, memVars, settingVars, taskVars, historyVars
  <1>2. MutexOK'
    BY Constants, Threads
       DEF DisableOwned, Goto, IInv, TypeOK, MutexOK, Locked, InitPlaces, UpdatePlaces, GuardPlaces,
         ExitPlaces, Enabling, Early, Tentative, Disabling, memVars, settingVars, taskVars,
         historyVars
  <1>3. LocalsOK'
    BY Constants, Threads
       DEF DisableOwned, Goto, IInv, TypeOK, MutexOK, LocalsOK, Locked, Enabling, Early, Tentative,
         Disabling, memVars, settingVars, taskVars, historyVars
  <1>4. WrittenOK'
    BY Constants, Threads
       DEF DisableOwned, Goto, IInv, NoOp, TypeOK, LocalsOK, WrittenOK, Enabling, Early, Tentative,
         Disabling, memVars, settingVars, taskVars, historyVars
  <1>5. HeldOK'
    BY Constants, Threads
       DEF DisableOwned, Goto, IInv, TypeOK, MutexOK, LocalsOK, HeldOK, Settled, Locked, Enabling, Early,
         Tentative, Disabling, memVars, settingVars, taskVars, historyVars
  <1>6. EnableOK'
    BY Constants, Threads
       DEF DisableOwned, Goto, IInv, TypeOK, MutexOK, EnableOK, UntouchedBy, WrittenBy, Locked, Enabling,
         Early, Tentative, Disabling, memVars, settingVars, taskVars, historyVars
  <1>7. InitOK'
    BY Constants, Threads
       DEF DisableOwned, Goto, IInv, TypeOK, MutexOK, InitOK, Locked, Enabling, Early, Tentative,
         Disabling, memVars, settingVars, taskVars, historyVars
  <1>8. GuardOK'
    BY Constants, Threads
       DEF DisableOwned, Goto, IInv, TypeOK, MutexOK, GuardOK, Locked, Enabling, Early, Tentative,
         Disabling, memVars, settingVars, taskVars, historyVars
  <1>9. WishOK'
    BY Constants, Threads
       DEF DisableOwned, Goto, IInv, TypeOK, MutexOK, WishOK, Waiting, Locked, Enabling, Early, Tentative,
         Disabling, memVars, settingVars, taskVars, historyVars
  <1>10. LeftOverOK'
    BY Constants, Threads
       DEF DisableOwned, Goto, IInv, TypeOK, MutexOK, WishOK, LeftOverOK, Waiting, Ours, Locked, Enabling,
         Early, Tentative, Disabling, memVars, settingVars, taskVars, historyVars
  <1>11. JournalOK'
    BY Constants, Threads
       DEF DisableOwned, Goto, IInv, TypeOK, LocalsOK, JournalOK, Enabling, Early, Tentative, Disabling,
         memVars, settingVars, taskVars, historyVars
  <1> QED
    BY <1>1, <1>2, <1>3, <1>4, <1>5, <1>6, <1>7, <1>8, <1>9, <1>10, <1>11 DEF IInv

LEMMA DisableGiveBackKeeps ==
  ASSUME IInv, NEW p \in Updaters, DisableGiveBack(p)
  PROVE  IInv'
  <1>1. TypeOK'
    BY Constants, Threads, RestoredValues, OffIsSnapshot
       DEF DisableGiveBack, Goto, IInv, TypeOK, LocalsOK, Places, Count, Enabling, Early, Tentative,
         Disabling, memVars, settingVars, taskVars, historyVars
  <1>2. MutexOK'
    BY Constants, Threads
       DEF DisableGiveBack, Goto, IInv, TypeOK, MutexOK, Locked, InitPlaces, UpdatePlaces, GuardPlaces,
         ExitPlaces, Enabling, Early, Tentative, Disabling, memVars, settingVars, taskVars,
         historyVars
  <1>3. LocalsOK'
    BY Constants, Threads
       DEF DisableGiveBack, Goto, IInv, TypeOK, MutexOK, LocalsOK, Locked, Enabling, Early, Tentative,
         Disabling, memVars, settingVars, taskVars, historyVars
  <1>4. WrittenOK'
    BY Constants, Threads
       DEF DisableGiveBack, Goto, IInv, NoOp, TypeOK, LocalsOK, WrittenOK, Enabling, Early, Tentative,
         Disabling, memVars, settingVars, taskVars, historyVars
  <1>5. HeldOK'
    BY Constants, Threads
       DEF DisableGiveBack, Goto, IInv, TypeOK, MutexOK, LocalsOK, HeldOK, Settled, Locked, Enabling,
         Early, Tentative, Disabling, memVars, settingVars, taskVars, historyVars
  <1>6. EnableOK'
    BY Constants, Threads
       DEF DisableGiveBack, Goto, IInv, TypeOK, MutexOK, EnableOK, UntouchedBy, WrittenBy, Locked,
         Enabling, Early, Tentative, Disabling, memVars, settingVars, taskVars, historyVars
  <1>7. InitOK'
    BY Constants, Threads
       DEF DisableGiveBack, Goto, IInv, TypeOK, MutexOK, InitOK, Locked, Enabling, Early, Tentative,
         Disabling, memVars, settingVars, taskVars, historyVars
  <1>8. GuardOK'
    BY Constants, Threads
       DEF DisableGiveBack, Goto, IInv, TypeOK, MutexOK, GuardOK, Locked, Enabling, Early, Tentative,
         Disabling, memVars, settingVars, taskVars, historyVars
  <1>9. WishOK'
    BY Constants, Threads
       DEF DisableGiveBack, Goto, IInv, TypeOK, MutexOK, WishOK, Waiting, Locked, Enabling, Early,
         Tentative, Disabling, memVars, settingVars, taskVars, historyVars
  <1>10. LeftOverOK'
    BY Constants, Threads
       DEF DisableGiveBack, Goto, IInv, TypeOK, MutexOK, WishOK, LeftOverOK, Waiting, Ours, Locked,
         Enabling, Early, Tentative, Disabling, memVars, settingVars, taskVars, historyVars
  <1>11. JournalOK'
    BY Constants, Threads
       DEF DisableGiveBack, Goto, IInv, TypeOK, LocalsOK, JournalOK, Enabling, Early, Tentative,
         Disabling, memVars, settingVars, taskVars, historyVars
  <1> QED
    BY <1>1, <1>2, <1>3, <1>4, <1>5, <1>6, <1>7, <1>8, <1>9, <1>10, <1>11 DEF IInv

LEMMA DisableErrKeeps ==
  ASSUME IInv, NEW p \in Updaters, DisableErr(p)
  PROVE  IInv'
  <1>1. TypeOK'
    BY Constants, Threads
       DEF DisableErr, Goto, Fault, Event, IInv, TypeOK, LocalsOK, Places, Count, Enabling, Early,
         Tentative, Disabling, memVars, settingVars, taskVars, historyVars
  <1>2. MutexOK'
    BY Constants, Threads
       DEF DisableErr, Goto, Fault, Event, IInv, TypeOK, MutexOK, Locked, InitPlaces, UpdatePlaces,
         GuardPlaces, ExitPlaces, Enabling, Early, Tentative, Disabling, memVars, settingVars,
         taskVars, historyVars
  <1>3. LocalsOK'
    BY Constants, Threads
       DEF DisableErr, Goto, Fault, Event, IInv, TypeOK, MutexOK, LocalsOK, Locked, Enabling, Early,
         Tentative, Disabling, memVars, settingVars, taskVars, historyVars
  <1>4. WrittenOK'
    BY Constants, Threads
       DEF DisableErr, Goto, Fault, Event, IInv, NoOp, TypeOK, LocalsOK, WrittenOK, Enabling, Early,
         Tentative, Disabling, memVars, settingVars, taskVars, historyVars
  <1>5. HeldOK'
    BY Constants, Threads
       DEF DisableErr, Goto, Fault, Event, IInv, TypeOK, MutexOK, LocalsOK, HeldOK, Settled, Locked,
         Enabling, Early, Tentative, Disabling, memVars, settingVars, taskVars, historyVars
  <1>6. EnableOK'
    BY Constants, Threads
       DEF DisableErr, Goto, Fault, Event, IInv, TypeOK, MutexOK, EnableOK, UntouchedBy, WrittenBy,
         Locked, Enabling, Early, Tentative, Disabling, memVars, settingVars, taskVars,
         historyVars
  <1>7. InitOK'
    BY Constants, Threads
       DEF DisableErr, Goto, Fault, Event, IInv, TypeOK, MutexOK, InitOK, Locked, Enabling, Early,
         Tentative, Disabling, memVars, settingVars, taskVars, historyVars
  <1>8. GuardOK'
    BY Constants, Threads
       DEF DisableErr, Goto, Fault, Event, IInv, TypeOK, MutexOK, GuardOK, Locked, Enabling, Early,
         Tentative, Disabling, memVars, settingVars, taskVars, historyVars
  <1>9. WishOK'
    BY Constants, Threads
       DEF DisableErr, Goto, Fault, Event, IInv, TypeOK, MutexOK, WishOK, Waiting, Locked, Enabling,
         Early, Tentative, Disabling, memVars, settingVars, taskVars, historyVars
  <1>10. LeftOverOK'
    <2>1. ~spoiled' => ~spoiled /\ ~op'.again
      BY DEF IInv, TypeOK, Locals, DisableErr
    <2>2. pc'[p] = "failed" /\ pc[p] = "give_back" /\ \A q \in Processes : q # p => pc'[q] = pc[q]
      BY Threads DEF IInv, TypeOK, DisableErr, Goto
    <2>3. UNCHANGED <<registry, latest, taken>>
      BY DEF DisableErr, settingVars
    <2> QED
      BY <2>1, <2>2, <2>3, Threads DEF IInv, LeftOverOK, Waiting, Ours
  <1>11. JournalOK'
    BY Constants, Threads
       DEF DisableErr, Goto, Fault, Event, IInv, TypeOK, LocalsOK, JournalOK, Enabling, Early, Tentative,
         Disabling, memVars, settingVars, taskVars, historyVars
  <1> QED
    BY <1>1, <1>2, <1>3, <1>4, <1>5, <1>6, <1>7, <1>8, <1>9, <1>10, <1>11 DEF IInv

LEMMA DisableForgetKeeps ==
  ASSUME IInv, NEW p \in Updaters, DisableForget(p)
  PROVE  IInv'
  <1>1. TypeOK'
    BY Constants, Threads
       DEF DisableForget, Goto, Forget, IInv, TypeOK, LocalsOK, Places, Count, Enabling, Early, Tentative,
         Disabling, memVars, settingVars, taskVars, historyVars
  <1>2. MutexOK'
    BY Constants, Threads
       DEF DisableForget, Goto, Forget, IInv, TypeOK, MutexOK, Locked, InitPlaces, UpdatePlaces,
         GuardPlaces, ExitPlaces, Enabling, Early, Tentative, Disabling, memVars, settingVars,
         taskVars, historyVars
  <1>3. LocalsOK'
    BY Constants, Threads
       DEF DisableForget, Goto, Forget, IInv, TypeOK, MutexOK, LocalsOK, Locked, Enabling, Early,
         Tentative, Disabling, memVars, settingVars, taskVars, historyVars
  <1>4. WrittenOK'
    BY Constants, Threads
       DEF DisableForget, Goto, Forget, IInv, NoOp, TypeOK, LocalsOK, WrittenOK, Enabling, Early,
         Tentative, Disabling, memVars, settingVars, taskVars, historyVars
  <1>5. HeldOK'
    BY Constants, Threads
       DEF DisableForget, Goto, Forget, IInv, TypeOK, MutexOK, LocalsOK, HeldOK, Settled, Locked,
         Enabling, Early, Tentative, Disabling, memVars, settingVars, taskVars, historyVars
  <1>6. EnableOK'
    BY Constants, Threads
       DEF DisableForget, Goto, Forget, IInv, TypeOK, MutexOK, EnableOK, UntouchedBy, WrittenBy, Locked,
         Enabling, Early, Tentative, Disabling, memVars, settingVars, taskVars, historyVars
  <1>7. InitOK'
    BY Constants, Threads
       DEF DisableForget, Goto, Forget, IInv, TypeOK, MutexOK, InitOK, Locked, Enabling, Early, Tentative,
         Disabling, memVars, settingVars, taskVars, historyVars
  <1>8. GuardOK'
    BY Constants, Threads
       DEF DisableForget, Goto, Forget, IInv, TypeOK, MutexOK, GuardOK, Locked, Enabling, Early,
         Tentative, Disabling, memVars, settingVars, taskVars, historyVars
  <1>9. WishOK'
    BY Constants, Threads
       DEF DisableForget, Goto, Forget, IInv, TypeOK, MutexOK, WishOK, Waiting, Locked, Enabling, Early,
         Tentative, Disabling, memVars, settingVars, taskVars, historyVars
  <1>10. LeftOverOK'
    BY Constants, Threads
       DEF DisableForget, Goto, Forget, IInv, TypeOK, MutexOK, WishOK, LeftOverOK, Waiting, Ours, Locked,
         Enabling, Early, Tentative, Disabling, memVars, settingVars, taskVars, historyVars
  <1>11. JournalOK'
    BY Constants, Threads
       DEF DisableForget, Goto, Forget, IInv, TypeOK, LocalsOK, JournalOK, Enabling, Early, Tentative,
         Disabling, memVars, settingVars, taskVars, historyVars
  <1> QED
    BY <1>1, <1>2, <1>3, <1>4, <1>5, <1>6, <1>7, <1>8, <1>9, <1>10, <1>11 DEF IInv

LEMMA GuardBeginKeeps ==
  ASSUME IInv, GuardBegin
  PROVE  IInv'
  <1>1. /\ pc["guard"] = "idle" /\ guard_scheduled /\ ~guard_scheduled' /\ guard_scheduled' \in BOOLEAN
       /\ \/ guard_target' \in Targets /\ Goto("guard", "lock")
          \/ UNCHANGED <<guard_target, pc>>
       /\ UNCHANGED <<registry, journal, memVars, settingVars, proxy_operation, op, historyVars,
                      counts>>
    BY DEF IInv, TypeOK, GuardBegin, Settings
  <1>2. TypeOK'
    BY <1>1, Constants, Threads
       DEF Goto, IInv, TypeOK, LocalsOK, Places, Count, Enabling, Early, Tentative, Disabling, memVars,
         settingVars, taskVars, historyVars
  <1>3. MutexOK'
    BY <1>1, Constants, Threads
       DEF Goto, IInv, TypeOK, MutexOK, Locked, InitPlaces, UpdatePlaces, GuardPlaces, ExitPlaces,
         Enabling, Early, Tentative, Disabling, memVars, settingVars, taskVars, historyVars
  <1>4. LocalsOK'
    BY <1>1, Constants, Threads
       DEF Goto, IInv, TypeOK, MutexOK, LocalsOK, Locked, Enabling, Early, Tentative, Disabling, memVars,
         settingVars, taskVars, historyVars
  <1>5. WrittenOK'
    BY <1>1, Constants, Threads
       DEF Goto, IInv, NoOp, TypeOK, LocalsOK, WrittenOK, Enabling, Early, Tentative, Disabling, memVars,
         settingVars, taskVars, historyVars
  <1>6. HeldOK'
    BY <1>1, Constants, Threads
       DEF Goto, IInv, TypeOK, MutexOK, LocalsOK, HeldOK, Settled, Locked, Enabling, Early, Tentative,
         Disabling, memVars, settingVars, taskVars, historyVars
  <1>7. EnableOK'
    BY <1>1, Constants, Threads
       DEF Goto, IInv, TypeOK, MutexOK, EnableOK, UntouchedBy, WrittenBy, Locked, Enabling, Early,
         Tentative, Disabling, memVars, settingVars, taskVars, historyVars
  <1>8. InitOK'
    BY <1>1, Constants, Threads
       DEF Goto, IInv, TypeOK, MutexOK, InitOK, Locked, Enabling, Early, Tentative, Disabling, memVars,
         settingVars, taskVars, historyVars
  <1>9. GuardOK'
    BY <1>1, Constants, Threads
       DEF Goto, IInv, TypeOK, MutexOK, GuardOK, Locked, Enabling, Early, Tentative, Disabling, memVars,
         settingVars, taskVars, historyVars
  <1>10. WishOK'
    BY <1>1, Constants, Threads
       DEF Goto, IInv, TypeOK, MutexOK, WishOK, Waiting, Locked, Enabling, Early, Tentative, Disabling,
         memVars, settingVars, taskVars, historyVars
  <1>11. LeftOverOK'
    BY <1>1, Constants, Threads
       DEF Goto, IInv, TypeOK, MutexOK, WishOK, LeftOverOK, Waiting, Ours, Locked, Enabling, Early,
         Tentative, Disabling, memVars, settingVars, taskVars, historyVars
  <1>12. JournalOK'
    BY <1>1, Constants, Threads
       DEF Goto, IInv, TypeOK, LocalsOK, JournalOK, Enabling, Early, Tentative, Disabling, memVars,
         settingVars, taskVars, historyVars
  <1> QED
    BY <1>2, <1>3, <1>4, <1>5, <1>6, <1>7, <1>8, <1>9, <1>10, <1>11, <1>12 DEF IInv

LEMMA GuardRefusedKeeps ==
  ASSUME IInv, GuardRefused
  PROVE  IInv'
  <1>1. TypeOK'
    BY Constants, Threads
       DEF GuardRefused, Goto, IInv, TypeOK, LocalsOK, Places, Count, Enabling, Early, Tentative,
         Disabling, memVars, settingVars, taskVars, historyVars
  <1>2. MutexOK'
    BY Constants, Threads
       DEF GuardRefused, Goto, IInv, TypeOK, MutexOK, Locked, InitPlaces, UpdatePlaces, GuardPlaces,
         ExitPlaces, Enabling, Early, Tentative, Disabling, memVars, settingVars, taskVars,
         historyVars
  <1>3. LocalsOK'
    BY Constants, Threads
       DEF GuardRefused, Goto, IInv, TypeOK, MutexOK, LocalsOK, Locked, Enabling, Early, Tentative,
         Disabling, memVars, settingVars, taskVars, historyVars
  <1>4. WrittenOK'
    BY Constants, Threads
       DEF GuardRefused, Goto, IInv, NoOp, TypeOK, LocalsOK, WrittenOK, Enabling, Early, Tentative,
         Disabling, memVars, settingVars, taskVars, historyVars
  <1>5. HeldOK'
    BY Constants, Threads
       DEF GuardRefused, Goto, IInv, TypeOK, MutexOK, LocalsOK, HeldOK, Settled, Locked, Enabling, Early,
         Tentative, Disabling, memVars, settingVars, taskVars, historyVars
  <1>6. EnableOK'
    BY Constants, Threads
       DEF GuardRefused, Goto, IInv, TypeOK, MutexOK, EnableOK, UntouchedBy, WrittenBy, Locked, Enabling,
         Early, Tentative, Disabling, memVars, settingVars, taskVars, historyVars
  <1>7. InitOK'
    BY Constants, Threads
       DEF GuardRefused, Goto, IInv, TypeOK, MutexOK, InitOK, Locked, Enabling, Early, Tentative,
         Disabling, memVars, settingVars, taskVars, historyVars
  <1>8. GuardOK'
    BY Constants, Threads
       DEF GuardRefused, Goto, IInv, TypeOK, MutexOK, GuardOK, Locked, Enabling, Early, Tentative,
         Disabling, memVars, settingVars, taskVars, historyVars
  <1>9. WishOK'
    BY Constants, Threads
       DEF GuardRefused, Goto, IInv, TypeOK, MutexOK, WishOK, Waiting, Locked, Enabling, Early, Tentative,
         Disabling, memVars, settingVars, taskVars, historyVars
  <1>10. LeftOverOK'
    BY Constants, Threads
       DEF GuardRefused, Goto, IInv, TypeOK, MutexOK, WishOK, LeftOverOK, Waiting, Ours, Locked, Enabling,
         Early, Tentative, Disabling, memVars, settingVars, taskVars, historyVars
  <1>11. JournalOK'
    BY Constants, Threads
       DEF GuardRefused, Goto, IInv, TypeOK, LocalsOK, JournalOK, Enabling, Early, Tentative, Disabling,
         memVars, settingVars, taskVars, historyVars
  <1> QED
    BY <1>1, <1>2, <1>3, <1>4, <1>5, <1>6, <1>7, <1>8, <1>9, <1>10, <1>11 DEF IInv

LEMMA GuardAcquireKeeps ==
  ASSUME IInv, GuardAcquire
  PROVE  IInv'
  <1>1. TypeOK'
    BY Constants, Threads
       DEF GuardAcquire, Goto, StillEnabled, IInv, TypeOK, LocalsOK, Places, Count, Enabling, Early,
         Tentative, Disabling, memVars, settingVars, taskVars, historyVars
  <1>2. MutexOK'
    BY Constants, Threads
       DEF GuardAcquire, Goto, StillEnabled, IInv, TypeOK, MutexOK, Locked, InitPlaces, UpdatePlaces,
         GuardPlaces, ExitPlaces, Enabling, Early, Tentative, Disabling, memVars, settingVars,
         taskVars, historyVars
  <1>3. LocalsOK'
    BY Constants, Threads
       DEF GuardAcquire, Goto, StillEnabled, IInv, TypeOK, MutexOK, LocalsOK, Locked, Enabling, Early,
         Tentative, Disabling, memVars, settingVars, taskVars, historyVars
  <1>4. WrittenOK'
    BY Constants, Threads
       DEF GuardAcquire, Goto, StillEnabled, IInv, NoOp, TypeOK, LocalsOK, WrittenOK, Enabling, Early,
         Tentative, Disabling, memVars, settingVars, taskVars, historyVars
  <1>5. HeldOK'
    BY Constants, Threads
       DEF GuardAcquire, Goto, StillEnabled, IInv, TypeOK, MutexOK, LocalsOK, HeldOK, Settled, Locked,
         Enabling, Early, Tentative, Disabling, memVars, settingVars, taskVars, historyVars
  <1>6. EnableOK'
    BY Constants, Threads
       DEF GuardAcquire, Goto, StillEnabled, IInv, TypeOK, MutexOK, EnableOK, UntouchedBy, WrittenBy,
         Locked, Enabling, Early, Tentative, Disabling, memVars, settingVars, taskVars,
         historyVars
  <1>7. InitOK'
    BY Constants, Threads
       DEF GuardAcquire, Goto, StillEnabled, IInv, TypeOK, MutexOK, InitOK, Locked, Enabling, Early,
         Tentative, Disabling, memVars, settingVars, taskVars, historyVars
  <1>8. GuardOK'
    BY Constants, Threads
       DEF GuardAcquire, Goto, StillEnabled, IInv, TypeOK, MutexOK, GuardOK, Locked, Enabling, Early,
         Tentative, Disabling, memVars, settingVars, taskVars, historyVars
  <1>9. WishOK'
    BY Constants, Threads
       DEF GuardAcquire, Goto, StillEnabled, IInv, TypeOK, MutexOK, WishOK, Waiting, Locked, Enabling,
         Early, Tentative, Disabling, memVars, settingVars, taskVars, historyVars
  <1>10. LeftOverOK'
    BY Constants, Threads
       DEF GuardAcquire, Goto, StillEnabled, IInv, TypeOK, MutexOK, WishOK, LeftOverOK, Waiting, Ours,
         Locked, Enabling, Early, Tentative, Disabling, memVars, settingVars, taskVars,
         historyVars
  <1>11. JournalOK'
    BY Constants, Threads
       DEF GuardAcquire, Goto, StillEnabled, IInv, TypeOK, LocalsOK, JournalOK, Enabling, Early,
         Tentative, Disabling, memVars, settingVars, taskVars, historyVars
  <1> QED
    BY <1>1, <1>2, <1>3, <1>4, <1>5, <1>6, <1>7, <1>8, <1>9, <1>10, <1>11 DEF IInv

LEMMA GuardSetKeeps ==
  ASSUME IInv, GuardSet
  PROVE  IInv'
  <1>1. TypeOK'
    BY Constants, Threads, OnIsSnapshot
       DEF GuardSet, Goto, IInv, TypeOK, LocalsOK, Places, Count, Enabling, Early, Tentative, Disabling,
         memVars, settingVars, taskVars, historyVars
  <1>2. MutexOK'
    BY Constants, Threads, OnIsSnapshot
       DEF GuardSet, Goto, IInv, TypeOK, MutexOK, Locked, InitPlaces, UpdatePlaces, GuardPlaces,
         ExitPlaces, Enabling, Early, Tentative, Disabling, memVars, settingVars, taskVars,
         historyVars
  <1>3. LocalsOK'
    BY Constants, Threads, OnIsSnapshot
       DEF GuardSet, Goto, IInv, TypeOK, MutexOK, LocalsOK, Locked, Enabling, Early, Tentative, Disabling,
         memVars, settingVars, taskVars, historyVars
  <1>4. WrittenOK'
    BY Constants, Threads, OnIsSnapshot
       DEF GuardSet, Goto, IInv, NoOp, TypeOK, LocalsOK, WrittenOK, Enabling, Early, Tentative, Disabling,
         memVars, settingVars, taskVars, historyVars
  <1>5. HeldOK'
    BY Constants, Threads, OnIsSnapshot
       DEF GuardSet, Goto, IInv, TypeOK, MutexOK, LocalsOK, HeldOK, Settled, Locked, Enabling, Early,
         Tentative, Disabling, memVars, settingVars, taskVars, historyVars
  <1>6. EnableOK'
    BY Constants, Threads, OnIsSnapshot
       DEF GuardSet, Goto, IInv, TypeOK, MutexOK, EnableOK, UntouchedBy, WrittenBy, Locked, Enabling,
         Early, Tentative, Disabling, memVars, settingVars, taskVars, historyVars
  <1>7. InitOK'
    BY Constants, Threads, OnIsSnapshot
       DEF GuardSet, Goto, IInv, TypeOK, MutexOK, InitOK, Locked, Enabling, Early, Tentative, Disabling,
         memVars, settingVars, taskVars, historyVars
  <1>8. GuardOK'
    BY Constants, Threads, OnIsSnapshot
       DEF GuardSet, Goto, IInv, TypeOK, MutexOK, GuardOK, Locked, Enabling, Early, Tentative, Disabling,
         memVars, settingVars, taskVars, historyVars
  <1>9. WishOK'
    BY Constants, Threads, OnIsSnapshot
       DEF GuardSet, Goto, IInv, TypeOK, MutexOK, WishOK, Waiting, Locked, Enabling, Early, Tentative,
         Disabling, memVars, settingVars, taskVars, historyVars
  <1>10. LeftOverOK'
    BY Constants, Threads, OnIsSnapshot
       DEF GuardSet, Goto, IInv, TypeOK, MutexOK, WishOK, LeftOverOK, Waiting, Ours, Locked, Enabling,
         Early, Tentative, Disabling, memVars, settingVars, taskVars, historyVars
  <1>11. JournalOK'
    BY Constants, Threads, OnIsSnapshot
       DEF GuardSet, Goto, IInv, TypeOK, LocalsOK, JournalOK, Enabling, Early, Tentative, Disabling,
         memVars, settingVars, taskVars, historyVars
  <1> QED
    BY <1>1, <1>2, <1>3, <1>4, <1>5, <1>6, <1>7, <1>8, <1>9, <1>10, <1>11 DEF IInv

LEMMA GuardSetErrKeeps ==
  ASSUME IInv, GuardSetErr
  PROVE  IInv'
  <1>1. TypeOK'
    BY Constants, Threads
       DEF GuardSetErr, Goto, Fault, Event, IInv, TypeOK, LocalsOK, Places, Count, Enabling, Early,
         Tentative, Disabling, memVars, settingVars, taskVars, historyVars
  <1>2. MutexOK'
    BY Constants, Threads
       DEF GuardSetErr, Goto, Fault, Event, IInv, TypeOK, MutexOK, Locked, InitPlaces, UpdatePlaces,
         GuardPlaces, ExitPlaces, Enabling, Early, Tentative, Disabling, memVars, settingVars,
         taskVars, historyVars
  <1>3. LocalsOK'
    BY Constants, Threads
       DEF GuardSetErr, Goto, Fault, Event, IInv, TypeOK, MutexOK, LocalsOK, Locked, Enabling, Early,
         Tentative, Disabling, memVars, settingVars, taskVars, historyVars
  <1>4. WrittenOK'
    BY Constants, Threads
       DEF GuardSetErr, Goto, Fault, Event, IInv, NoOp, TypeOK, LocalsOK, WrittenOK, Enabling, Early,
         Tentative, Disabling, memVars, settingVars, taskVars, historyVars
  <1>5. HeldOK'
    BY Constants, Threads
       DEF GuardSetErr, Goto, Fault, Event, IInv, TypeOK, MutexOK, LocalsOK, HeldOK, Settled, Locked,
         Enabling, Early, Tentative, Disabling, memVars, settingVars, taskVars, historyVars
  <1>6. EnableOK'
    BY Constants, Threads
       DEF GuardSetErr, Goto, Fault, Event, IInv, TypeOK, MutexOK, EnableOK, UntouchedBy, WrittenBy,
         Locked, Enabling, Early, Tentative, Disabling, memVars, settingVars, taskVars,
         historyVars
  <1>7. InitOK'
    BY Constants, Threads
       DEF GuardSetErr, Goto, Fault, Event, IInv, TypeOK, MutexOK, InitOK, Locked, Enabling, Early,
         Tentative, Disabling, memVars, settingVars, taskVars, historyVars
  <1>8. GuardOK'
    BY Constants, Threads
       DEF GuardSetErr, Goto, Fault, Event, IInv, TypeOK, MutexOK, GuardOK, Locked, Enabling, Early,
         Tentative, Disabling, memVars, settingVars, taskVars, historyVars
  <1>9. WishOK'
    BY Constants, Threads
       DEF GuardSetErr, Goto, Fault, Event, IInv, TypeOK, MutexOK, WishOK, Waiting, Locked, Enabling,
         Early, Tentative, Disabling, memVars, settingVars, taskVars, historyVars
  <1>10. LeftOverOK'
    BY Constants, Threads
       DEF GuardSetErr, Goto, Fault, Event, IInv, TypeOK, MutexOK, WishOK, LeftOverOK, Waiting, Ours,
         Locked, Enabling, Early, Tentative, Disabling, memVars, settingVars, taskVars,
         historyVars
  <1>11. JournalOK'
    BY Constants, Threads
       DEF GuardSetErr, Goto, Fault, Event, IInv, TypeOK, LocalsOK, JournalOK, Enabling, Early, Tentative,
         Disabling, memVars, settingVars, taskVars, historyVars
  <1> QED
    BY <1>1, <1>2, <1>3, <1>4, <1>5, <1>6, <1>7, <1>8, <1>9, <1>10, <1>11 DEF IInv

LEMMA GuardOwnKeeps ==
  ASSUME IInv, GuardOwn
  PROVE  IInv'
  <1>1. owned_windows_proxy # None => Refreshed \in Snapshots
    BY DEF IInv, TypeOK, Snapshots, Refreshed
  <1>2. guard_target \in Targets /\ (~spoiled => registry = On(guard_target))
    BY DEF IInv, GuardOwn, LocalsOK, GuardOK
  <1>3. owned_windows_proxy # None /\ ~spoiled =>
         Refreshed = registry /\ registry \in Writes
    <2>1. SUFFICES ASSUME owned_windows_proxy # None, ~spoiled
                   PROVE  /\ Refreshed = registry
                          /\ registry \in Writes
      OBVIOUS
    <2>2. registry \in Snapshots /\ owned_windows_proxy.pac = registry.pac
      <3>1. owned_windows_proxy.pac = FALSE
        BY <2>1, WritesAreSnapshots DEF IInv, WrittenOK, Snapshots
      <3>2. registry \in Snapshots /\ registry.pac = FALSE
        BY <2>1, <1>2 DEF IInv, TypeOK, On
      <3> QED
        BY <3>1, <3>2
    <2> QED
      BY <1>2, <2>1, <2>2, SamePac, OnIsSnapshot DEF Refreshed
  <1>4. /\ owned_windows_proxy' \in Snapshots \cup {None} /\ journal' \in Phases \cup {None}
       /\ (owned_windows_proxy' = None <=> owned_windows_proxy = None)
       /\ (journal' = None <=> journal = None)
    BY <1>1, <1>2, Recorded, Constants DEF IInv, TypeOK, GuardOwn
  <1>5. ~spoiled /\ owned_windows_proxy # None => owned_windows_proxy' = registry /\ registry \in Writes
    BY <1>3 DEF GuardOwn
  <1>6. TypeOK'
    BY Constants, Threads, <1>4
       DEF GuardOwn, Goto, Fault, Event, Count, IInv, TypeOK, LocalsOK, Places, Enabling, Early,
         Tentative, Disabling, memVars, settingVars, taskVars, historyVars
  <1>7. MutexOK'
    BY Constants, Threads
       DEF GuardOwn, Goto, Fault, Event, Count, IInv, TypeOK, MutexOK, Locked, InitPlaces, UpdatePlaces,
         GuardPlaces, ExitPlaces, Enabling, Early, Tentative, Disabling, memVars, settingVars,
         taskVars, historyVars
  <1>8. LocalsOK'
    BY Constants, Threads, <1>4
       DEF GuardOwn, Goto, Fault, Event, Count, IInv, TypeOK, MutexOK, LocalsOK, Locked, Enabling, Early,
         Tentative, Disabling, memVars, settingVars, taskVars, historyVars
  <1>9. WrittenOK'
    BY Constants, Threads, <1>5, <1>4
       DEF GuardOwn, Goto, Fault, Event, Count, IInv, NoOp, TypeOK, LocalsOK, WrittenOK, Enabling, Early,
         Tentative, Disabling, memVars, settingVars, taskVars, historyVars
  <1>10. HeldOK'
    BY Constants, Threads, <1>4, <1>5
       DEF GuardOwn, Goto, Fault, Event, Count, IInv, TypeOK, MutexOK, LocalsOK, HeldOK, Settled, Locked,
         Enabling, Early, Tentative, Disabling, memVars, settingVars, taskVars, historyVars,
         GuardOK
  <1>11. EnableOK'
    BY Constants, Threads
       DEF GuardOwn, Goto, Fault, Event, Count, IInv, TypeOK, MutexOK, EnableOK, UntouchedBy, WrittenBy,
         Locked, Enabling, Early, Tentative, Disabling, memVars, settingVars, taskVars,
         historyVars
  <1>12. InitOK'
    BY Constants, Threads
       DEF GuardOwn, Goto, Fault, Event, Count, IInv, TypeOK, MutexOK, InitOK, Locked, Enabling, Early,
         Tentative, Disabling, memVars, settingVars, taskVars, historyVars
  <1>13. GuardOK'
    BY Constants, Threads
       DEF GuardOwn, Goto, Fault, Event, Count, IInv, TypeOK, MutexOK, GuardOK, Locked, Enabling, Early,
         Tentative, Disabling, memVars, settingVars, taskVars, historyVars
  <1>14. WishOK'
    BY Constants, Threads
       DEF GuardOwn, Goto, Fault, Event, Count, IInv, TypeOK, MutexOK, WishOK, Waiting, Locked, Enabling,
         Early, Tentative, Disabling, memVars, settingVars, taskVars, historyVars
  <1>15. LeftOverOK'
    BY Constants, Threads
       DEF GuardOwn, Goto, Fault, Event, Count, IInv, TypeOK, MutexOK, WishOK, LeftOverOK, Waiting, Ours,
         Locked, Enabling, Early, Tentative, Disabling, memVars, settingVars, taskVars,
         historyVars
  <1>16. JournalOK'
    <2>1. journal' # journal => journal' = None \/ journal' = RecordOwned(Refreshed, guard_target)
      BY DEF GuardOwn
    <2>2. journal' # journal /\ journal' # None =>
               journal'.phase = "owned" /\ journal'.owned = Refreshed
      BY <2>1, OwnedFields
    <2>3. journal' # journal => Refreshed \in Snapshots
      BY <1>1 DEF GuardOwn
    <2> QED
      BY <2>1, <2>2, <2>3, Constants DEF IInv, JournalOK
  <1> QED
    BY <1>6, <1>7, <1>8, <1>9, <1>10, <1>11, <1>12, <1>13, <1>14, <1>15, <1>16 DEF IInv

LEMMA GuardReturnKeeps ==
  ASSUME IInv, GuardReturn
  PROVE  IInv'
  <1>1. TypeOK'
    BY Constants, Threads
       DEF GuardReturn, Goto, IInv, TypeOK, LocalsOK, Places, Count, Enabling, Early, Tentative,
         Disabling, memVars, settingVars, taskVars, historyVars
  <1>2. MutexOK'
    BY Constants, Threads
       DEF GuardReturn, Goto, IInv, TypeOK, MutexOK, Locked, InitPlaces, UpdatePlaces, GuardPlaces,
         ExitPlaces, Enabling, Early, Tentative, Disabling, memVars, settingVars, taskVars,
         historyVars
  <1>3. LocalsOK'
    BY Constants, Threads
       DEF GuardReturn, Goto, IInv, TypeOK, MutexOK, LocalsOK, Locked, Enabling, Early, Tentative,
         Disabling, memVars, settingVars, taskVars, historyVars
  <1>4. WrittenOK'
    BY Constants, Threads
       DEF GuardReturn, Goto, IInv, NoOp, TypeOK, LocalsOK, WrittenOK, Enabling, Early, Tentative,
         Disabling, memVars, settingVars, taskVars, historyVars
  <1>5. HeldOK'
    BY Constants, Threads
       DEF GuardReturn, Goto, IInv, TypeOK, MutexOK, LocalsOK, HeldOK, Settled, Locked, Enabling, Early,
         Tentative, Disabling, memVars, settingVars, taskVars, historyVars
  <1>6. EnableOK'
    BY Constants, Threads
       DEF GuardReturn, Goto, IInv, TypeOK, MutexOK, EnableOK, UntouchedBy, WrittenBy, Locked, Enabling,
         Early, Tentative, Disabling, memVars, settingVars, taskVars, historyVars
  <1>7. InitOK'
    BY Constants, Threads
       DEF GuardReturn, Goto, IInv, TypeOK, MutexOK, InitOK, Locked, Enabling, Early, Tentative,
         Disabling, memVars, settingVars, taskVars, historyVars
  <1>8. GuardOK'
    BY Constants, Threads
       DEF GuardReturn, Goto, IInv, TypeOK, MutexOK, GuardOK, Locked, Enabling, Early, Tentative,
         Disabling, memVars, settingVars, taskVars, historyVars
  <1>9. WishOK'
    BY Constants, Threads
       DEF GuardReturn, Goto, IInv, TypeOK, MutexOK, WishOK, Waiting, Locked, Enabling, Early, Tentative,
         Disabling, memVars, settingVars, taskVars, historyVars
  <1>10. LeftOverOK'
    BY Constants, Threads
       DEF GuardReturn, Goto, IInv, TypeOK, MutexOK, WishOK, LeftOverOK, Waiting, Ours, Locked, Enabling,
         Early, Tentative, Disabling, memVars, settingVars, taskVars, historyVars
  <1>11. JournalOK'
    BY Constants, Threads
       DEF GuardReturn, Goto, IInv, TypeOK, LocalsOK, JournalOK, Enabling, Early, Tentative, Disabling,
         memVars, settingVars, taskVars, historyVars
  <1> QED
    BY <1>1, <1>2, <1>3, <1>4, <1>5, <1>6, <1>7, <1>8, <1>9, <1>10, <1>11 DEF IInv

LEMMA ExitBeginKeeps ==
  ASSUME IInv, ExitBegin
  PROVE  IInv'
  <1>1. TypeOK'
    BY Constants, Threads
       DEF ExitBegin, Goto, IInv, TypeOK, LocalsOK, Places, Count, Enabling, Early, Tentative, Disabling,
         memVars, settingVars, taskVars, historyVars
  <1>2. MutexOK'
    BY Constants, Threads
       DEF ExitBegin, Goto, IInv, TypeOK, MutexOK, Locked, InitPlaces, UpdatePlaces, GuardPlaces,
         ExitPlaces, Enabling, Early, Tentative, Disabling, memVars, settingVars, taskVars,
         historyVars
  <1>3. LocalsOK'
    BY Constants, Threads
       DEF ExitBegin, Goto, IInv, TypeOK, MutexOK, LocalsOK, Locked, Enabling, Early, Tentative,
         Disabling, memVars, settingVars, taskVars, historyVars
  <1>4. WrittenOK'
    BY Constants, Threads
       DEF ExitBegin, Goto, IInv, NoOp, TypeOK, LocalsOK, WrittenOK, Enabling, Early, Tentative,
         Disabling, memVars, settingVars, taskVars, historyVars
  <1>5. HeldOK'
    BY Constants, Threads
       DEF ExitBegin, Goto, IInv, TypeOK, MutexOK, LocalsOK, HeldOK, Settled, Locked, Enabling, Early,
         Tentative, Disabling, memVars, settingVars, taskVars, historyVars
  <1>6. EnableOK'
    BY Constants, Threads
       DEF ExitBegin, Goto, IInv, TypeOK, MutexOK, EnableOK, UntouchedBy, WrittenBy, Locked, Enabling,
         Early, Tentative, Disabling, memVars, settingVars, taskVars, historyVars
  <1>7. InitOK'
    BY Constants, Threads
       DEF ExitBegin, Goto, IInv, TypeOK, MutexOK, InitOK, Locked, Enabling, Early, Tentative, Disabling,
         memVars, settingVars, taskVars, historyVars
  <1>8. GuardOK'
    BY Constants, Threads
       DEF ExitBegin, Goto, IInv, TypeOK, MutexOK, GuardOK, Locked, Enabling, Early, Tentative, Disabling,
         memVars, settingVars, taskVars, historyVars
  <1>9. WishOK'
    BY Constants, Threads
       DEF ExitBegin, Goto, IInv, TypeOK, MutexOK, WishOK, Waiting, Locked, Enabling, Early, Tentative,
         Disabling, memVars, settingVars, taskVars, historyVars
  <1>10. LeftOverOK'
    BY Constants, Threads
       DEF ExitBegin, Goto, IInv, TypeOK, MutexOK, WishOK, LeftOverOK, Waiting, Ours, Locked, Enabling,
         Early, Tentative, Disabling, memVars, settingVars, taskVars, historyVars
  <1>11. JournalOK'
    BY Constants, Threads
       DEF ExitBegin, Goto, IInv, TypeOK, LocalsOK, JournalOK, Enabling, Early, Tentative, Disabling,
         memVars, settingVars, taskVars, historyVars
  <1> QED
    BY <1>1, <1>2, <1>3, <1>4, <1>5, <1>6, <1>7, <1>8, <1>9, <1>10, <1>11 DEF IInv

LEMMA ResetAcquireKeeps ==
  ASSUME IInv, ResetAcquire
  PROVE  IInv'
  <1>1. TypeOK'
    BY Constants, Threads
       DEF ResetAcquire, Goto, IInv, TypeOK, LocalsOK, Places, Count, Enabling, Early, Tentative,
         Disabling, memVars, settingVars, taskVars, historyVars
  <1>2. MutexOK'
    BY Constants, Threads
       DEF ResetAcquire, Goto, IInv, TypeOK, MutexOK, Locked, InitPlaces, UpdatePlaces, GuardPlaces,
         ExitPlaces, Enabling, Early, Tentative, Disabling, memVars, settingVars, taskVars,
         historyVars
  <1>3. LocalsOK'
    BY Constants, Threads
       DEF ResetAcquire, Goto, IInv, TypeOK, MutexOK, LocalsOK, Locked, Enabling, Early, Tentative,
         Disabling, memVars, settingVars, taskVars, historyVars
  <1>4. WrittenOK'
    BY Constants, Threads
       DEF ResetAcquire, Goto, IInv, NoOp, TypeOK, LocalsOK, WrittenOK, Enabling, Early, Tentative,
         Disabling, memVars, settingVars, taskVars, historyVars
  <1>5. HeldOK'
    BY Constants, Threads
       DEF ResetAcquire, Goto, IInv, TypeOK, MutexOK, LocalsOK, HeldOK, Settled, Locked, Enabling, Early,
         Tentative, Disabling, memVars, settingVars, taskVars, historyVars
  <1>6. EnableOK'
    BY Constants, Threads
       DEF ResetAcquire, Goto, IInv, TypeOK, MutexOK, EnableOK, UntouchedBy, WrittenBy, Locked, Enabling,
         Early, Tentative, Disabling, memVars, settingVars, taskVars, historyVars
  <1>7. InitOK'
    BY Constants, Threads
       DEF ResetAcquire, Goto, IInv, TypeOK, MutexOK, InitOK, Locked, Enabling, Early, Tentative,
         Disabling, memVars, settingVars, taskVars, historyVars
  <1>8. GuardOK'
    BY Constants, Threads
       DEF ResetAcquire, Goto, IInv, TypeOK, MutexOK, GuardOK, Locked, Enabling, Early, Tentative,
         Disabling, memVars, settingVars, taskVars, historyVars
  <1>9. WishOK'
    BY Constants, Threads
       DEF ResetAcquire, Goto, IInv, TypeOK, MutexOK, WishOK, Waiting, Locked, Enabling, Early, Tentative,
         Disabling, memVars, settingVars, taskVars, historyVars
  <1>10. LeftOverOK'
    BY Constants, Threads
       DEF ResetAcquire, Goto, IInv, TypeOK, MutexOK, WishOK, LeftOverOK, Waiting, Ours, Locked, Enabling,
         Early, Tentative, Disabling, memVars, settingVars, taskVars, historyVars
  <1>11. JournalOK'
    BY Constants, Threads
       DEF ResetAcquire, Goto, IInv, TypeOK, LocalsOK, JournalOK, Enabling, Early, Tentative, Disabling,
         memVars, settingVars, taskVars, historyVars
  <1> QED
    BY <1>1, <1>2, <1>3, <1>4, <1>5, <1>6, <1>7, <1>8, <1>9, <1>10, <1>11 DEF IInv

LEMMA ResetRestoreKeeps ==
  ASSUME IInv, ResetRestore
  PROVE  IInv'
  <1>1. TypeOK'
    BY Constants, Threads, RestoredValues, OffIsSnapshot
       DEF ResetRestore, Goto, TakeSnapshots, IInv, TypeOK, LocalsOK, Places, Count, Enabling, Early,
         Tentative, Disabling, memVars, settingVars, taskVars, historyVars, ResetValues
  <1>2. MutexOK'
    BY Constants, Threads
       DEF ResetRestore, Goto, TakeSnapshots, IInv, TypeOK, MutexOK, Locked, InitPlaces, UpdatePlaces,
         GuardPlaces, ExitPlaces, Enabling, Early, Tentative, Disabling, memVars, settingVars,
         taskVars, historyVars
  <1>3. LocalsOK'
    BY Constants, Threads
       DEF ResetRestore, Goto, TakeSnapshots, IInv, TypeOK, MutexOK, LocalsOK, Locked, Enabling, Early,
         Tentative, Disabling, memVars, settingVars, taskVars, historyVars
  <1>4. WrittenOK'
    BY Constants, Threads
       DEF ResetRestore, Goto, TakeSnapshots, IInv, NoOp, TypeOK, LocalsOK, WrittenOK, Enabling, Early,
         Tentative, Disabling, memVars, settingVars, taskVars, historyVars
  <1>5. HeldOK'
    BY Constants, Threads
       DEF ResetRestore, Goto, TakeSnapshots, IInv, TypeOK, MutexOK, LocalsOK, HeldOK, Settled, Locked,
         Enabling, Early, Tentative, Disabling, memVars, settingVars, taskVars, historyVars
  <1>6. EnableOK'
    BY Constants, Threads
       DEF ResetRestore, Goto, TakeSnapshots, IInv, TypeOK, MutexOK, EnableOK, UntouchedBy, WrittenBy,
         Locked, Enabling, Early, Tentative, Disabling, memVars, settingVars, taskVars,
         historyVars
  <1>7. InitOK'
    BY Constants, Threads
       DEF ResetRestore, Goto, TakeSnapshots, IInv, TypeOK, MutexOK, InitOK, Locked, Enabling, Early,
         Tentative, Disabling, memVars, settingVars, taskVars, historyVars
  <1>8. GuardOK'
    BY Constants, Threads
       DEF ResetRestore, Goto, TakeSnapshots, IInv, TypeOK, MutexOK, GuardOK, Locked, Enabling, Early,
         Tentative, Disabling, memVars, settingVars, taskVars, historyVars
  <1>9. WishOK'
    BY Constants, Threads
       DEF ResetRestore, Goto, TakeSnapshots, IInv, TypeOK, MutexOK, WishOK, Waiting, Locked, Enabling,
         Early, Tentative, Disabling, memVars, settingVars, taskVars, historyVars
  <1>10. LeftOverOK'
    BY Constants, Threads
       DEF ResetRestore, Goto, TakeSnapshots, IInv, TypeOK, MutexOK, WishOK, LeftOverOK, Waiting, Ours,
         Locked, Enabling, Early, Tentative, Disabling, memVars, settingVars, taskVars,
         historyVars
  <1>11. JournalOK'
    BY Constants, Threads
       DEF ResetRestore, Goto, TakeSnapshots, IInv, TypeOK, LocalsOK, JournalOK, Enabling, Early,
         Tentative, Disabling, memVars, settingVars, taskVars, historyVars
  <1> QED
    BY <1>1, <1>2, <1>3, <1>4, <1>5, <1>6, <1>7, <1>8, <1>9, <1>10, <1>11 DEF IInv

LEMMA ResetErrKeeps ==
  ASSUME IInv, ResetErr
  PROVE  IInv'
  <1>1. TypeOK'
    BY Constants, Threads
       DEF ResetErr, Goto, TakeSnapshots, Fault, Event, IInv, TypeOK, LocalsOK, Places, Count, Enabling,
         Early, Tentative, Disabling, memVars, settingVars, taskVars, historyVars
  <1>2. MutexOK'
    BY Constants, Threads
       DEF ResetErr, Goto, TakeSnapshots, Fault, Event, IInv, TypeOK, MutexOK, Locked, InitPlaces,
         UpdatePlaces, GuardPlaces, ExitPlaces, Enabling, Early, Tentative, Disabling, memVars,
         settingVars, taskVars, historyVars
  <1>3. LocalsOK'
    BY Constants, Threads
       DEF ResetErr, Goto, TakeSnapshots, Fault, Event, IInv, TypeOK, MutexOK, LocalsOK, Locked, Enabling,
         Early, Tentative, Disabling, memVars, settingVars, taskVars, historyVars
  <1>4. WrittenOK'
    BY Constants, Threads
       DEF ResetErr, Goto, TakeSnapshots, Fault, Event, IInv, NoOp, TypeOK, LocalsOK, WrittenOK, Enabling,
         Early, Tentative, Disabling, memVars, settingVars, taskVars, historyVars
  <1>5. HeldOK'
    BY Constants, Threads
       DEF ResetErr, Goto, TakeSnapshots, Fault, Event, IInv, TypeOK, MutexOK, LocalsOK, HeldOK, Settled,
         Locked, Enabling, Early, Tentative, Disabling, memVars, settingVars, taskVars,
         historyVars
  <1>6. EnableOK'
    BY Constants, Threads
       DEF ResetErr, Goto, TakeSnapshots, Fault, Event, IInv, TypeOK, MutexOK, EnableOK, UntouchedBy,
         WrittenBy, Locked, Enabling, Early, Tentative, Disabling, memVars, settingVars,
         taskVars, historyVars
  <1>7. InitOK'
    BY Constants, Threads
       DEF ResetErr, Goto, TakeSnapshots, Fault, Event, IInv, TypeOK, MutexOK, InitOK, Locked, Enabling,
         Early, Tentative, Disabling, memVars, settingVars, taskVars, historyVars
  <1>8. GuardOK'
    BY Constants, Threads
       DEF ResetErr, Goto, TakeSnapshots, Fault, Event, IInv, TypeOK, MutexOK, GuardOK, Locked, Enabling,
         Early, Tentative, Disabling, memVars, settingVars, taskVars, historyVars
  <1>9. WishOK'
    BY Constants, Threads
       DEF ResetErr, Goto, TakeSnapshots, Fault, Event, IInv, TypeOK, MutexOK, WishOK, Waiting, Locked,
         Enabling, Early, Tentative, Disabling, memVars, settingVars, taskVars, historyVars
  <1>10. LeftOverOK'
    BY Constants, Threads
       DEF ResetErr, Goto, TakeSnapshots, Fault, Event, IInv, TypeOK, MutexOK, WishOK, LeftOverOK,
         Waiting, Ours, Locked, Enabling, Early, Tentative, Disabling, memVars, settingVars,
         taskVars, historyVars
  <1>11. JournalOK'
    BY Constants, Threads
       DEF ResetErr, Goto, TakeSnapshots, Fault, Event, IInv, TypeOK, LocalsOK, JournalOK, Enabling,
         Early, Tentative, Disabling, memVars, settingVars, taskVars, historyVars
  <1> QED
    BY <1>1, <1>2, <1>3, <1>4, <1>5, <1>6, <1>7, <1>8, <1>9, <1>10, <1>11 DEF IInv

LEMMA ResetClearKeeps ==
  ASSUME IInv, ResetClear
  PROVE  IInv'
  <1>1. TypeOK'
    BY Constants, Threads
       DEF ResetClear, Goto, IInv, TypeOK, LocalsOK, Places, Count, Enabling, Early, Tentative, Disabling,
         memVars, settingVars, taskVars, historyVars
  <1>2. MutexOK'
    BY Constants, Threads
       DEF ResetClear, Goto, IInv, TypeOK, MutexOK, Locked, InitPlaces, UpdatePlaces, GuardPlaces,
         ExitPlaces, Enabling, Early, Tentative, Disabling, memVars, settingVars, taskVars,
         historyVars
  <1>3. LocalsOK'
    BY Constants, Threads
       DEF ResetClear, Goto, IInv, TypeOK, MutexOK, LocalsOK, Locked, Enabling, Early, Tentative,
         Disabling, memVars, settingVars, taskVars, historyVars
  <1>4. WrittenOK'
    BY Constants, Threads
       DEF ResetClear, Goto, IInv, NoOp, TypeOK, LocalsOK, WrittenOK, Enabling, Early, Tentative,
         Disabling, memVars, settingVars, taskVars, historyVars
  <1>5. HeldOK'
    BY Constants, Threads
       DEF ResetClear, Goto, IInv, TypeOK, MutexOK, LocalsOK, HeldOK, Settled, Locked, Enabling, Early,
         Tentative, Disabling, memVars, settingVars, taskVars, historyVars
  <1>6. EnableOK'
    BY Constants, Threads
       DEF ResetClear, Goto, IInv, TypeOK, MutexOK, EnableOK, UntouchedBy, WrittenBy, Locked, Enabling,
         Early, Tentative, Disabling, memVars, settingVars, taskVars, historyVars
  <1>7. InitOK'
    BY Constants, Threads
       DEF ResetClear, Goto, IInv, TypeOK, MutexOK, InitOK, Locked, Enabling, Early, Tentative, Disabling,
         memVars, settingVars, taskVars, historyVars
  <1>8. GuardOK'
    BY Constants, Threads
       DEF ResetClear, Goto, IInv, TypeOK, MutexOK, GuardOK, Locked, Enabling, Early, Tentative,
         Disabling, memVars, settingVars, taskVars, historyVars
  <1>9. WishOK'
    BY Constants, Threads
       DEF ResetClear, Goto, IInv, TypeOK, MutexOK, WishOK, Waiting, Locked, Enabling, Early, Tentative,
         Disabling, memVars, settingVars, taskVars, historyVars
  <1>10. LeftOverOK'
    BY Constants, Threads
       DEF ResetClear, Goto, IInv, TypeOK, MutexOK, WishOK, LeftOverOK, Waiting, Ours, Locked, Enabling,
         Early, Tentative, Disabling, memVars, settingVars, taskVars, historyVars
  <1>11. JournalOK'
    BY Constants, Threads
       DEF ResetClear, Goto, IInv, TypeOK, LocalsOK, JournalOK, Enabling, Early, Tentative, Disabling,
         memVars, settingVars, taskVars, historyVars
  <1> QED
    BY <1>1, <1>2, <1>3, <1>4, <1>5, <1>6, <1>7, <1>8, <1>9, <1>10, <1>11 DEF IInv

LEMMA ProcessEndsKeeps ==
  ASSUME IInv, ProcessEnds
  PROVE  IInv'
  <1>1. TypeOK'
    BY Constants, Threads, BegunLocals
       DEF ProcessEnds, Event, IInv, TypeOK, LocalsOK, Places, Count, Enabling, Early, Tentative,
         Disabling, memVars, settingVars, taskVars, historyVars, NoOp
  <1>2. MutexOK'
    BY Constants, Threads
       DEF ProcessEnds, Event, IInv, TypeOK, MutexOK, Locked, InitPlaces, UpdatePlaces, GuardPlaces,
         ExitPlaces, Enabling, Early, Tentative, Disabling, memVars, settingVars, taskVars,
         historyVars
  <1>3. LocalsOK'
    BY Constants, Threads
       DEF ProcessEnds, Event, IInv, TypeOK, MutexOK, LocalsOK, Locked, Enabling, Early, Tentative,
         Disabling, memVars, settingVars, taskVars, historyVars
  <1>4. WrittenOK'
    BY Constants, Threads
       DEF ProcessEnds, Event, IInv, NoOp, TypeOK, LocalsOK, WrittenOK, Enabling, Early, Tentative,
         Disabling, memVars, settingVars, taskVars, historyVars, Begun
  <1>5. HeldOK'
    BY Constants, Threads
       DEF ProcessEnds, Event, IInv, TypeOK, MutexOK, LocalsOK, HeldOK, Settled, Locked, Enabling, Early,
         Tentative, Disabling, memVars, settingVars, taskVars, historyVars
  <1>6. EnableOK'
    BY Constants, Threads
       DEF ProcessEnds, Event, IInv, TypeOK, MutexOK, EnableOK, UntouchedBy, WrittenBy, Locked, Enabling,
         Early, Tentative, Disabling, memVars, settingVars, taskVars, historyVars
  <1>7. InitOK'
    BY Constants, Threads
       DEF ProcessEnds, Event, IInv, TypeOK, MutexOK, InitOK, Locked, Enabling, Early, Tentative,
         Disabling, memVars, settingVars, taskVars, historyVars
  <1>8. GuardOK'
    BY Constants, Threads
       DEF ProcessEnds, Event, IInv, TypeOK, MutexOK, GuardOK, Locked, Enabling, Early, Tentative,
         Disabling, memVars, settingVars, taskVars, historyVars
  <1>9. WishOK'
    BY Constants, Threads
       DEF ProcessEnds, Event, IInv, TypeOK, MutexOK, WishOK, Waiting, Locked, Enabling, Early, Tentative,
         Disabling, memVars, settingVars, taskVars, historyVars
  <1>10. LeftOverOK'
    BY Constants, Threads
       DEF ProcessEnds, Event, IInv, TypeOK, MutexOK, WishOK, LeftOverOK, Waiting, Ours, Locked, Enabling,
         Early, Tentative, Disabling, memVars, settingVars, taskVars, historyVars
  <1>11. JournalOK'
    BY Constants, Threads
       DEF ProcessEnds, Event, IInv, TypeOK, LocalsOK, JournalOK, Enabling, Early, Tentative, Disabling,
         memVars, settingVars, taskVars, historyVars
  <1> QED
    BY <1>1, <1>2, <1>3, <1>4, <1>5, <1>6, <1>7, <1>8, <1>9, <1>10, <1>11 DEF IInv

LEMMA ExternalKeeps ==
  ASSUME IInv, External
  PROVE  IInv'
  <1>1. registry' \in Snapshots /\ (registry'.server = registry.server \/ registry'.server = User)
    <2>1. PICK new \in {[on |-> TRUE, server |-> User, pac |-> registry.pac],
                         [registry EXCEPT !.on = ~@], [registry EXCEPT !.pac = ~@]} :
               registry' = new
      BY DEF External
    <2> QED
      BY <2>1, OthersValues DEF IInv, TypeOK
  <1>2. OnTarget(registry') /\ ~spoiled' => OnTarget(registry)
    BY <1>1, Constants DEF External, OnTarget
  <1>3. TypeOK'
    BY <1>1, Constants, Threads
       DEF External, Event, IInv, TypeOK, LocalsOK, Places, Count, Enabling, Early, Tentative, Disabling,
         memVars, settingVars, taskVars, historyVars
  <1>4. MutexOK'
    BY <1>1, Constants, Threads
       DEF External, Event, IInv, TypeOK, MutexOK, Locked, InitPlaces, UpdatePlaces, GuardPlaces,
         ExitPlaces, Enabling, Early, Tentative, Disabling, memVars, settingVars, taskVars,
         historyVars
  <1>5. LocalsOK'
    BY <1>1, Constants, Threads
       DEF External, Event, IInv, TypeOK, MutexOK, LocalsOK, Locked, Enabling, Early, Tentative,
         Disabling, memVars, settingVars, taskVars, historyVars
  <1>6. WrittenOK'
    BY <1>1, Constants, Threads
       DEF External, Event, IInv, NoOp, TypeOK, LocalsOK, WrittenOK, Enabling, Early, Tentative,
         Disabling, memVars, settingVars, taskVars, historyVars
  <1>7. HeldOK'
    BY <1>1, Constants, Threads
       DEF External, Event, IInv, TypeOK, MutexOK, LocalsOK, HeldOK, Settled, Locked, Enabling, Early,
         Tentative, Disabling, memVars, settingVars, taskVars, historyVars
  <1>8. EnableOK'
    BY <1>1, Constants, Threads
       DEF External, Event, IInv, TypeOK, MutexOK, EnableOK, UntouchedBy, WrittenBy, Locked, Enabling,
         Early, Tentative, Disabling, memVars, settingVars, taskVars, historyVars
  <1>9. InitOK'
    BY <1>1, Constants, Threads
       DEF External, Event, IInv, TypeOK, MutexOK, InitOK, Locked, Enabling, Early, Tentative, Disabling,
         memVars, settingVars, taskVars, historyVars
  <1>10. GuardOK'
    BY <1>1, Constants, Threads
       DEF External, Event, IInv, TypeOK, MutexOK, GuardOK, Locked, Enabling, Early, Tentative, Disabling,
         memVars, settingVars, taskVars, historyVars
  <1>11. WishOK'
    BY <1>1, Constants, Threads
       DEF External, Event, IInv, TypeOK, MutexOK, WishOK, Waiting, Locked, Enabling, Early, Tentative,
         Disabling, memVars, settingVars, taskVars, historyVars
  <1>12. LeftOverOK'
    BY <1>2 DEF IInv, LeftOverOK, Ours, OnTarget, External, Waiting, memVars, settingVars,
         historyVars
  <1>13. JournalOK'
    BY <1>1, Constants, Threads
       DEF External, Event, IInv, TypeOK, LocalsOK, JournalOK, Enabling, Early, Tentative, Disabling,
         memVars, settingVars, taskVars, historyVars
  <1> QED
    BY <1>3, <1>4, <1>5, <1>6, <1>7, <1>8, <1>9, <1>10, <1>11, <1>12, <1>13 DEF IInv

LEMMA StutterKeeps ==
  ASSUME IInv, UNCHANGED vars
  PROVE  IInv'
  <1>1. TypeOK'
    BY DEF vars, IInv, TypeOK, LocalsOK, Enabling, Early, Tentative, Disabling, memVars, settingVars,
         taskVars, historyVars
  <1>2. MutexOK'
    BY DEF vars, IInv, TypeOK, MutexOK, Locked, InitPlaces, UpdatePlaces, GuardPlaces, ExitPlaces,
         Enabling, Early, Tentative, Disabling, memVars, settingVars, taskVars, historyVars
  <1>3. LocalsOK'
    BY DEF vars, IInv, TypeOK, MutexOK, LocalsOK, Locked, Enabling, Early, Tentative, Disabling, memVars,
         settingVars, taskVars, historyVars
  <1>4. WrittenOK'
    BY DEF vars, IInv, NoOp, TypeOK, LocalsOK, WrittenOK, Enabling, Early, Tentative, Disabling, memVars,
         settingVars, taskVars, historyVars
  <1>5. HeldOK'
    BY DEF vars, IInv, TypeOK, MutexOK, LocalsOK, HeldOK, Settled, Locked, Enabling, Early, Tentative,
         Disabling, memVars, settingVars, taskVars, historyVars
  <1>6. EnableOK'
    BY DEF vars, IInv, TypeOK, MutexOK, EnableOK, UntouchedBy, WrittenBy, Locked, Enabling, Early,
         Tentative, Disabling, memVars, settingVars, taskVars, historyVars
  <1>7. InitOK'
    BY DEF vars, IInv, TypeOK, MutexOK, InitOK, Locked, Enabling, Early, Tentative, Disabling, memVars,
         settingVars, taskVars, historyVars
  <1>8. GuardOK'
    BY DEF vars, IInv, TypeOK, MutexOK, GuardOK, Locked, Enabling, Early, Tentative, Disabling, memVars,
         settingVars, taskVars, historyVars
  <1>9. WishOK'
    BY DEF vars, IInv, TypeOK, MutexOK, WishOK, Waiting, Locked, Enabling, Early, Tentative, Disabling,
         memVars, settingVars, taskVars, historyVars
  <1>10. LeftOverOK'
    BY DEF vars, IInv, TypeOK, MutexOK, WishOK, LeftOverOK, Waiting, Ours, Locked, Enabling, Early,
         Tentative, Disabling, memVars, settingVars, taskVars, historyVars
  <1>11. JournalOK'
    BY DEF vars, IInv, TypeOK, LocalsOK, JournalOK, Enabling, Early, Tentative, Disabling, memVars,
         settingVars, taskVars, historyVars
  <1> QED
    BY <1>1, <1>2, <1>3, <1>4, <1>5, <1>6, <1>7, <1>8, <1>9, <1>10, <1>11 DEF IInv

LEMMA StepIInv == IInv /\ [Next]_vars => IInv'
  <1> SUFFICES ASSUME IInv, [Next]_vars PROVE IInv'
    OBVIOUS
  <1> USE Threads
  <1>1. CASE InitAcquire
    BY <1>1, InitAcquireKeeps
  <1>2. CASE Recover
    BY <1>2, RecoverNothingKeeps, RecoverRestoreKeeps, RecoverErrKeeps, RecoverClearKeeps DEF Recover
  <1>3. CASE InitBegin
    BY <1>3, InitBeginKeeps
  <1>4. CASE PatchBegin
    BY <1>4, PatchBeginKeeps
  <1>5. CASE PatchErr
    BY <1>5, PatchErrKeeps
  <1>6. CASE HealBegin
    BY <1>6, HealBeginKeeps
  <1>7. ASSUME NEW p \in Updaters, UpdateAcquire(p) PROVE IInv'
    BY <1>7, UpdateAcquireKeeps DEF UpdateAcquire
  <1>8. ASSUME NEW p \in Updaters, Update(p) PROVE IInv'
    BY <1>8, ReleaseKeeps, AfterKeeps, UndoKeeps, EnableCaptureKeeps, EnableRefusedKeeps,
       EnablePrepareKeeps, EnableSetKeeps, EnableSetErrKeeps, EnableOwnKeeps, EnableOwnErrKeeps,
       RollbackKeeps, RearmKeeps, DisableSkipKeeps, DisableOwnedKeeps, DisableGiveBackKeeps,
       DisableErrKeeps, DisableForgetKeeps DEF Update
  <1>9. CASE Guard
    BY <1>9, GuardBeginKeeps, GuardRefusedKeeps, GuardAcquireKeeps, GuardSetKeeps,
       GuardSetErrKeeps, GuardOwnKeeps, GuardReturnKeeps DEF Guard
  <1>10. CASE Reset
    BY <1>10, ExitBeginKeeps, ResetAcquireKeeps, ResetRestoreKeeps, ResetErrKeeps, ResetClearKeeps
       DEF Reset
  <1>11. CASE ProcessEnds
    BY <1>11, ProcessEndsKeeps
  <1>12. CASE External
    BY <1>12, ExternalKeeps
  <1>13. CASE UNCHANGED vars
    BY <1>13, StutterKeeps
  <1> QED
    BY <1>1, <1>2, <1>3, <1>4, <1>5, <1>6, <1>7, <1>8, <1>9, <1>10, <1>11, <1>12, <1>13 DEF Next

\* The invariant, for any number of targets, patches, failures and changes by others.
THEOREM Invariant == Spec => []IInv
  <1>1. Init => IInv
    BY InitIInv
  <1>2. IInv /\ [Next]_vars => IInv'
    BY StepIInv
  <1> QED
    BY <1>1, <1>2, PTL DEF Spec

\* The values, the journal and the copies in memory keep their types, and an
\* original is never remembered without the owned snapshot that it goes with
\* (the branches of update_sysproxy and reset_sysproxy for it are never taken).
THEOREM TypeCorrect == Spec => []TypeOK
  <1>1. IInv => TypeOK
    BY DEF IInv
  <1> QED
    BY <1>1, Invariant, PTL

\* A proxy that is switched off and that nobody works on is not the app's,
\* whatever failed, drifted or was rolled back before.
THEOREM OffIsOff == Spec => []OffMeansOff
  <1>1. IInv => OffMeansOff
    BY DEF IInv, LeftOverOK, OffMeansOff, Waiting
  <1> QED
    BY <1>1, Invariant, PTL

LEMMA KeptByRestore ==
  ASSUME NEW original \in Snapshots, NEW owned, NEW current \in Snapshots
  PROVE  \A v \in Values : current[v] # owned[v] =>
             RestoreIfUnchanged(original, owned, current)[v] = current[v]
  BY RestoredValues

LEMMA StepForeignKept ==
  ASSUME IInv, [Next]_vars, taken, ~taken', ~spoiled, ~(Recovering /\ journal.owned # written)
  PROVE  \A v \in Values : registry[v] # written[v] => registry'[v] = registry[v]
  <1>1. /\ registry \in Snapshots /\ written # None /\ taken \in BOOLEAN
        /\ old_windows_proxy \in Snapshots \cup {None}
        /\ journal \in Phases \cup {None}
        /\ old_windows_proxy # None => owned_windows_proxy # None
    BY DEF IInv, TypeOK, WrittenOK
  <1>2. CASE RecoverRestore
    <2>1. journal \in Phases /\ journal.owned = written /\ journal.phase # "prepared"
      BY <1>1, <1>2 DEF RecoverRestore, IInv, JournalOK
    <2>2. journal.original \in Snapshots /\ journal.phase = "owned"
      BY <2>1 DEF Phases
    <2>3. \/ registry' = registry
          \/ registry' = RestoreIfUnchanged(journal.original, written, registry)
      BY <1>2, <2>1, <2>2 DEF RecoverRestore, RecoveredValues
    <2> QED
      BY <1>1, <2>2, <2>3, KeptByRestore
  <1>3. ASSUME NEW p \in Updaters, DisableGiveBack(p)
        PROVE  \A v \in Values : registry[v] # written[v] => registry'[v] = registry[v]
    <2>1. owned_windows_proxy = written
      BY <1>3, Threads DEF DisableGiveBack, IInv, HeldOK, Settled, MutexOK, Locked, InitPlaces,
         Enabling, Early, Tentative, Disabling
    <2>2. \/ registry' = registry \/ registry = written
          \/ /\ old_windows_proxy \in Snapshots
             /\ registry' = RestoreIfUnchanged(old_windows_proxy, written, registry)
      BY <1>1, <1>3, <2>1 DEF DisableGiveBack
    <2> QED
      BY <1>1, <2>2, KeptByRestore
  <1>4. CASE ResetRestore
    <2>1. owned_windows_proxy = written
      BY <1>4, Threads DEF ResetRestore, IInv, HeldOK, Settled, MutexOK, Locked, InitPlaces,
         Enabling, Early, Tentative, Disabling
    <2>2. \/ registry' = registry \/ registry = written
          \/ /\ old_windows_proxy \in Snapshots
             /\ registry' = RestoreIfUnchanged(old_windows_proxy, written, registry)
      BY <1>1, <1>4, <2>1 DEF ResetRestore, ResetValues
    <2> QED
      BY <1>1, <2>2, KeptByRestore
  <1>5. ASSUME NEW p \in Updaters, Rollback(p)
        PROVE  \A v \in Values : registry[v] # written[v] => registry'[v] = registry[v]
    <2>1. registry = written
      BY <1>5, <1>1 DEF Rollback, IInv, TypeOK, EnableOK, UntouchedBy, WrittenBy
    <2> QED
      BY <2>1
  <1>6. ASSUME NEW p \in Updaters, Update(p), ~DisableGiveBack(p), ~Rollback(p)
        PROVE  registry' = registry
    BY <1>6, <1>1
       DEF Update, Release, After, Undo, EnableCapture, EnableRefused, EnablePrepare, EnableSet,
           EnableSetErr, Take, EnableOwn, EnableOwnErr, Rearm, DisableSkip, DisableOwned,
           DisableErr, DisableForget, historyVars
  <1>7. CASE Guard \/ (Reset /\ ~ResetRestore) \/ (Recover /\ ~RecoverRestore)
    BY <1>7 DEF Guard, GuardBegin, GuardRefused, GuardAcquire, GuardSet, GuardSetErr, GuardOwn,
           GuardReturn, Reset, ExitBegin, ResetAcquire, ResetErr, ResetClear, Recover,
           RecoverNothing, RecoverErr, RecoverClear, historyVars
  <1>8. CASE \/ InitAcquire \/ InitBegin \/ PatchBegin \/ PatchErr \/ HealBegin \/ ProcessEnds
             \/ External \/ UNCHANGED vars \/ \E p \in Updaters : UpdateAcquire(p)
    BY <1>8 DEF InitAcquire, InitBegin, PatchBegin, PatchErr, HealBegin, ProcessEnds, External,
           UpdateAcquire, historyVars, vars
  <1> QED
    BY <1>2, <1>3, <1>4, <1>5, <1>6, <1>7, <1>8 DEF Next, Recover, Reset

\* Whatever another program wrote after the app stays when the app gives the
\* proxy up, in recovery, when it is switched off, at the exit and when a
\* failed enable is rolled back.
THEOREM OthersAreKept == Spec => ForeignKept
  <1>1. IInv /\ [Next]_vars =>
            [taken /\ ~taken' /\ ~spoiled /\ ~(Recovering /\ journal.owned # written) =>
                \A v \in Values : registry[v] # written[v] => registry'[v] = registry[v]]_vars
    BY StepForeignKept
  <1> QED
    BY <1>1, Invariant, PTL DEF Spec, ForeignKept

-----------------------------------------------------------------------------
(* One port and bypass list: what comes back.                              *)

\* With one target, a proxy is the app's exactly if it matches the setting.
LEMMA OneTarget ==
  ASSUME FixedTarget
  PROVE  /\ \A v, w \in Writes : v = w
         /\ \A values, target : target \in Targets => (Matches(values, target) <=> OnTarget(values))
  BY Constants DEF FixedTarget, Writes, Matches, OnTarget

\* A restore never leaves the app's own proxy behind, and where it finds it,
\* the original comes back; a PAC script that others changed stays.
LEMMA RestoredIsTheirs ==
  ASSUME FixedTarget, NEW original \in Snapshots, NEW owned \in Writes, NEW current \in Snapshots,
         OnTarget(current)
  PROVE  LET restored == RestoreIfUnchanged(original, owned, current)
         IN  /\ restored.on = original.on /\ restored.server = original.server
             /\ restored.pac = original.pac \/ (restored.pac = current.pac /\ current.pac # owned.pac)
  <1>1. owned.on /\ owned.server = current.server /\ owned.on = current.on
    BY WritesAreSnapshots DEF OnTarget, FixedTarget, Snapshots
  <1>2. {"on", "server", "pac"} \subseteq Values
    BY DEF Values
  <1> QED
    BY <1>1, <1>2, RestoredValues

LEMMA NotOursStays ==
  ASSUME FixedTarget, NEW original \in Snapshots, NEW owned \in Writes, NEW current \in Snapshots,
         OnTarget(current) => ~OnTarget(original)
  PROVE  ~OnTarget(RestoreIfUnchanged(original, owned, current))
  <1>1. CASE OnTarget(current)
    BY <1>1, RestoredIsTheirs DEF OnTarget
  <1>2. CASE ~OnTarget(current)
    <2>1. {"on", "server"} \subseteq Values
      BY DEF Values
    <2>2. owned.on = TRUE /\ owned.server \in Targets /\ current.on \in BOOLEAN
      BY WritesAreSnapshots DEF Snapshots
    <2> QED
      BY <1>2, <2>1, <2>2, RestoredValues DEF OnTarget
  <1> QED
    BY <1>1, <1>2

\* What recovery leaves behind, given a journal that fits.
LEMMA RecoveredIsTheirs ==
  ASSUME FixedTarget, IInv, RInv, Ours, ~spoiled
  PROVE  /\ journal # None /\ ~Unrecoverable(journal, registry)
         /\ AreTheirs(RecoveredValues(journal, registry))
         /\ ~OnTarget(RecoveredValues(journal, registry))
  <1>1. /\ journal \in Phases /\ registry \in Snapshots /\ OnTarget(registry) /\ taken
        /\ journal.original = theirs /\ ~OnTarget(theirs)
        /\ journal.phase = "owned" => journal.owned \in Writes
        /\ written \in Writes
    BY DEF IInv, TypeOK, WrittenOK, RInv, JournalFits, Fits, Ours, OnTarget
  <1>2. journal # None /\ RecoveryTarget(journal, registry) /\ registry # theirs
    BY <1>1, OneTarget, Constants DEF RecoveryTarget, Phases
  <1>3. journal.original \in Snapshots /\ journal.phase \in {"prepared", "owned"}
    BY <1>1 DEF Phases
  <1>4. CASE journal.phase = "owned"
    <2>1. RecoveredValues(journal, registry) = RestoreIfUnchanged(theirs, journal.owned, registry)
      BY <1>1, <1>2, <1>4 DEF RecoveredValues
    <2>2. AreTheirs(RecoveredValues(journal, registry))
      BY <1>1, <1>3, <1>4, <2>1, RestoredIsTheirs, OneTarget DEF AreTheirs
    <2> QED
      BY <1>1, <1>2, <1>3, <1>4, <2>1, <2>2, NotOursStays DEF Unrecoverable
  <1>5. CASE journal.phase = "prepared"
    <2>1. RecoveredValues(journal, registry) = RestoreIfUnchanged(theirs, registry, registry)
      BY <1>1, <1>2, <1>5 DEF RecoveredValues
    <2>2. \A v \in Values : RestoreIfUnchanged(theirs, registry, registry)[v] = theirs[v]
      BY <1>1, <1>3, RestoredValues
    <2>3. {"on", "server", "pac"} \subseteq Values
      BY DEF Values
    <2> QED
      BY <1>1, <1>2, <2>1, <2>2, <2>3 DEF AreTheirs, OnTarget, Unrecoverable
  <1> QED
    BY <1>3, <1>4, <1>5


\* A step that writes nothing of what matters here and does not enter or leave
\* a place that does.
Quiet ==
    /\ UNCHANGED <<registry, journal, old_windows_proxy, taken, theirs, written>>
    /\ spoiled => spoiled'
    /\ \A p \in Updaters : pc'[p] # pc[p] =>
          /\ pc[p] \notin Tentative \cup {"boot", "boot_clear", "clear", "forget"}
          /\ pc'[p] \notin Tentative \cup {"boot", "prepare"}
    /\ pc["exit"] = "clear" => pc'["exit"] = "clear"
    /\ op' = op \/ \A p \in Updaters : pc'[p] \notin Enabling \ {"capture"}

LEMMA QuietKeeps ==
  ASSUME IInv, RInv, Quiet
  PROVE  RInv'
  <1>1. (Firm' => Firm) /\ (pc'["init"] # "boot" => pc["init"] # "boot")
    BY Threads DEF Quiet, Firm
  <1>2. JournalFits'
    BY <1>1 DEF RInv, JournalFits, Fits, OnTarget, Ours, Quiet, IInv, TypeOK
  <1>3. NoneLeft'
    BY Threads DEF RInv, NoneLeft, OnTarget, Quiet, IInv, TypeOK, Tentative
  <1>4. OriginalOK'
    BY Threads DEF RInv, OriginalOK, Original, UntouchedBy, WrittenBy, OnTarget, Quiet, IInv, TypeOK,
       Enabling, Early, Tentative
  <1> QED
    BY <1>2, <1>3, <1>4 DEF RInv

LEMMA QuietSteps ==
  ASSUME IInv,
         \/ InitAcquire \/ PatchBegin \/ PatchErr \/ HealBegin \/ InitBegin
         \/ \E p \in Updaters : \/ UpdateAcquire(p) \/ Release(p) \/ After(p) \/ Undo(p)
                               \/ EnableRefused(p) \/ DisableOwned(p) \/ DisableErr(p)
         \/ GuardBegin \/ GuardRefused \/ GuardAcquire \/ GuardSetErr \/ GuardReturn
         \/ ExitBegin \/ ResetAcquire
  PROVE  Quiet
  <1> USE Threads DEF Quiet, IInv, TypeOK, Enabling, Early, Tentative, Goto, memVars, settingVars,
               taskVars, historyVars
  <1>1. CASE InitAcquire
    BY <1>1 DEF InitAcquire
  <1>2. CASE PatchBegin
    BY <1>2 DEF PatchBegin
  <1>3. CASE HealBegin
    BY <1>3 DEF HealBegin
  <1>4. ASSUME NEW p \in Updaters, UpdateAcquire(p) PROVE Quiet
    <2>0. /\ proxy_operation = Free /\ pc'[p] \in {"capture", "disable"}
          /\ \A q \in Updaters : q # p => pc'[q] = pc[q]
      BY <1>4 DEF UpdateAcquire
    <2>1. \A q \in Updaters : pc'[q] \notin Enabling \ {"capture"}
      BY <2>0, Constants DEF MutexOK, Locked
    <2> QED
      BY <1>4, <2>1 DEF UpdateAcquire
  <1>5. ASSUME NEW p \in Updaters, Release(p) PROVE Quiet
    <2>1. \A q \in Updaters : pc'[q] \notin Enabling \ {"capture"}
      BY <1>5 DEF Release, MutexOK, Locked
    <2> QED
      BY <1>5, <2>1 DEF Release
  <1>6. ASSUME NEW p \in Updaters, After(p) PROVE Quiet
    BY <1>6 DEF After
  <1>7. CASE PatchErr
    BY <1>7 DEF PatchErr
  <1>8. ASSUME NEW p \in Updaters, Undo(p) PROVE Quiet
    BY <1>8 DEF Undo
  <1>9. CASE InitBegin
    <2>1. \A q \in Updaters : pc'[q] \notin Enabling \ {"capture"}
      BY <1>9 DEF InitBegin, MutexOK, Locked
    <2> QED
      BY <1>9, <2>1 DEF InitBegin
  <1>10. ASSUME NEW p \in Updaters, EnableRefused(p) PROVE Quiet
    BY <1>10 DEF EnableRefused
  <1>11. ASSUME NEW p \in Updaters, DisableOwned(p) PROVE Quiet
    BY <1>11 DEF DisableOwned
  <1>12. ASSUME NEW p \in Updaters, DisableErr(p) PROVE Quiet
    BY <1>12 DEF DisableErr
  <1>13. CASE GuardBegin
    BY <1>13 DEF GuardBegin
  <1>14. CASE GuardRefused
    BY <1>14 DEF GuardRefused
  <1>15. CASE GuardAcquire
    BY <1>15 DEF GuardAcquire
  <1>16. CASE GuardSetErr
    BY <1>16 DEF GuardSetErr
  <1>17. CASE GuardReturn
    BY <1>17 DEF GuardReturn
  <1>18. CASE ExitBegin
    BY <1>18 DEF ExitBegin
  <1>19. CASE ResetAcquire
    BY <1>19 DEF ResetAcquire
  <1> QED
    BY <1>1, <1>2, <1>3, <1>4, <1>5, <1>6, <1>7, <1>8, <1>9, <1>10, <1>11, <1>12, <1>13, <1>14, <1>15, <1>16, <1>17, <1>18, <1>19


\* Whoever is at a place of the mutex is alone, and recovery at the start is over.
LEMMA Alone ==
  ASSUME IInv, NEW p \in Processes, pc[p] \in Locked(p)
  PROVE  /\ \A q \in Updaters : q # p => pc[q] \notin Enabling \cup {"clear", "forget"}
         /\ p # "exit" => pc["exit"] # "clear"
         /\ p # "guard" => pc["guard"] \notin {"set", "own"}
         /\ pc["init"] \notin {"boot", "boot_clear"}
  BY Constants, Threads DEF IInv, MutexOK, Locked, InitPlaces, Enabling, Early, Tentative, Disabling

\* The same for an update that enables or disables, in terms of its step.
LEMMA AloneUpdate ==
  ASSUME IInv, NEW p \in Updaters, pc[p] \in Enabling \cup Disabling, NEW place \in Places,
         Goto(p, place)
  PROVE  /\ pc'[p] = place
         /\ \A q \in Updaters : q # p => pc[q] \notin Enabling \cup {"clear", "forget"}
         /\ \A q \in Updaters : q # p => pc'[q] \notin Enabling \cup {"clear", "forget"}
         /\ pc["exit"] # "clear" /\ pc'["exit"] # "clear"
         /\ pc["init"] \notin {"boot", "boot_clear"}
         /\ place \notin {"boot", "boot_clear"} => pc'["init"] \notin {"boot", "boot_clear"}
  <1>1. pc[p] \in Locked(p) /\ p \in Processes /\ p # "exit"
    BY Threads DEF Locked
  <1>2. /\ pc'[p] = place /\ \A q \in Processes : q # p => pc'[q] = pc[q]
    BY <1>1, Moved DEF IInv
  <1> QED
    BY <1>1, <1>2, Alone, Threads

LEMMA EnableCaptureFits ==
  ASSUME FixedTarget, IInv, RInv, NEW p \in Updaters, EnableCapture(p)
  PROVE  RInv'
  <1>1. /\ pc'[p] = "prepare" /\ pc[p] = "capture"
        /\ \A q \in Updaters : q # p => pc[q] \notin Enabling /\ pc'[q] \notin Enabling
        /\ pc["init"] \notin {"boot", "boot_clear", "clear"} /\ pc["exit"] # "clear"
        /\ \A q \in Updaters : pc[q] \notin {"set", "rollback", "rearm", "forget"}
    BY AloneUpdate, Threads DEF EnableCapture, Enabling, Early, Tentative, Places
  <1>2. /\ UNCHANGED <<registry, journal, old_windows_proxy, taken, theirs, written, spoiled>>
        /\ registry \in Snapshots /\ taken \in BOOLEAN /\ theirs \in Snapshots \cup {None}
        /\ op.target \in Targets
    BY <1>1 DEF IInv, TypeOK, LocalsOK, EnableCapture, memVars, historyVars, Enabling, Early
  <1>3. OnTarget(registry) /\ ~spoiled => taken
    BY <1>2 DEF RInv, NoneLeft
  <1>4. ~spoiled => (ShouldSaveOld(p) <=> ~OnTarget(registry))
    <2>1. ~spoiled /\ taken => cur_sysproxy \in Targets
      BY <1>1, Threads DEF IInv, HeldOK, Settled, Enabling, Tentative
    <2> QED
      BY <1>2, <1>3, <2>1, OneTarget DEF ShouldSaveOld
  <1>5. ~spoiled /\ taken =>
            theirs \in Snapshots /\ ~OnTarget(theirs) /\ old_windows_proxy = theirs
    BY <1>1, <1>2 DEF RInv, JournalFits, Firm, IInv, WrittenOK, Enabling, Tentative
  <1>6. /\ op'.snap = registry /\ op'.save = ShouldSaveOld(p) /\ op'.taken = taken
        /\ op'.theirs = theirs
    BY DEF EnableCapture
  <1>7. JournalFits'
    BY <1>1, <1>2, Threads DEF RInv, JournalFits, Fits, Ours, OnTarget, Firm, Enabling, Tentative
  <1>8. NoneLeft'
    BY <1>1, <1>2, Threads DEF RInv, NoneLeft, OnTarget, EnableCapture, Goto, IInv, TypeOK
  <1>9. OriginalOK'
    BY <1>1, <1>2, <1>3, <1>4, <1>5, <1>6 DEF OriginalOK, OnTarget, Tentative
  <1> QED
    BY <1>7, <1>8, <1>9 DEF RInv

\* What an update that has captured the values knows of them.
LEMMA Known ==
  ASSUME IInv, RInv, ~spoiled, NEW p \in Updaters, pc[p] \in Enabling \ {"capture"}
  PROVE  /\ op.save <=> ~OnTarget(op.snap)
         /\ OnTarget(op.snap) => op.taken
         /\ op.taken => /\ op.theirs \in Snapshots /\ ~OnTarget(op.theirs)
                        /\ old_windows_proxy = op.theirs /\ old_windows_proxy # None
         /\ op.snap \in Snapshots
         /\ p = "init" => ~op.taken
         /\ pc[p] \in Tentative => journal.phase = "prepared" /\ journal.original = Original
         /\ pc[p] \in {"prepare", "set", "rearm"} => UntouchedBy
         /\ pc[p] = "own" => WrittenBy /\ theirs = Original
         /\ pc[p] = "rollback" => UntouchedBy \/ (WrittenBy /\ theirs = Original)
  BY Constants DEF IInv, RInv, OriginalOK, LocalsOK, EnableOK, InitOK

LEMMA EnablePrepareFits ==
  ASSUME FixedTarget, IInv, RInv, NEW p \in Updaters, EnablePrepare(p)
  PROVE  RInv'
  <1>1. /\ pc'[p] = "set" /\ pc[p] = "prepare"
        /\ \A q \in Updaters : q # p => pc'[q] \notin Enabling
    BY AloneUpdate, Threads DEF EnablePrepare, Enabling, Early, Tentative, Places
  <1>2. /\ UNCHANGED <<registry, old_windows_proxy, op, taken, theirs, written, spoiled>>
        /\ journal'.phase = "prepared" /\ journal'.original = RecoveryOriginal(p)
    BY DEF EnablePrepare, memVars, historyVars
  <1>3. journal' # None
    BY <1>1, EnablePrepareKeeps DEF IInv, LocalsOK, Tentative
  <1>4. ~spoiled => RecoveryOriginal(p) = Original
    BY <1>1, Known DEF RecoveryOriginal, Original, Enabling, Early
  <1>5. ~spoiled => UntouchedBy /\ (op.save <=> ~OnTarget(op.snap))
    BY <1>1, Known DEF Enabling, Early
  <1>6. JournalFits'
    <2>1. ~Firm'
      BY <1>1 DEF Firm, Tentative
    <2> QED
      BY <1>1, <1>2, <1>3, <1>4, <1>5, <2>1
         DEF RInv, JournalFits, Fits, Ours, OnTarget, Original, UntouchedBy
  <1>7. NoneLeft'
    BY <1>1, <1>2 DEF RInv, NoneLeft, OnTarget
  <1>8. OriginalOK'
    BY <1>1, <1>2, <1>4, Known
       DEF OriginalOK, Original, OnTarget, Enabling, Early, Tentative
  <1> QED
    BY <1>6, <1>7, <1>8 DEF RInv

LEMMA EnableSetFits ==
  ASSUME FixedTarget, IInv, RInv, NEW p \in Updaters, EnableSet(p) \/ EnableSetErr(p)
  PROVE  RInv'
  <1>1. /\ pc[p] = "set" /\ pc'[p] \in {"own", "rollback"}
        /\ \A q \in Updaters : q # p => pc'[q] \notin Enabling
    BY AloneUpdate, Threads DEF EnableSet, EnableSetErr, Enabling, Early, Tentative, Places
  <1>2. /\ UNCHANGED <<journal, old_windows_proxy, op, spoiled>>
        /\ \/ /\ registry' = On(op.target) /\ taken' = TRUE /\ written' = On(op.target)
              /\ theirs' = IF Ours THEN theirs ELSE registry
           \/ pc'[p] = "rollback" /\ UNCHANGED <<registry, taken, theirs, written>>
    BY <1>1 DEF EnableSet, EnableSetErr, Take, memVars, historyVars, IInv, TypeOK, Goto
  <1>3. journal # None
    BY <1>1 DEF IInv, LocalsOK, Tentative
  <1>4. ~spoiled => /\ UntouchedBy /\ (op.save <=> ~OnTarget(op.snap))
                    /\ journal.phase = "prepared" /\ journal.original = Original
    BY <1>1, Known DEF Enabling, Tentative
  <1>5. ~spoiled => /\ ~OnTarget(registry) \/ Ours
                    /\ taken => ~OnTarget(theirs)
                    /\ Ours => Fits
                    /\ Original = IF Ours THEN theirs ELSE registry
    BY <1>4 DEF RInv, NoneLeft, JournalFits, OnTarget, Ours, Original, UntouchedBy
  <1>6. ~Firm'
    BY <1>1 DEF Firm, Tentative
  <1>7. JournalFits'
    <2>1. CASE registry' = registry /\ taken' = taken /\ theirs' = theirs
      BY <1>2, <1>5, <1>6, <2>1 DEF JournalFits, Fits, OnTarget, Ours
    <2>2. CASE theirs' = IF Ours THEN theirs ELSE registry
      BY <1>2, <1>3, <1>4, <1>5, <1>6, <2>2 DEF JournalFits, Fits, OnTarget, Ours
    <2> QED
      BY <1>2, <2>1, <2>2
  <1>8. NoneLeft'
    BY <1>1, <1>2 DEF RInv, NoneLeft, OnTarget
  <1>9. OriginalOK'
    BY <1>1, <1>2, <1>4, <1>5, Known
       DEF OriginalOK, Original, OnTarget, UntouchedBy, WrittenBy, Enabling, Early, Tentative
  <1> QED
    BY <1>7, <1>8, <1>9 DEF RInv

LEMMA EnableOwnFits ==
  ASSUME FixedTarget, IInv, RInv, NEW p \in Updaters, EnableOwn(p)
  PROVE  RInv'
  <1>1. /\ pc[p] = "own" /\ pc'[p] = "ok"
        /\ \A q \in Updaters : pc'[q] \notin Enabling
    BY AloneUpdate, Threads DEF EnableOwn, Enabling, Early, Tentative, Places
  <1>2. /\ UNCHANGED <<registry, taken, theirs, written, spoiled>>
        /\ old_windows_proxy' = IF op.save THEN op.snap ELSE old_windows_proxy
        /\ journal' # journal => journal' = RecordOwned(registry, journal.target)
    BY DEF EnableOwn, historyVars
  <1>3. journal' # None
    <2>1. journal # None /\ journal.target \in Targets /\ registry \in Snapshots
      BY <1>1 DEF IInv, LocalsOK, TypeOK, Tentative, Phases
    <2> QED
      BY <1>2, <2>1, Recorded, Constants DEF IInv
  <1>4. ~spoiled => /\ WrittenBy /\ theirs = Original /\ registry \in Writes
                    /\ journal.phase = "prepared" /\ journal.original = Original
                    /\ old_windows_proxy' = Original
    <2>1. op.target \in Targets
      BY <1>1 DEF IInv, LocalsOK, Enabling, Tentative
    <2> QED
      BY <1>1, <1>2, <2>1, Known, OnIsSnapshot DEF Enabling, Tentative, Original, WrittenBy
  <1>5. /\ journal' # journal => /\ journal'.phase = "owned" /\ journal'.owned = registry
                                 /\ journal'.original = journal.original
    BY <1>2, OwnedFields
  <1>6. JournalFits'
    <2>1. ~spoiled => ~OnTarget(Original)
      BY <1>1, Known DEF Original, Enabling, Tentative
    <2>2. ~spoiled => Fits'
      BY <1>2, <1>3, <1>4, <1>5 DEF Fits
    <2> QED
      BY <1>2, <1>4, <2>1, <2>2 DEF JournalFits, OnTarget
  <1>7. NoneLeft'
    BY <1>2, <1>4 DEF NoneLeft, WrittenBy
  <1>8. OriginalOK'
    BY <1>1 DEF OriginalOK
  <1> QED
    BY <1>6, <1>7, <1>8 DEF RInv

LEMMA EnableOwnErrFits ==
  ASSUME FixedTarget, IInv, RInv, NEW p \in Updaters, EnableOwnErr(p)
  PROVE  RInv'
  <1>1. /\ pc[p] = "own" /\ pc'[p] = "rollback"
        /\ \A q \in Updaters : q # p => pc'[q] \notin Enabling
    BY AloneUpdate, Threads DEF EnableOwnErr, Enabling, Early, Tentative, Places
  <1>2. UNCHANGED <<registry, journal, old_windows_proxy, op, taken, theirs, written, spoiled>>
    BY DEF EnableOwnErr, memVars, historyVars
  <1>3. JournalFits'
    <2>1. ~Firm'
      BY <1>1 DEF Firm, Tentative
    <2> QED
      BY <1>2, <2>1 DEF RInv, JournalFits, Fits, Ours, OnTarget
  <1>4. NoneLeft'
    BY <1>1, <1>2 DEF RInv, NoneLeft, OnTarget
  <1>5. OriginalOK'
    BY <1>1, <1>2, Known
       DEF OriginalOK, Original, OnTarget, UntouchedBy, WrittenBy, Enabling, Early, Tentative
  <1> QED
    BY <1>3, <1>4, <1>5 DEF RInv

LEMMA RollbackFits ==
  ASSUME FixedTarget, IInv, RInv, NEW p \in Updaters, Rollback(p)
  PROVE  RInv'
  <1>1. /\ pc[p] = "rollback" /\ pc'[p] = "rearm"
        /\ \A q \in Updaters : q # p => pc'[q] \notin Enabling
    BY AloneUpdate, Threads DEF Rollback, Enabling, Early, Tentative, Places
  <1>2. /\ UNCHANGED <<journal, old_windows_proxy, op>>
        /\ ~spoiled' => /\ ~spoiled
                        /\ registry' = op.snap /\ taken' = op.taken /\ theirs' = op.theirs
                        /\ written' = op.written
    BY DEF Rollback, memVars
  <1>3. journal # None
    BY <1>1 DEF IInv, LocalsOK, Tentative
  <1>4. JournalFits'
    <2>1. ~Firm'
      BY <1>1 DEF Firm, Tentative
    <2>2. ~spoiled /\ OnTarget(op.snap) =>
              journal.phase = "prepared" /\ journal.original = op.theirs
      BY <1>1, Known DEF Original, Enabling, Tentative
    <2> QED
      BY <1>1, <1>2, <1>3, <2>1, <2>2, Known
         DEF JournalFits, Fits, Ours, OnTarget, Enabling, Tentative
  <1>5. NoneLeft'
    BY <1>1, <1>2, Known DEF NoneLeft, OnTarget, Enabling, Tentative
  <1>6. OriginalOK'
    BY <1>1, <1>2, Known
       DEF OriginalOK, Original, OnTarget, UntouchedBy, WrittenBy, Enabling, Early, Tentative
  <1> QED
    BY <1>4, <1>5, <1>6 DEF RInv

LEMMA RearmFits ==
  ASSUME FixedTarget, IInv, RInv, NEW p \in Updaters, Rearm(p)
  PROVE  RInv'
  <1>1. /\ pc[p] = "rearm" /\ pc'[p] = "failed"
        /\ \A q \in Updaters : pc'[q] \notin Enabling
    BY AloneUpdate, Threads DEF Rearm, Enabling, Early, Tentative, Places
  <1>2. /\ UNCHANGED <<registry, old_windows_proxy, op, taken, theirs, written>>
        /\ journal' = Rearmed(p)
        /\ ~spoiled' => ~spoiled /\ (journal' = None \/ op.snap = written)
    BY DEF Rearm, memVars, IInv, TypeOK
  <1>3. ~spoiled' /\ journal' # None => op.snap \in Writes /\ OnTarget(op.snap) /\ taken
    <2>1. SUFFICES ASSUME ~spoiled', journal' # None
                   PROVE  op.snap \in Writes /\ OnTarget(op.snap) /\ taken
      OBVIOUS
    <2>2. op.snap \in Snapshots /\ UntouchedBy /\ (OnTarget(op.snap) => op.taken)
      BY <1>1, <1>2, <2>1, Known DEF Enabling, Tentative
    <2>3. op.snap \in Writes
      BY <1>2, <2>1, <2>2, Constants DEF IInv, WrittenOK
    <2> QED
      BY <2>2, <2>3, WritesAreSnapshots DEF OnTarget, UntouchedBy
  <1>4. ~spoiled' /\ taken => Fits' /\ old_windows_proxy = theirs /\ ~OnTarget(theirs)
    <2>1. SUFFICES ASSUME ~spoiled', taken
                   PROVE  Fits' /\ old_windows_proxy = theirs /\ ~OnTarget(theirs)
      OBVIOUS
    <2>2. /\ op.taken /\ p # "init" /\ old_windows_proxy = theirs /\ old_windows_proxy # None
          /\ ~OnTarget(theirs)
      BY <1>1, <1>2, <2>1, Known DEF Enabling, Tentative, UntouchedBy
    <2>3. cur_sysproxy \in Targets
      BY <1>1, <1>2, <2>1, <2>2 DEF IInv, EnableOK, Enabling, Tentative
    <2>4. journal'.original = theirs /\ journal'.owned = op.snap
      BY <1>2, <2>2, <2>3 DEF Rearmed
    <2>5. journal' # None
      BY <1>1, <2>1, <2>2, <2>3, <1>2, RearmKeeps, Threads DEF IInv, HeldOK, Settled, Rearm, memVars,
         Enabling, Tentative
    <2> QED
      BY <1>2, <1>3, <2>1, <2>2, <2>4, <2>5 DEF Fits
  <1>5. JournalFits'
    BY <1>2, <1>4 DEF JournalFits, OnTarget
  <1>6. NoneLeft'
    <2>1. ~spoiled' /\ ~taken => ~OnTarget(registry)
      BY <1>2 DEF RInv, NoneLeft
    <2> QED
      BY <1>2, <1>3, <2>1 DEF NoneLeft, OnTarget
  <1>7. OriginalOK'
    BY <1>1 DEF OriginalOK
  <1> QED
    BY <1>5, <1>6, <1>7 DEF RInv

\* Where the proxy is given up, what is left is not the app's.
LEMMA CopiesFit ==
  ASSUME IInv, RInv, ~spoiled, taken, Firm, Settled, pc["init"] # "boot", pc["guard"] # "own"
  PROVE  /\ old_windows_proxy = theirs /\ theirs \in Snapshots /\ ~OnTarget(theirs)
         /\ old_windows_proxy # None
         /\ owned_windows_proxy = written /\ written \in Writes /\ cur_sysproxy \in Targets
  BY Constants DEF IInv, RInv, JournalFits, HeldOK, WrittenOK, TypeOK

\* Nothing of the app's is left, also where old copies are used again.
LEMMA NothingLeft ==
  ASSUME FixedTarget, IInv, RInv, ~spoiled, Firm, Settled, pc["init"] # "boot",
         pc["guard"] # "own"
  PROVE  /\ OnTarget(registry) => taken /\ Matches(registry, cur_sysproxy)
         /\ old_windows_proxy # None =>
               ~OnTarget(RestoreIfUnchanged(old_windows_proxy, owned_windows_proxy, registry))
  <1>1. OnTarget(registry) => taken
    BY DEF RInv, NoneLeft
  <1>2. registry \in Snapshots /\ taken \in BOOLEAN
    BY DEF IInv, TypeOK
  <1>3. old_windows_proxy # None => owned_windows_proxy \in Writes /\ old_windows_proxy \in Snapshots
    BY Constants DEF IInv, TypeOK, WrittenOK
  <1> QED
    BY <1>1, <1>2, <1>3, CopiesFit, OneTarget, NotOursStays

LEMMA GivenUpFits ==
  ASSUME FixedTarget, IInv, RInv,
         ~taken', ~spoiled' => ~spoiled /\ ~OnTarget(registry'),
         journal' = None \/ pc'["exit"] = "clear" \/ \E p \in Updaters : pc'[p] = "forget",
         \A p \in Updaters : pc'[p] \notin Enabling \ {"capture"}
  PROVE  RInv'
  <1>1. JournalFits'
    BY DEF JournalFits
  <1>2. NoneLeft'
    BY DEF NoneLeft, OnTarget
  <1>3. OriginalOK'
    BY DEF OriginalOK
  <1> QED
    BY <1>1, <1>2, <1>3 DEF RInv

LEMMA DisableFits ==
  ASSUME FixedTarget, IInv, RInv, NEW p \in Updaters,
         DisableSkip(p) \/ DisableGiveBack(p) \/ DisableForget(p)
  PROVE  RInv'
  <1>1. /\ pc[p] \in Disabling
        /\ \A q \in Updaters : pc[q] \notin Enabling /\ pc'[q] \notin Enabling
        /\ pc["init"] # "boot" /\ pc["guard"] # "own"
    <2>1. PICK place \in {"ok", "forget"} : Goto(p, place) /\ pc[p] \in Disabling
      BY DEF DisableSkip, DisableGiveBack, DisableForget, Disabling
    <2>2. pc[p] \in Locked(p) /\ p \in Processes /\ p # "guard"
      BY <2>1, Threads DEF Locked, Disabling
    <2> QED
      BY <2>1, <2>2, Alone, AloneUpdate, Threads
         DEF Enabling, Early, Tentative, Disabling, Places
  <1>2. Firm /\ Settled
    BY <1>1 DEF Firm, Settled, Enabling, Tentative
  <1>3. CASE DisableSkip(p)
    <2>1. registry' = registry /\ journal' = None /\ ~taken' /\ spoiled' = spoiled
          /\ ~Matches(registry, cur_sysproxy)
      BY <1>3 DEF DisableSkip
    <2>2. ~spoiled => ~OnTarget(registry)
      BY <1>1, <1>2, <2>1, NothingLeft
    <2> QED
      BY <1>1, <2>1, <2>2, GivenUpFits
  <1>4. CASE DisableGiveBack(p)
    <2>1. /\ ~taken' /\ spoiled' = spoiled /\ pc'[p] = "forget"
          /\ registry' =
                IF old_windows_proxy # None
                THEN RestoreIfUnchanged(old_windows_proxy, owned_windows_proxy, registry)
                ELSE IF owned_windows_proxy \notin {None, registry} THEN registry
                ELSE Off(registry)
      BY <1>4, Moved, Threads DEF DisableGiveBack, Places, IInv
    <2>2. ~Off(registry).on
      BY OffIsSnapshot DEF IInv, TypeOK
    <2>3. ~spoiled => ~OnTarget(registry')
      <3>1. CASE old_windows_proxy # None
        BY <1>1, <1>2, <2>1, <3>1, NothingLeft
      <3>2. CASE old_windows_proxy = None
        <4>1. ~spoiled => ~OnTarget(registry)
          BY <1>1, <1>2, <3>2, NothingLeft, CopiesFit
        <4> QED
          BY <2>1, <2>2, <3>2, <4>1 DEF OnTarget
      <3> QED
        BY <3>1, <3>2
    <2> QED
      BY <1>1, <2>1, <2>3, GivenUpFits
  <1>5. CASE DisableForget(p)
    <2>1. /\ registry' = registry /\ journal' = None /\ taken' = taken /\ spoiled' = spoiled
          /\ pc[p] = "forget"
      BY <1>5 DEF DisableForget, historyVars
    <2>2. ~taken /\ (~spoiled => ~OnTarget(registry))
      BY <2>1 DEF IInv, LocalsOK, RInv, NoneLeft
    <2> QED
      BY <1>1, <2>1, <2>2, GivenUpFits
  <1> QED
    BY <1>3, <1>4, <1>5

LEMMA ResetFits ==
  ASSUME FixedTarget, IInv, RInv, ResetRestore \/ ResetErr \/ ResetClear
  PROVE  RInv'
  <1>1. /\ pc["exit"] \in Locked("exit")
        /\ \A q \in Processes : q # "exit" => pc'[q] = pc[q]
    BY Threads DEF ResetRestore, ResetErr, ResetClear, Locked, Goto, IInv, TypeOK
  <1>2. /\ \A q \in Updaters : pc[q] \notin Enabling /\ pc'[q] \notin Enabling
        /\ pc["init"] # "boot" /\ pc["guard"] # "own"
    BY <1>1, Alone, Threads
  <1>3. Firm /\ Settled
    BY <1>2 DEF Firm, Settled, Enabling, Tentative
  <1>4. CASE ResetRestore
    <2>1. registry' = ResetValues /\ ~taken' /\ spoiled' = spoiled /\ pc'["exit"] = "clear"
      BY <1>4, Threads DEF ResetRestore, Goto, IInv, TypeOK
    <2>2. ~Off(registry).on
      BY OffIsSnapshot DEF IInv, TypeOK
    <2>3. ~spoiled => ~OnTarget(ResetValues)
      <3>1. CASE ~Matches(registry, cur_sysproxy)
        BY <1>2, <1>3, <3>1, NothingLeft DEF ResetValues
      <3>2. CASE old_windows_proxy # None
        BY <1>2, <1>3, <3>1, <3>2, NothingLeft DEF ResetValues
      <3>3. CASE old_windows_proxy = None
        <4>1. ~spoiled => ~OnTarget(registry)
          BY <1>2, <1>3, <3>3, NothingLeft, CopiesFit
        <4> QED
          BY <2>2, <3>3, <4>1 DEF ResetValues, OnTarget
      <3> QED
        BY <3>2, <3>3
    <2> QED
      BY <1>2, <2>1, <2>3, GivenUpFits
  <1>5. CASE ResetErr
    <2>1. spoiled' = TRUE
      BY <1>5 DEF ResetErr
    <2> QED
      BY <2>1 DEF RInv, JournalFits, NoneLeft, OriginalOK
  <1>6. CASE ResetClear
    <2>1. /\ registry' = registry /\ journal' = None /\ taken' = taken /\ spoiled' = spoiled
          /\ pc["exit"] = "clear"
      BY <1>6 DEF ResetClear, historyVars
    <2>2. ~taken /\ (~spoiled => ~OnTarget(registry))
      BY <2>1 DEF IInv, LocalsOK, RInv, NoneLeft
    <2> QED
      BY <1>2, <2>1, <2>2, GivenUpFits
  <1> QED
    BY <1>4, <1>5, <1>6

LEMMA RecoverFits ==
  ASSUME FixedTarget, IInv, RInv, Recover
  PROVE  RInv'
  <1>1. /\ pc["init"] \in {"boot", "boot_clear", "recover", "clear"}
        /\ \A q \in Processes : q # "init" => pc'[q] = pc[q]
    BY Threads DEF Recover, RecoverNothing, RecoverRestore, RecoverErr, RecoverClear, Recovering,
       AfterRecovery, Goto, IInv, TypeOK
  <1>2. /\ \A q \in Updaters : q # "init" => pc[q] \notin Enabling
        /\ pc["init"] \notin Enabling /\ pc'["init"] \notin Enabling
        /\ pc["exit"] # "clear"
    <2>1. CASE pc["init"] \in {"boot", "boot_clear"}
      BY <1>1, <2>1, Threads DEF IInv, MutexOK, Enabling, Early, Tentative, Recover, RecoverNothing,
         RecoverRestore, RecoverErr, RecoverClear, Recovering, AfterRecovery, Goto, TypeOK
    <2>2. CASE pc["init"] \in {"recover", "clear"}
      <3>1. pc["init"] \in Locked("init")
        BY <2>2 DEF Locked
      <3> QED
        BY <1>1, <2>2, <3>1, Alone, Threads DEF Enabling, Early, Tentative, Recover, RecoverNothing,
           RecoverRestore, RecoverErr, RecoverClear, Recovering, AfterRecovery, Goto, IInv, TypeOK
    <2> QED
      BY <1>1, <2>1, <2>2
  <1>3. /\ \A q \in Updaters : pc[q] \notin Enabling /\ pc'[q] \notin Enabling
        /\ Settled
    BY <1>1, <1>2, Threads DEF Settled, Enabling, Tentative
  <1>4. OriginalOK'
    BY <1>3 DEF OriginalOK
  <1>5. CASE RecoverNothing
    <2>1. UNCHANGED <<registry, journal, taken, spoiled>> /\ journal = None
      BY <1>5 DEF RecoverNothing, historyVars
    <2>2. ~spoiled => ~taken
      BY <1>3, <2>1 DEF IInv, HeldOK
    <2> QED
      BY <1>4, <2>1, <2>2 DEF RInv, JournalFits, NoneLeft, OnTarget, IInv, TypeOK
  <1>6. CASE RecoverRestore
    <2>1. /\ registry' = RecoveredValues(journal, registry) /\ ~taken' /\ UNCHANGED spoiled
          /\ pc'["init"] \in {"boot_clear", "clear"} /\ journal \in Phases
      BY <1>6, Threads DEF RecoverRestore, Goto, IInv, TypeOK
    <2>2. ~spoiled => ~OnTarget(registry')
      <3>1. CASE Ours
        BY <2>1, <3>1, RecoveredIsTheirs
      <3>2. CASE ~Ours /\ ~spoiled
        <4>1. ~OnTarget(registry)
          BY <3>2 DEF RInv, NoneLeft, Ours, OnTarget
        <4>2. ~RecoveryTarget(journal, registry)
          BY <2>1, <4>1, OneTarget DEF RecoveryTarget, Phases
        <4> QED
          BY <2>1, <4>1, <4>2 DEF RecoveredValues
      <3> QED
        BY <3>1, <3>2
    <2> QED
      BY <1>4, <2>1, <2>2 DEF RInv, JournalFits, NoneLeft, OnTarget
  <1>7. CASE RecoverErr
    <2>1. spoiled' = TRUE
      BY <1>7 DEF RecoverErr
    <2> QED
      BY <2>1 DEF RInv, JournalFits, NoneLeft, OriginalOK
  <1>8. CASE RecoverClear
    <2>1. UNCHANGED <<registry, taken, spoiled>> /\ journal' = None /\ ~taken
      BY <1>8 DEF RecoverClear, historyVars, IInv, LocalsOK
    <2> QED
      BY <1>4, <2>1 DEF RInv, JournalFits, NoneLeft, OnTarget
  <1> QED
    BY <1>5, <1>6, <1>7, <1>8 DEF Recover

\* The guard writes only while the journal is there, and the app has the proxy.
LEMMA GuardHolds ==
  ASSUME IInv, RInv, pc["guard"] \in {"set", "own"}, ~spoiled, journal # None
  PROVE  /\ \A q \in Updaters : pc[q] \notin Enabling
         /\ taken /\ ~OnTarget(theirs) /\ Fits /\ old_windows_proxy = theirs
  <1>1. pc["guard"] \in Locked("guard")
    BY DEF Locked
  <1>2. /\ \A q \in Updaters : pc[q] \notin Enabling \cup {"clear", "forget"}
        /\ pc["exit"] # "clear" /\ pc["init"] \notin {"boot", "boot_clear"}
    BY <1>1, Alone, Threads
  <1>3. taken
    BY <1>2, Threads DEF RInv, NoneLeft, Enabling, Tentative
  <1> QED
    BY <1>2, <1>3 DEF RInv, JournalFits, Firm, Enabling

LEMMA GuardSetFits ==
  ASSUME FixedTarget, IInv, RInv, GuardSet
  PROVE  RInv'
  <1>1. /\ UNCHANGED <<journal, old_windows_proxy, taken, theirs>> /\ pc["guard"] = "set"
        /\ \A q \in Updaters : pc'[q] = pc[q]
        /\ ~spoiled' => ~spoiled /\ journal # None
    BY Threads DEF GuardSet, memVars, Goto, IInv, TypeOK
  <1>2. ~spoiled' => /\ \A q \in Updaters : pc[q] \notin Enabling
                     /\ taken /\ ~OnTarget(theirs) /\ Fits /\ old_windows_proxy = theirs
    BY <1>1, GuardHolds
  <1>3. JournalFits' /\ NoneLeft'
    BY <1>1, <1>2 DEF JournalFits, NoneLeft, Fits, OnTarget
  <1>4. OriginalOK'
    BY <1>1, <1>2 DEF OriginalOK
  <1> QED
    BY <1>3, <1>4 DEF RInv

LEMMA GuardOwnFits ==
  ASSUME FixedTarget, IInv, RInv, GuardOwn
  PROVE  RInv'
  <1>1. /\ UNCHANGED <<registry, old_windows_proxy, taken, theirs, spoiled>> /\ pc["guard"] = "own"
        /\ \A q \in Updaters : pc'[q] = pc[q]
        /\ pc'["exit"] = pc["exit"]
        /\ journal = None => journal' = None
        /\ journal' # journal => /\ journal # None /\ owned_windows_proxy # None
                                 /\ journal' = RecordOwned(Refreshed, guard_target)
    BY Threads DEF GuardOwn, Goto, historyVars, IInv, TypeOK
  <1>2. pc["guard"] \in Locked("guard")
    BY <1>1 DEF Locked
  <1>3. /\ \A q \in Updaters : pc[q] \notin Enabling \cup {"clear", "forget"}
        /\ pc["exit"] # "clear" /\ pc["init"] \notin {"boot", "boot_clear"}
    BY <1>2, Alone, Threads
  <1>4. ~spoiled /\ taken => Fits /\ ~OnTarget(theirs) /\ old_windows_proxy = theirs
    BY <1>3 DEF RInv, JournalFits, Firm, Enabling
  <1>5. ~spoiled /\ owned_windows_proxy # None => Refreshed \in Writes
    <2>1. SUFFICES ASSUME ~spoiled, owned_windows_proxy # None PROVE Refreshed \in Writes
      OBVIOUS
    <2>2. guard_target \in Targets /\ registry = On(guard_target)
      BY <1>1, <2>1 DEF IInv, LocalsOK, GuardOK
    <2>3. owned_windows_proxy.pac = FALSE
      BY <2>1, WritesAreSnapshots DEF IInv, WrittenOK, Snapshots
    <2>4. registry.pac = FALSE /\ registry \in Snapshots /\ registry \in Writes
      BY <2>2, OnIsSnapshot DEF On
    <2> QED
      BY <2>3, <2>4, SamePac DEF Refreshed
  <1>6. JournalFits'
    <2>1. ~spoiled /\ taken => Fits'
      <3>1. CASE journal' = journal
        BY <1>1, <1>4, <3>1 DEF Fits
      <3>2. CASE journal' # journal
        <4>1. /\ journal'.phase = "owned" /\ journal'.owned = Refreshed
              /\ journal'.original = journal.original
          BY <1>1, <3>2, OwnedFields
        <4>2. journal' # None
          <5>1. Refreshed \in Snapshots /\ guard_target \in Targets
            BY <1>1, <3>2 DEF Refreshed, IInv, TypeOK, LocalsOK, Snapshots
          <5> QED
            BY <1>1, <3>2, <5>1, Recorded, Constants DEF IInv
        <4> QED
          BY <1>1, <1>4, <1>5, <3>2, <4>1, <4>2 DEF Fits
      <3> QED
        BY <3>1, <3>2
    <2> QED
      BY <1>1, <1>4, <2>1 DEF JournalFits, OnTarget
  <1>7. NoneLeft'
    BY <1>1, Threads DEF RInv, NoneLeft, OnTarget, IInv, TypeOK
  <1>8. OriginalOK'
    BY <1>1, <1>3 DEF OriginalOK
  <1> QED
    BY <1>6, <1>7, <1>8 DEF RInv

LEMMA ProcessEndsFits ==
  ASSUME FixedTarget, IInv, RInv, ProcessEnds
  PROVE  RInv'
  <1>1. /\ UNCHANGED <<registry, journal, taken, theirs, spoiled>>
        /\ pc' = [p \in Processes |-> IF p = "init" THEN "boot" ELSE "idle"]
    BY DEF ProcessEnds, historyVars
  <1>2. pc'["init"] = "boot" /\ \A p \in Updaters : pc'[p] \notin Enabling
    BY <1>1, Threads DEF Enabling, Early, Tentative
  <1>3. JournalFits' /\ NoneLeft'
    BY <1>1, <1>2 DEF RInv, JournalFits, NoneLeft, Fits, Ours, OnTarget, IInv, TypeOK
  <1>4. OriginalOK'
    BY <1>2 DEF OriginalOK
  <1> QED
    BY <1>3, <1>4 DEF RInv

LEMMA ExternalFits ==
  ASSUME FixedTarget, IInv, RInv, External
  PROVE  RInv'
  <1>1. UNCHANGED <<journal, old_windows_proxy, pc, op, taken, theirs, written>>
    BY DEF External, memVars
  <1>2. ~spoiled' => /\ ~spoiled
                     /\ \A p \in Updaters :
                           pc[p] \notin {"prepare", "set", "own", "rollback", "rearm"}
    BY DEF External
  <1>3. registry'.server = registry.server \/ registry'.server = User
    <2>1. PICK new \in {[on |-> TRUE, server |-> User, pac |-> registry.pac],
                        [registry EXCEPT !.on = ~@], [registry EXCEPT !.pac = ~@]} :
              registry' = new
      BY DEF External
    <2> QED
      BY <2>1, OthersValues DEF IInv, TypeOK
  <1>4. ~spoiled' /\ OnTarget(registry') => OnTarget(registry)
    BY <1>3, Constants DEF External, OnTarget
  <1>5. JournalFits' /\ NoneLeft'
    BY <1>1, <1>2, <1>4 DEF RInv, JournalFits, NoneLeft, Fits, Firm, Ours, OnTarget
  <1>6. OriginalOK'
    BY <1>1, <1>2 DEF OriginalOK, Enabling, Early, Tentative
  <1> QED
    BY <1>5, <1>6 DEF RInv

LEMMA InitRInv == Init => RInv
  <1> SUFFICES ASSUME Init PROVE RInv
    OBVIOUS
  <1>1. ~OnTarget(registry)
    <2>1. CASE registry = [on |-> TRUE, server |-> User, pac |-> FALSE]
      BY <2>1, Constants DEF OnTarget
    <2>2. CASE registry \in [on : {FALSE}, server : {NoServer}, pac : BOOLEAN]
      BY <2>2 DEF OnTarget
    <2> QED
      BY <2>1, <2>2 DEF Init
  <1>2. \A p \in Updaters : pc[p] \notin Enabling
    BY Threads DEF Init, Enabling, Early, Tentative
  <1> QED
    BY <1>1, <1>2 DEF Init, RInv, JournalFits, NoneLeft, OriginalOK

LEMMA StepRInv == FixedTarget /\ IInv /\ RInv /\ [Next]_vars => RInv'
  <1> SUFFICES ASSUME FixedTarget, IInv, RInv, [Next]_vars PROVE RInv'
    OBVIOUS
  <1>1. CASE Quiet
    BY <1>1, QuietKeeps
  <1>2. CASE InitAcquire \/ InitBegin \/ PatchBegin \/ PatchErr \/ HealBegin
    BY <1>1, <1>2, QuietSteps
  <1>3. CASE Recover
    BY <1>3, RecoverFits
  <1>4. ASSUME NEW p \in Updaters, UpdateAcquire(p) PROVE RInv'
    BY <1>1, <1>4, QuietSteps
  <1>5. ASSUME NEW p \in Updaters, Update(p) PROVE RInv'
    <2>1. CASE \/ Release(p) \/ After(p) \/ Undo(p) \/ EnableRefused(p) \/ DisableOwned(p)
               \/ DisableErr(p)
      BY <1>1, <2>1, QuietSteps
    <2> QED
      BY <1>5, <2>1, EnableCaptureFits, EnablePrepareFits, EnableSetFits, EnableOwnFits,
         EnableOwnErrFits, RollbackFits, RearmFits, DisableFits DEF Update
  <1>6. CASE Guard
    <2>1. CASE GuardBegin \/ GuardRefused \/ GuardAcquire \/ GuardSetErr \/ GuardReturn
      BY <1>1, <2>1, QuietSteps
    <2> QED
      BY <1>6, <2>1, GuardSetFits, GuardOwnFits DEF Guard
  <1>7. CASE Reset
    <2>1. CASE ExitBegin \/ ResetAcquire
      BY <1>1, <2>1, QuietSteps
    <2> QED
      BY <1>7, <2>1, ResetFits DEF Reset
  <1>8. CASE ProcessEnds \/ External
    BY <1>8, ProcessEndsFits, ExternalFits
  <1>9. CASE UNCHANGED vars
    <2>1. Quiet
      BY <1>9 DEF Quiet, vars, memVars, historyVars
    <2> QED
      BY <1>1, <2>1
  <1> QED
    BY <1>2, <1>3, <1>4, <1>5, <1>6, <1>7, <1>8, <1>9 DEF Next

\* The journal holds the user's values whenever the app has the proxy.
THEOREM JournalHoldsTheirs == FixedTarget => (Spec => []RInv)
  <1> SUFFICES ASSUME FixedTarget PROVE Spec => []RInv
    OBVIOUS
  <1>1. Init => RInv
    BY InitRInv
  <1>2. IInv /\ RInv /\ [Next]_vars => RInv'
    BY StepRInv
  <1> QED
    BY <1>1, <1>2, Invariant, PTL DEF Spec

\* Whenever the app has the proxy the process may end at once: the journal is
\* there, the next start can use it, and what recovery leaves are the user's
\* own values.
THEOREM CrashIsSafe == FixedTarget => (Spec => []CrashSafe)
  <1> SUFFICES ASSUME FixedTarget PROVE Spec => []CrashSafe
    OBVIOUS
  <1>1. IInv /\ RInv => CrashSafe
    BY RecoveredIsTheirs DEF CrashSafe
  <1> QED
    BY <1>1, Invariant, JournalHoldsTheirs, PTL

LEMMA StepGivesBack ==
  ASSUME FixedTarget, IInv, RInv, [Next]_vars, Ours, ~taken', ~spoiled
  PROVE  AreTheirs(registry')
  <1>1. /\ registry \in Snapshots /\ OnTarget(registry) /\ taken /\ taken \in BOOLEAN
    BY DEF IInv, TypeOK, Ours, OnTarget
  <1>2. ASSUME NEW p \in Processes, pc[p] \in Locked(p) \ {"own", "rollback", "rearm", "set"},
               registry' = RestoreIfUnchanged(old_windows_proxy, owned_windows_proxy, registry),
               p # "guard"
        PROVE  AreTheirs(registry')
    <2>1. Firm /\ Settled /\ pc["init"] # "boot" /\ pc["guard"] # "own"
      BY <1>2, Alone, Threads DEF Firm, Settled, Enabling, Tentative
    <2>2. /\ old_windows_proxy = theirs /\ theirs \in Snapshots
          /\ owned_windows_proxy = written /\ written \in Writes
      BY <1>1, <2>1, CopiesFit
    <2> QED
      BY <1>1, <1>2, <2>2, RestoredIsTheirs DEF AreTheirs
  <1>3. CASE RecoverRestore
    BY <1>3, RecoveredIsTheirs DEF RecoverRestore
  <1>4. ASSUME NEW p \in Updaters, DisableSkip(p) \/ DisableGiveBack(p)
        PROVE  AreTheirs(registry')
    <2>1. pc[p] \in Locked(p) /\ pc[p] \in {"disable", "give_back"} /\ p \in Processes
          /\ p # "guard"
      BY <1>4, Threads DEF DisableSkip, DisableGiveBack, Locked, Disabling
    <2>2. Firm /\ Settled /\ pc["init"] # "boot" /\ pc["guard"] # "own"
      BY <2>1, Alone, Threads DEF Firm, Settled, Enabling, Tentative
    <2>3. ~DisableSkip(p) /\ old_windows_proxy # None
      BY <1>1, <2>2, NothingLeft, CopiesFit DEF DisableSkip
    <2> QED
      BY <1>2, <1>4, <2>1, <2>3 DEF DisableGiveBack
  <1>5. CASE ResetRestore
    <2>1. pc["exit"] \in Locked("exit") /\ pc["exit"] = "reset"
      BY <1>5 DEF ResetRestore, Locked
    <2>2. Firm /\ Settled /\ pc["init"] # "boot" /\ pc["guard"] # "own"
      BY <2>1, Alone, Threads DEF Firm, Settled, Enabling, Tentative
    <2>3. Matches(registry, cur_sysproxy) /\ old_windows_proxy # None
      BY <1>1, <2>2, NothingLeft, CopiesFit
    <2> QED
      BY <1>2, <1>5, <2>1, <2>3, Threads DEF ResetRestore, ResetValues
  <1>6. ASSUME NEW p \in Updaters, Rollback(p)
        PROVE  AreTheirs(registry')
    <2>1. pc[p] = "rollback" /\ registry' = op.snap /\ ~op.taken
      BY <1>1, <1>6 DEF Rollback
    <2>2. theirs = op.snap
      BY <1>1, <2>1, Known DEF UntouchedBy, Original, Enabling, Tentative
    <2> QED
      BY <2>1, <2>2 DEF AreTheirs
  <1>7. ASSUME NEW p \in Updaters, Update(p), ~DisableSkip(p), ~DisableGiveBack(p), ~Rollback(p)
        PROVE  taken'
    BY <1>7, <1>1
       DEF Update, Release, After, Undo, EnableCapture, EnableRefused, EnablePrepare, EnableSet,
           EnableSetErr, Take, EnableOwn, EnableOwnErr, Rearm, DisableOwned, DisableErr,
           DisableForget, historyVars
  <1>8. CASE Guard \/ (Reset /\ ~ResetRestore) \/ (Recover /\ ~RecoverRestore)
    BY <1>8, <1>1 DEF Guard, GuardBegin, GuardRefused, GuardAcquire, GuardSet, GuardSetErr, GuardOwn,
           GuardReturn, Reset, ExitBegin, ResetAcquire, ResetErr, ResetClear, Recover,
           RecoverNothing, RecoverErr, RecoverClear, historyVars
  <1>9. CASE \/ InitAcquire \/ InitBegin \/ PatchBegin \/ PatchErr \/ HealBegin \/ ProcessEnds
             \/ External \/ UNCHANGED vars \/ \E p \in Updaters : UpdateAcquire(p)
    BY <1>9, <1>1 DEF InitAcquire, InitBegin, PatchBegin, PatchErr, HealBegin, ProcessEnds, External,
           UpdateAcquire, historyVars, vars
  <1> QED
    BY <1>3, <1>4, <1>5, <1>6, <1>7, <1>8, <1>9 DEF Next, Recover, Reset

\* However the proxy is given up, by a patch, at the exit, by recovery or by
\* the rollback of a failed enable, the user's own values come back.
THEOREM TheirsComeBack == FixedTarget => (Spec => GivesBack)
  <1> SUFFICES ASSUME FixedTarget PROVE Spec => GivesBack
    OBVIOUS
  <1>1. IInv /\ RInv /\ [Next]_vars => [Ours /\ ~taken' /\ ~spoiled => AreTheirs(registry')]_vars
    BY StepGivesBack
  <1> QED
    BY <1>1, Invariant, JournalHoldsTheirs, PTL DEF Spec, GivesBack
=============================================================================
