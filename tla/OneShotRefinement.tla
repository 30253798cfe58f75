------------------------- MODULE OneShotRefinement -------------------------
(***************************************************************************)
(* OneShotScheduler implements Debounce: every step of its threads and     *)
(* workers is a step of the abstract scheduler, or none.                   *)
(***************************************************************************)
EXTENDS OneShotSchedulerProofs

\* What a worker sleeps for was accepted by a call, and what is registered as
\* running is neither waiting nor ended.
HeldOK ==
    /\ \A w \in Generations : wpc[w] = "wait" =>
          wgen[w] \in Generations /\ fate[wgen[w]] \notin {"none", "drawn"}
    /\ \A g \in running : fate[g] = "running"

LEMMA InitHeld == Init => HeldOK
  BY DEF Init, HeldOK

LEMMA StepHeld ==
  ASSUME IInv, HeldOK, [Next]_vars
  PROVE  HeldOK'
  <1> USE DEF IInv, TypeOK
  <1>1. ASSUME UNCHANGED <<wpc, wgen, running, fate>> PROVE HeldOK'
    BY <1>1 DEF HeldOK
  <1>2. ASSUME NEW c \in Schedulers, NEW k \in Keys, NEW kind \in Kinds, ScheduleBegin(c, k, kind)
        PROVE  HeldOK'
    <2>1. next_generation \in Generations /\ fate[next_generation] = "none"
      BY <1>2 DEF ScheduleBegin, FreshOK, Generations
    <2> QED
      BY <1>2, <2>1 DEF ScheduleBegin, HeldOK, workerVars
  <1>3. ASSUME NEW c \in Callers, CallerStep(c) PROVE HeldOK'
    <2>1. CASE ScheduleUpdate(c)
      <3> DEFINE g == carg[c].generation
                 old == jobs[gkey[g]].generation
      <3>1. g \in Generations /\ fate[g] = "drawn" /\ old \in Generations /\ fate[old] = "pending"
        BY <2>1 DEF ScheduleUpdate, DrawnOK, EntryOK
      <3>2. /\ UNCHANGED <<wpc, wgen, running>>
            /\ fate' = [fate EXCEPT ![g] = "pending", ![old] = "superseded"]
        BY <2>1 DEF ScheduleUpdate, workerVars
      <3> HIDE DEF g, old
      <3> QED
        BY <3>1, <3>2 DEF HeldOK
    <2>2. CASE ScheduleReject(c) \/ ScheduleInsert(c)
      BY <2>2 DEF ScheduleReject, ScheduleInsert, DrawnOK, HeldOK, workerVars
    <2>3. CASE CancelRemove(c) \/ CancelAllDrain(c)
      <3>1. \A g \in Generations : fate'[g] = fate[g] \/ (fate[g] = "pending" /\ fate'[g] = "cancelled")
        BY <2>3 DEF CancelRemove, CancelAllDrain, Remove, Removable, Pending, EntryOK
      <3>2. UNCHANGED <<wpc, wgen, running>>
        BY <2>3 DEF CancelRemove, CancelAllDrain, Remove, workerVars
      <3> QED
        BY <3>1, <3>2 DEF HeldOK
    <2> QED
      BY <1>1, <1>3, <2>1, <2>2, <2>3
         DEF CallerStep, CancelNotify, CancelAllNotify, NotifyRemoved, CancelAbort, workerVars,
             CancelAllAbort, AbortRemoved, CancelCollect, CancelAllCollect, CollectTokens,
             CancelSignal
  <1>4. ASSUME NEW w \in Generations, WorkerStep(w) \/ WorkerFinish(w) PROVE HeldOK'
    <2>1. CASE WorkerRead(w)
      <3>1. workerKey(w) \in Keys
        BY DEF workerKey
      <3> QED
        BY <2>1, <3>1 DEF WorkerRead, WorkerEnds, EntryOK, HeldOK
    <2>2. CASE WorkerNotified(w) \/ WorkerDeadline(w)
      BY <2>2 DEF WorkerNotified, WorkerDeadline, HeldOK
    <2>3. CASE WorkerFire(w)
      <3>1. workerKey(w) \in Keys
        BY DEF workerKey
      <3> QED
        BY <2>3, <3>1 DEF WorkerFire, WorkerEnds, StillCurrent, Register, EntryOK, HeldOK
    <2>4. CASE WorkerFinish(w) \/ WorkerKilled(w)
      BY <2>4 DEF WorkerFinish, WorkerKilled, WorkerEnds, Unregister, FiredOK, HeldOK
    <2> QED
      BY <1>4, <2>1, <2>2, <2>3, <2>4 DEF WorkerStep
  <1> QED
    BY <1>1, <1>2, <1>3, <1>4
       DEF Next, vars, CancelBegin, CancelAllBegin, CallBegin, Elapse, workerVars

-----------------------------------------------------------------------------

LEMMA BusyIsPending ==
  ASSUME IInv
  PROVE  Promise!Busy = Pending
  BY DEF IInv, EntryOK, Pending, Promise!Busy, Absent, Generations

\* The instance has a Cardinality of its own.
LEMMA SameCardinality == \A S : Promise!Cardinality(S) = Cardinality(S)
  BY DEF Cardinality, Promise!Cardinality

LEMMA WaitingChanges ==
  ASSUME NEW k \in Keys, NEW entry, jobs \in [Keys -> Entries],
         jobs' = [jobs EXCEPT ![k] = entry]
  PROVE  [q \in Keys |-> jobs'[q].generation]
            = [[q \in Keys |-> jobs[q].generation] EXCEPT ![k] = entry.generation]
  OBVIOUS

LEMMA InitPromise == Init => Promise!Init
  BY DEF Init, Promise!Init, Absent

\* The steps that change what the abstract scheduler shows.
LEMMA StepPromise ==
  ASSUME IInv, IInv', HeldOK, [Next]_vars
  PROVE  [Promise!Next]_(Promise!promise)
  <1> DEFINE waiting  == [k \in Keys |-> jobs[k].generation]
             answered == {g \in Generations : fate[g] \notin {"none", "drawn"}}
  <1> USE DEF IInv, TypeOK
  <1>0. ASSUME waiting' = waiting, due' = due, answered' = answered, running' = running
        PROVE  [Promise!Next]_(Promise!promise)
    BY <1>0 DEF Promise!promise
  <1>1. ASSUME NEW c \in Callers, ScheduleUpdate(c) \/ ScheduleReject(c) \/ ScheduleInsert(c)
        PROVE  Promise!Next
    <2>1. PICK g \in Generations, k \in Keys :
             g = carg[c].generation /\ k = gkey[g] /\ fate[g] = "drawn"
      BY <1>1 DEF ScheduleUpdate, ScheduleReject, ScheduleInsert, DrawnOK
    <2>2. CASE ScheduleReject(c)
      <3>1. Promise!Reject(g)
        <4>1. answered' = answered \cup {g} /\ g \notin answered
          BY <2>1, <2>2 DEF ScheduleReject
        <4>2. UNCHANGED <<waiting, due, running>> /\ Cardinality(Promise!Busy) >= MaxPending
          BY <2>2, BusyIsPending DEF ScheduleReject, Full
        <4> QED
          BY <4>1, <4>2, SameCardinality DEF Promise!Reject
      <3> QED
        BY <2>1, <3>1 DEF Promise!Next
    <2>3. CASE ScheduleUpdate(c) \/ ScheduleInsert(c)
      <3>1. waiting' = [waiting EXCEPT ![k] = g]
        <4>1. PICK entry : jobs' = [jobs EXCEPT ![k] = entry] /\ entry.generation = g
          <5>1. CASE ScheduleUpdate(c)
            <6>1. jobs' = [jobs EXCEPT ![k] = [jobs[k] EXCEPT !.generation = g]]
              BY <2>1, <5>1 DEF ScheduleUpdate
            <6>2. [jobs[k] EXCEPT !.generation = g].generation = g
              BY <2>1 DEF Entries
            <6> QED
              BY <6>1, <6>2
          <5>2. CASE ScheduleInsert(c)
            <6>1. jobs' = [jobs EXCEPT ![k] = [generation |-> g, handle |-> g]]
              BY <2>1, <5>2 DEF ScheduleInsert
            <6>2. [generation |-> g, handle |-> g].generation = g
              OBVIOUS
            <6> QED
              BY <6>1, <6>2, Zenon
          <5> QED
            BY <2>3, <5>1, <5>2
        <4> QED
          BY <2>1, <4>1, WaitingChanges
      <3>2. answered' = answered \cup {g} /\ g \notin answered
        BY <2>1, <2>3 DEF ScheduleUpdate, ScheduleInsert, EntryOK
      <3>3. k \in Promise!Busy \/ Cardinality(Promise!Busy) < MaxPending
        <4>1. k \in Pending \/ ~Full
          BY <2>1, <2>3 DEF ScheduleUpdate, ScheduleInsert, Pending
        <4>2. ~Full => Cardinality(Pending) < MaxPending
          BY PendingFinite, SchedulerAssumption DEF Full
        <4> QED
          BY <4>1, <4>2, BusyIsPending
      <3>4. UNCHANGED <<due, running>>
        BY <2>3 DEF ScheduleUpdate, ScheduleInsert
      <3>5. Promise!Accept(k, g)
        BY <3>1, <3>2, <3>3, <3>4, SameCardinality DEF Promise!Accept
      <3> QED
        BY <2>1, <3>5 DEF Promise!Next
    <2> QED
      BY <1>1, <2>2, <2>3
  <1>2. ASSUME NEW c \in Callers, CancelRemove(c) \/ CancelAllDrain(c)
        PROVE  Promise!Next
    <2>1. PICK K \in SUBSET Keys : K = Pending \cap carg[c].keys
      BY DEF Pending
    <2>2. waiting' = [k \in Keys |-> IF k \in K THEN 0 ELSE waiting[k]]
      BY <1>2, <2>1 DEF CancelRemove, CancelAllDrain, Remove, Removable, Absent
    <2>3. answered' = answered
      BY <1>2 DEF CancelRemove, CancelAllDrain, Remove, Removable, EntryOK, Pending
    <2>4. UNCHANGED <<due, running>>
      BY <1>2 DEF CancelRemove, CancelAllDrain, Remove
    <2>5. Promise!Cancel(K)
      BY <2>2, <2>3, <2>4 DEF Promise!Cancel
    <2> QED
      BY <2>5 DEF Promise!Next
  <1>3. ASSUME NEW w \in Generations, WorkerFire(w)
        PROVE  [Promise!Next]_(Promise!promise)
    <2>1. PICK k \in Keys : k = workerKey(w)
      BY DEF workerKey
    <2>2. CASE jobs[k] # Absent /\ StillCurrent(w)
      <3>1. /\ jobs[k].generation = wgen[w] /\ wgen[w] \in due /\ wgen[w] \in Generations
            /\ fate[wgen[w]] = "pending"
        BY <1>3, <2>1, <2>2 DEF WorkerFire, StillCurrent, FiredOK, EntryOK
      <3>2. waiting[k] \in due \ running /\ k \in Promise!Busy
        BY <2>1, <2>2, <3>1, BusyIsPending DEF HeldOK, Pending
      <3>3. waiting' = [waiting EXCEPT ![k] = 0] /\ running' = running \cup {waiting[k]}
        <4>1. jobs' = [jobs EXCEPT ![k] = Absent] /\ running' = running \cup {wgen[w]}
          BY <1>3, <2>1, <2>2 DEF WorkerFire, Without, Register
        <4>2. waiting[k] = wgen[w]
          BY <2>1, <3>1
        <4>3. Absent.generation = 0
          BY DEF Absent
        <4>4. waiting' = [waiting EXCEPT ![k] = Absent.generation]
          BY <2>1, <4>1, WaitingChanges
        <4> QED
          BY <4>1, <4>2, <4>3, <4>4
      <3>4. answered' = answered /\ due' = due
        BY <1>3, <2>1, <2>2, <3>1 DEF WorkerFire
      <3>5. Promise!Run(k)
        BY <3>2, <3>3, <3>4 DEF Promise!Run
      <3> QED
        BY <2>1, <3>5 DEF Promise!Next
    <2>3. CASE ~(jobs[k] # Absent /\ StillCurrent(w))
      BY <1>0, <1>3, <2>1, <2>3 DEF WorkerFire
    <2> QED
      BY <2>2, <2>3
  <1>4. ASSUME NEW w \in Generations, WorkerFinish(w) \/ WorkerKilled(w)
        PROVE  [Promise!Next]_(Promise!promise)
    <2>1. CASE wpc[w] = "running"
      <3>1. fate[wgen[w]] = "running" /\ wgen[w] \in Generations
        BY <2>1 DEF FiredOK
      <3>2. answered' = answered /\ waiting' = waiting /\ due' = due /\ running' = running \ {wgen[w]}
        BY <1>4, <2>1, <3>1 DEF WorkerFinish, WorkerKilled, Unregister
      <3>3. CASE wgen[w] \in running
        <4>1. Promise!End(wgen[w])
          BY <3>2, <3>3 DEF Promise!End
        <4> QED
          BY <3>1, <4>1 DEF Promise!Next
      <3>4. CASE wgen[w] \notin running
        BY <1>0, <3>2, <3>4
      <3> QED
        BY <3>3, <3>4
    <2>2. CASE wpc[w] # "running"
      BY <1>0, <1>4, <2>2 DEF WorkerFinish, WorkerKilled
    <2> QED
      BY <2>1, <2>2
  <1>5. ASSUME NEW g \in Generations, Elapse(g)
        PROVE  Promise!Next
    <2>1. g \in answered \ due /\ due' = due \cup {g}
      BY <1>5 DEF Elapse, HeldOK
    <2>2. UNCHANGED <<waiting, answered, running>>
      BY <1>5 DEF Elapse
    <2>3. Promise!Elapse(g)
      BY <2>1, <2>2 DEF Promise!Elapse
    <2> QED
      BY <2>3 DEF Promise!Next
  <1>6. ASSUME NEW c \in Schedulers, NEW k \in Keys, NEW kind \in Kinds, ScheduleBegin(c, k, kind)
        PROVE  [Promise!Next]_(Promise!promise)
    <2>1. next_generation \in Generations /\ fate[next_generation] = "none"
      BY <1>6 DEF ScheduleBegin, FreshOK, Generations
    <2>2. answered' = answered
      BY <1>6, <2>1 DEF ScheduleBegin
    <2> QED
      BY <1>0, <1>6, <2>2 DEF ScheduleBegin
  <1>7. ASSUME UNCHANGED <<jobs, due, fate, running>>
        PROVE  [Promise!Next]_(Promise!promise)
    BY <1>0, <1>7
  <1>8. ASSUME NEW c \in Callers, CallerStep(c)
        PROVE  [Promise!Next]_(Promise!promise)
    BY <1>1, <1>2, <1>7, <1>8
       DEF CallerStep, CancelNotify, CancelAllNotify, NotifyRemoved, CancelAbort,
           CancelAllAbort, AbortRemoved, CancelCollect, CancelAllCollect, CollectTokens,
           CancelSignal
  <1>9. ASSUME NEW w \in Generations, WorkerStep(w)
        PROVE  [Promise!Next]_(Promise!promise)
    BY <1>3, <1>4, <1>7, <1>9
       DEF WorkerStep, WorkerRead, WorkerNotified, WorkerDeadline
  <1> QED
    BY <1>4, <1>5, <1>6, <1>7, <1>8, <1>9
       DEF Next, vars, CancelBegin, CancelAllBegin, CallBegin

\* The safety part of KeepsPromise: for any keys, threads and limits the workers,
\* wakeups and aborts of one_shot.rs do nothing that a scheduler without them,
\* with at most one waiting call per key, does not do.
THEOREM SchedulerKeepsPromise == Spec => Promise!Safety
  <1>1. Init => Promise!Init
    BY InitPromise
  <1>2. Spec => []HeldOK
    <2>1. IInv /\ HeldOK /\ [Next]_vars => HeldOK'
      BY StepHeld
    <2> QED
      BY InitHeld, <2>1, Invariant, PTL DEF Spec
  <1>3. IInv /\ IInv' /\ HeldOK /\ [Next]_vars => [Promise!Next]_(Promise!promise)
    BY StepPromise
  <1> QED
    BY <1>1, <1>2, <1>3, Invariant, PTL DEF Spec, Promise!Safety
=============================================================================
