----------------------- MODULE OneShotSchedulerProofs -----------------------
(***************************************************************************)
(* Proofs about OneShotScheduler, for any keys, threads and limits.        *)
(***************************************************************************)
EXTENDS OneShotScheduler, FiniteSetTheorems, TLAPS

\* An entry carries a drawn generation of its own key that still waits, and
\* the worker that was spawned when the entry was created.
EntryOK ==
    \A k \in Keys : jobs[k] # Absent =>
        /\ jobs[k].generation \in Generations
        /\ jobs[k].handle \in Generations
        /\ jobs[k].handle < next_generation
        /\ gkey[jobs[k].generation] = k
        /\ fate[jobs[k].generation] = "pending"

\* A generation that has not been drawn has left no trace.
FreshOK ==
    \A g \in Generations : g >= next_generation => wpc[g] = "none" /\ fate[g] = "none"

\* A thread inside schedule_one_shot owns the generation it drew.
DrawnOK ==
    \A c \in Callers : cpc[c] = "schedule" =>
        /\ carg[c].generation \in Generations
        /\ carg[c].generation < next_generation
        /\ wpc[carg[c].generation] = "none"
        /\ fate[carg[c].generation] = "drawn"
        /\ \A d \in Callers : cpc[d] = "schedule" /\ d # c =>
              carg[d].generation # carg[c].generation

\* A worker that a thread is about to abort serves no entry any more.
CancelOK ==
    \A c \in Callers : \A h \in carg[c].handles :
        /\ h < next_generation
        /\ wpc[h] # "none"
        /\ \A k \in Keys : jobs[k].handle # h

AbortedOK == \A w \in aborted : wpc[w] # "none"

\* A worker past its deadline holds a generation that is due; a running one
\* holds a generation that no other worker runs.
FiredOK ==
    \A w \in Generations :
        /\ wpc[w] \in {"due", "running"} => wgen[w] \in due
        /\ wpc[w] = "running" =>
              /\ fate[wgen[w]] = "running"
              /\ \A v \in Generations : wpc[v] = "running" /\ v # w => wgen[v] # wgen[w]

IInv == /\ TypeOK /\ EntryOK /\ EntryHasWorker /\ FreshOK /\ DrawnOK /\ CancelOK
        /\ AbortedOK /\ FiredOK /\ NeverEarly

-----------------------------------------------------------------------------

LEMMA CallTyped ==
  /\ NoCall \in Calls
  /\ \A n \in Generations : [NoCall EXCEPT !.generation = n] \in Calls
  BY SchedulerAssumption DEF NoCall, Calls, Generations

LEMMA InitIInv == Init => IInv
  <1> SUFFICES ASSUME Init PROVE IInv
    OBVIOUS
  <1>1. (CHOOSE k \in Keys : TRUE) \in Keys
    BY SchedulerAssumption
  <1>2. TypeOK
    BY <1>1, CallTyped, SchedulerAssumption
       DEF Init, TypeOK, Entries, Absent, WorkerPlaces, CallerPlaces, Kinds, Fates
  <1>3. Pending = {}
    BY DEF Init, Pending
  <1>4. EntryOK /\ EntryHasWorker
    BY <1>3 DEF Init, EntryOK, EntryHasWorker, Pending
  <1>5. FreshOK /\ DrawnOK /\ CancelOK /\ AbortedOK
    BY DEF Init, FreshOK, DrawnOK, CancelOK, AbortedOK, NoCall
  <1>6. FiredOK /\ NeverEarly
    BY DEF Init, FiredOK, NeverEarly
  <1> QED
    BY <1>2, <1>4, <1>5, <1>6 DEF IInv

-----------------------------------------------------------------------------
(* The steps of schedule_one_shot.                                         *)

LEMMA ScheduleBeginIInv ==
  ASSUME IInv, NEW c \in Schedulers, NEW k \in Keys, NEW kind \in Kinds,
         ScheduleBegin(c, k, kind)
  PROVE  IInv'
  <1> USE DEF ScheduleBegin, IInv, workerVars, Callers
  <1>1. next_generation \in Generations
    BY DEF TypeOK, Generations
  <1>2. TypeOK'
    <2>1. carg' \in [Callers -> Calls]
      BY <1>1, CallTyped DEF TypeOK
    <2>2. next_generation' \in 1..(MaxGeneration + 1)
      BY <1>1, SchedulerAssumption DEF Generations
    <2>3. /\ cpc' \in [Callers -> CallerPlaces]
          /\ fate' \in [Generations -> Fates]
          /\ gkey' \in [Generations -> Keys]
          /\ gkind' \in [Generations -> Kinds]
      BY <1>1 DEF TypeOK, CallerPlaces, Fates
    <2> QED
      BY <2>1, <2>2, <2>3 DEF TypeOK
  <1>3. EntryOK'
    BY <1>1 DEF TypeOK, EntryOK, FreshOK, Generations
  <1>4. EntryHasWorker'
    BY <1>1 DEF TypeOK, EntryOK, EntryHasWorker, Pending, Generations
  <1>5. FreshOK'
    BY <1>1 DEF TypeOK, FreshOK, Generations
  <1>6. DrawnOK'
    BY <1>1 DEF TypeOK, DrawnOK, FreshOK, Generations, NoCall
  <1>7. CancelOK' /\ AbortedOK'
    <2>1. \A d \in Callers : \A h \in carg'[d].handles : d # c /\ h \in carg[d].handles
      BY DEF TypeOK, NoCall
    <2>2. next_generation \in Nat /\ \A d \in Callers : carg[d].handles \subseteq Generations
      BY DEF TypeOK, Calls, Generations
    <2> QED
      BY <2>1, <2>2 DEF CancelOK, AbortedOK, Generations
  <1>8. fate[next_generation] = "none" /\ \A g \in Generations : fate'[g] # fate[g] =>
           g = next_generation /\ fate'[g] = "drawn"
    BY <1>1 DEF TypeOK, FreshOK, Generations
  <1>9. FiredOK'
    BY <1>1, <1>8 DEF TypeOK, FiredOK
  <1>10. NeverEarly'
    BY <1>1, <1>8 DEF NeverEarly
  <1> QED
    BY <1>2, <1>3, <1>4, <1>5, <1>6, <1>7, <1>9, <1>10

LEMMA ScheduleUpdateIInv ==
  ASSUME IInv, NEW c \in Callers, ScheduleUpdate(c)
  PROVE  IInv'
  <1> DEFINE g == carg[c].generation
             k == gkey[g]
             old == jobs[k]
  <1> USE DEF ScheduleUpdate, NotifyOne, IInv, workerVars, jobVars
  <1>1. /\ g \in Generations /\ k \in Keys /\ old # Absent
        /\ old.generation \in Generations /\ old.generation # g
        /\ fate[g] = "drawn" /\ fate[old.generation] = "pending"
    BY DEF TypeOK, DrawnOK, EntryOK
  <1>2. TypeOK'
    <2>1. carg' \in [Callers -> Calls]
      BY CallTyped DEF TypeOK
    <2>2. cpc' \in [Callers -> CallerPlaces]
      BY DEF TypeOK, CallerPlaces
    <2>3. jobs' \in [Keys -> Entries]
      BY <1>1 DEF TypeOK, Entries, Generations
    <2>5. permit' \in [Generations -> BOOLEAN]
      BY DEF TypeOK
    <2>4. fate' \in [Generations -> Fates]
      BY <1>1 DEF TypeOK, Fates
    <2> QED
      BY <2>1, <2>2, <2>3, <2>4, <2>5 DEF TypeOK
  <1>3. /\ jobs'[k] = [generation |-> g, handle |-> old.handle]
        /\ \A x \in Keys : x # k => jobs'[x] = jobs[x]
        /\ \A x \in Keys : jobs'[x].handle = jobs[x].handle
    BY <1>1 DEF TypeOK, Entries
  <1>4. \A x \in Keys : jobs'[x] # Absent <=> jobs[x] # Absent
    BY <1>1, <1>3 DEF Absent, Generations
  <1>5. EntryOK'
    <2> SUFFICES ASSUME NEW x \in Keys, jobs'[x] # Absent
                 PROVE  /\ jobs'[x].generation \in Generations
                        /\ jobs'[x].handle \in Generations
                        /\ jobs'[x].handle < next_generation
                        /\ gkey[jobs'[x].generation] = x
                        /\ fate'[jobs'[x].generation] = "pending"
      BY DEF EntryOK
    <2>1. CASE x = k
      BY <1>1, <1>3, <2>1 DEF TypeOK, EntryOK
    <2>2. CASE x # k
      <3>1. jobs'[x] = jobs[x] /\ jobs[x].generation # g /\ jobs[x].generation # old.generation
        BY <1>1, <1>3, <2>2 DEF EntryOK
      <3> QED
        BY <3>1, <1>4 DEF TypeOK, EntryOK
    <2> QED
      BY <2>1, <2>2
  <1>6. EntryHasWorker'
    <2>1. Pending' = Pending
      BY <1>4 DEF Pending
    <2>2. \A x \in Pending : jobs'[x].handle = jobs[x].handle
      BY <1>3 DEF Pending
    <2> QED
      BY <2>1, <2>2 DEF EntryHasWorker
  <1>7. FreshOK'
    BY <1>1 DEF TypeOK, FreshOK, DrawnOK
  <1>8. DrawnOK'
    BY <1>1 DEF TypeOK, DrawnOK, NoCall
  <1>9. CancelOK' /\ AbortedOK'
    BY <1>3 DEF TypeOK, CancelOK, AbortedOK, NoCall
  <1>10. FiredOK' /\ NeverEarly'
    BY <1>1 DEF TypeOK, FiredOK, NeverEarly
  <1> QED
    BY <1>2, <1>5, <1>6, <1>7, <1>8, <1>9, <1>10

LEMMA ScheduleRejectIInv ==
  ASSUME IInv, NEW c \in Callers, ScheduleReject(c)
  PROVE  IInv'
  <1> USE DEF ScheduleReject, IInv, workerVars, jobVars
  <1>1. /\ carg[c].generation \in Generations
        /\ fate[carg[c].generation] = "drawn"
        /\ carg[c].generation < next_generation
    BY DEF DrawnOK
  <1>2. TypeOK'
    <2>1. carg' \in [Callers -> Calls]
      BY CallTyped DEF TypeOK
    <2>2. cpc' \in [Callers -> CallerPlaces]
      BY DEF TypeOK, CallerPlaces
    <2>3. fate' \in [Generations -> Fates]
      BY DEF TypeOK, Fates
    <2> QED
      BY <2>1, <2>2, <2>3 DEF TypeOK
  <1>3. EntryOK' /\ EntryHasWorker'
    BY <1>1 DEF TypeOK, EntryOK, EntryHasWorker, Pending
  <1>4. FreshOK' /\ DrawnOK'
    BY <1>1 DEF TypeOK, FreshOK, DrawnOK, NoCall, Generations
  <1>5. CancelOK' /\ AbortedOK' /\ FiredOK' /\ NeverEarly'
    BY <1>1 DEF TypeOK, CancelOK, AbortedOK, FiredOK, NeverEarly, NoCall
  <1> QED
    BY <1>2, <1>3, <1>4, <1>5

LEMMA ScheduleInsertIInv ==
  ASSUME IInv, NEW c \in Callers, ScheduleInsert(c)
  PROVE  IInv'
  <1> DEFINE g == carg[c].generation
             k == gkey[g]
  <1> USE DEF ScheduleInsert, IInv, jobVars
  <1>1. /\ g \in Generations /\ k \in Keys /\ g < next_generation
        /\ wpc[g] = "none" /\ fate[g] = "drawn" /\ g \notin aborted
    BY DEF TypeOK, DrawnOK, AbortedOK
  <1>2. TypeOK'
    <2>1. carg' \in [Callers -> Calls]
      BY CallTyped DEF TypeOK
    <2>2. cpc' \in [Callers -> CallerPlaces]
      BY DEF TypeOK, CallerPlaces
    <2>3. /\ jobs' \in [Keys -> Entries]
          /\ wpc' \in [Generations -> WorkerPlaces]
      BY <1>1 DEF TypeOK, Entries, Generations, WorkerPlaces
    <2>4. fate' \in [Generations -> Fates]
      BY <1>1 DEF TypeOK, Fates
    <2> QED
      BY <2>1, <2>2, <2>3, <2>4 DEF TypeOK
  <1>3. /\ jobs'[k] = [generation |-> g, handle |-> g]
        /\ \A x \in Keys : x # k => jobs'[x] = jobs[x]
    BY <1>1 DEF TypeOK
  <1>4. EntryOK'
    BY <1>1, <1>3 DEF TypeOK, EntryOK
  <1>5. EntryHasWorker'
    BY <1>1, <1>3 DEF TypeOK, EntryOK, EntryHasWorker, Pending
  <1>6. FreshOK' /\ DrawnOK'
    BY <1>1 DEF TypeOK, FreshOK, DrawnOK, NoCall, Generations
  <1>7. CancelOK' /\ AbortedOK'
    BY <1>1, <1>3 DEF TypeOK, CancelOK, AbortedOK, NoCall
  <1>8. FiredOK' /\ NeverEarly'
    BY <1>1 DEF TypeOK, FiredOK, NeverEarly
  <1> QED
    BY <1>2, <1>4, <1>5, <1>6, <1>7, <1>8

-----------------------------------------------------------------------------
(* The steps of cancel and cancel_all.                                     *)

LEMMA CallBeginIInv ==
  ASSUME IInv, NEW c \in Callers, NEW K \in SUBSET Keys,
         NEW place \in {"cancel", "all"}, CallBegin(c, K, place)
  PROVE  IInv'
  <1> USE DEF CallBegin, IInv, workerVars, jobVars
  <1>1. TypeOK'
    <2>1. carg' \in [Callers -> Calls]
      <3> DEFINE before == {g \in Generations : gkey[g] \in K /\ fate[g] \in {"pending", "running"}}
      <3>1. before \in SUBSET Generations /\ 0 \in 0..MaxGeneration
        BY SchedulerAssumption
      <3>2. carg' = [carg EXCEPT ![c] = [generation |-> 0, keys |-> K, handles |-> {},
                                         tokens |-> {}, before |-> before]]
        OBVIOUS
      <3> HIDE DEF before
      <3> QED
        BY <3>1, <3>2 DEF TypeOK, Calls
    <2>2. cpc' \in [Callers -> CallerPlaces]
      BY DEF TypeOK, CallerPlaces
    <2> QED
      BY <2>1, <2>2 DEF TypeOK
  <1>2. EntryOK' /\ EntryHasWorker' /\ FreshOK' /\ AbortedOK'
    BY DEF EntryOK, EntryHasWorker, Pending, FreshOK, AbortedOK
  <1>3. DrawnOK' /\ CancelOK'
    BY DEF TypeOK, DrawnOK, CancelOK, NoCall
  <1>4. FiredOK' /\ NeverEarly'
    BY DEF FiredOK, NeverEarly
  <1> QED
    BY <1>1, <1>2, <1>3, <1>4

LEMMA RemoveIInv ==
  ASSUME IInv, NEW c \in Callers, NEW from \in {"cancel", "all"},
         NEW to \in {"cancel_notify", "all_collect"}, Remove(c, from, to)
  PROVE  IInv'
  <1> DEFINE removed == Pending \cap carg[c].keys
  <1> USE DEF Remove, Removable, IInv, workerVars, jobVars
  <1>1. \A k \in removed : /\ k \in Keys /\ jobs[k].handle \in Generations
                           /\ jobs[k].generation \in Generations
                           /\ fate[jobs[k].generation] = "pending"
    BY DEF Pending, EntryOK
  <1>2. TypeOK'
    <2>1. jobs' \in [Keys -> Entries]
      BY SchedulerAssumption DEF TypeOK, Absent, Entries
    <2>2. fate' \in [Generations -> Fates]
      BY DEF TypeOK, Fates
    <2>3. {jobs[k].handle : k \in removed} \in SUBSET Generations
      BY <1>1
    <2>4. carg' \in [Callers -> Calls]
      <3> DEFINE handles == {jobs[k].handle : k \in removed}
      <3>1. [carg[c] EXCEPT !.handles = handles] \in Calls
        BY <2>3 DEF TypeOK, Calls
      <3> HIDE DEF handles
      <3>2. carg' = [carg EXCEPT ![c] = [carg[c] EXCEPT !.handles = handles]]
        BY DEF TypeOK, handles
      <3> QED
        BY <3>1, <3>2 DEF TypeOK
    <2>5. cpc' \in [Callers -> CallerPlaces]
      BY DEF TypeOK, CallerPlaces
    <2> QED
      BY <2>1, <2>2, <2>4, <2>5 DEF TypeOK
  <1>3. \A k \in Keys : jobs'[k] # Absent => k \notin removed /\ jobs'[k] = jobs[k]
    OBVIOUS
  <1>4. \A k \in Keys : jobs'[k] # Absent => fate'[jobs[k].generation] = "pending"
    <2> SUFFICES ASSUME NEW k \in Keys, jobs'[k] # Absent
                 PROVE  fate'[jobs[k].generation] = "pending"
      OBVIOUS
    <2>1. k \notin removed /\ jobs[k] # Absent
      BY <1>3
    <2>2. /\ jobs[k].generation \in Generations
          /\ fate[jobs[k].generation] = "pending"
          /\ gkey[jobs[k].generation] = k
      BY <2>1 DEF EntryOK
    <2>3. ~\E x \in removed : jobs[x].generation = jobs[k].generation
      BY <2>1, <2>2 DEF EntryOK, Pending
    <2> QED
      BY <2>2, <2>3
  <1>5. EntryOK'
    BY <1>3, <1>4 DEF EntryOK
  <1>6. EntryHasWorker'
    BY <1>3 DEF EntryHasWorker, Pending
  <1>7. \A g \in Generations : fate'[g] # fate[g] => fate[g] = "pending" /\ fate'[g] = "cancelled"
    BY <1>1 DEF TypeOK
  <1>8. FreshOK'
    BY <1>7 DEF FreshOK
  <1>9. DrawnOK'
    <2>1. \A d \in Callers : cpc'[d] = "schedule" =>
             d # c /\ cpc[d] = "schedule" /\ carg'[d].generation = carg[d].generation
      BY DEF TypeOK
    <2>2. \A d \in Callers : cpc[d] = "schedule" => fate'[carg[d].generation] = "drawn"
      BY <1>7 DEF DrawnOK
    <2> SUFFICES ASSUME NEW d \in Callers, cpc'[d] = "schedule"
                 PROVE  /\ carg'[d].generation \in Generations
                        /\ carg'[d].generation < next_generation
                        /\ wpc[carg'[d].generation] = "none"
                        /\ fate'[carg'[d].generation] = "drawn"
                        /\ \A e \in Callers : cpc'[e] = "schedule" /\ e # d =>
                              carg'[e].generation # carg'[d].generation
      BY DEF DrawnOK
    <2>3. DrawnOK
      OBVIOUS
    <2> HIDE DEF IInv, Remove
    <2> QED
      BY <2>1, <2>2, <2>3 DEF DrawnOK
  <1>10. CancelOK'
    <2> SUFFICES ASSUME NEW d \in Callers, NEW h \in carg'[d].handles
                 PROVE  /\ h < next_generation
                        /\ wpc[h] # "none"
                        /\ \A k \in Keys : jobs'[k].handle # h
      BY DEF CancelOK
    <2>1. CASE d # c
      <3>1. h \in carg[d].handles
        BY <2>1 DEF TypeOK
      <3> QED
        BY <3>1 DEF TypeOK, Calls, CancelOK, Absent, Generations
    <2>2. CASE d = c
      <3>1. PICK k \in removed : h = jobs[k].handle
        BY <2>2 DEF TypeOK
      <3>2. h \in Generations /\ h < next_generation /\ wpc[h] # "none" /\ gkey[h] = k
        BY <3>1, <1>1 DEF EntryOK, EntryHasWorker, Pending
      <3>3. \A x \in Keys : jobs'[x].handle # h
        BY <3>1, <3>2, <1>3 DEF EntryHasWorker, Pending, Absent, Generations
      <3> QED
        BY <3>2, <3>3
    <2> QED
      BY <2>1, <2>2
  <1>11. AbortedOK' /\ FiredOK'
    <2>1. \A w \in Generations : wpc[w] = "running" =>
             wgen[w] \in Generations /\ fate'[wgen[w]] = "running"
      BY <1>7 DEF TypeOK, FiredOK
    <2> QED
      BY <2>1 DEF AbortedOK, FiredOK
  <1>12. NeverEarly'
    BY <1>7 DEF NeverEarly
  <1> QED
    BY <1>2, <1>5, <1>6, <1>8, <1>9, <1>10, <1>11, <1>12

LEMMA NotifyRemovedIInv ==
  ASSUME IInv, NEW c \in Callers, NEW from \in {"cancel_notify", "all_notify"},
         NEW to \in {"cancel_abort", "all_abort"}, NotifyRemoved(c, from, to)
  PROVE  IInv'
  <1> USE DEF NotifyRemoved, IInv, workerVars, jobVars
  <1>1. permit' \in [Generations -> BOOLEAN]
    BY DEF TypeOK
  <1>2. TypeOK'
    BY <1>1 DEF TypeOK, CallerPlaces
  <1>3. EntryOK' /\ EntryHasWorker' /\ FreshOK' /\ AbortedOK' /\ FiredOK' /\ NeverEarly'
    BY DEF EntryOK, EntryHasWorker, Pending, FreshOK, AbortedOK, FiredOK, NeverEarly
  <1>4. DrawnOK' /\ CancelOK'
    BY DEF TypeOK, DrawnOK, CancelOK
  <1> QED
    BY <1>2, <1>3, <1>4

LEMMA AbortRemovedIInv ==
  ASSUME IInv, NEW c \in Callers, NEW from \in {"cancel_abort", "all_abort"},
         NEW to \in {"cancel_collect", "cancel_signal"}, AbortRemoved(c, from, to)
  PROVE  IInv'
  <1> USE DEF AbortRemoved, Aborts, IInv, jobVars
  <1>1. TypeOK'
    <2>1. aborted' \in SUBSET Generations
      BY DEF TypeOK, Calls
    <2>2. cpc' \in [Callers -> CallerPlaces]
      BY DEF TypeOK, CallerPlaces
    <2> QED
      BY <2>1, <2>2 DEF TypeOK
  <1>2. EntryOK' /\ FreshOK' /\ FiredOK' /\ NeverEarly'
    BY DEF EntryOK, FreshOK, FiredOK, NeverEarly
  <1>3. EntryHasWorker'
    BY DEF EntryHasWorker, Pending, CancelOK
  <1>4. DrawnOK' /\ CancelOK'
    BY DEF TypeOK, DrawnOK, CancelOK
  <1>5. AbortedOK'
    BY DEF AbortedOK, CancelOK
  <1> QED
    BY <1>1, <1>2, <1>3, <1>4, <1>5

LEMMA CollectTokensIInv ==
  ASSUME IInv, NEW c \in Callers, NEW from \in {"cancel_collect", "all_collect"},
         NEW to \in {"cancel_signal", "all_notify"}, CollectTokens(c, from, to)
  PROVE  IInv'
  <1> USE DEF CollectTokens, IInv, workerVars, jobVars
  <1>1. TypeOK'
    <2> DEFINE tokens == {g \in running : gkey[g] \in carg[c].keys /\ gkind[g] = "cancellable"}
    <2>1. carg' \in [Callers -> Calls]
      <3>1. [carg[c] EXCEPT !.tokens = tokens] \in Calls
        BY DEF TypeOK, Calls
      <3> HIDE DEF tokens
      <3>2. carg' = [carg EXCEPT ![c] = [carg[c] EXCEPT !.tokens = tokens]]
        BY DEF TypeOK, tokens
      <3> QED
        BY <3>1, <3>2 DEF TypeOK
    <2>2. cpc' \in [Callers -> CallerPlaces]
      BY DEF TypeOK, CallerPlaces
    <2> QED
      BY <2>1, <2>2 DEF TypeOK
  <1>2. EntryOK' /\ EntryHasWorker' /\ FreshOK' /\ AbortedOK' /\ FiredOK' /\ NeverEarly'
    BY DEF EntryOK, EntryHasWorker, Pending, FreshOK, AbortedOK, FiredOK, NeverEarly
  <1>3. DrawnOK' /\ CancelOK'
    BY DEF TypeOK, DrawnOK, CancelOK
  <1> QED
    BY <1>1, <1>2, <1>3

LEMMA CancelSignalIInv ==
  ASSUME IInv, NEW c \in Callers, CancelSignal(c)
  PROVE  IInv'
  <1> USE DEF CancelSignal, IInv, workerVars, jobVars
  <1>1. TypeOK'
    <2>1. carg' \in [Callers -> Calls]
      BY CallTyped DEF TypeOK
    <2>2. cpc' \in [Callers -> CallerPlaces]
      BY DEF TypeOK, CallerPlaces
    <2>3. token' \in SUBSET Generations
      BY DEF TypeOK, Calls
    <2> QED
      BY <2>1, <2>2, <2>3 DEF TypeOK
  <1>2. EntryOK' /\ EntryHasWorker' /\ FreshOK' /\ AbortedOK' /\ FiredOK' /\ NeverEarly'
    BY DEF EntryOK, EntryHasWorker, Pending, FreshOK, AbortedOK, FiredOK, NeverEarly
  <1>3. DrawnOK' /\ CancelOK'
    BY DEF TypeOK, DrawnOK, CancelOK, NoCall
  <1> QED
    BY <1>1, <1>2, <1>3
-----------------------------------------------------------------------------
(* The steps of the worker, and time.                                      *)

\* No entry relies on a worker that is running, done or aborted.
LEMMA NotAHandle ==
  ASSUME EntryHasWorker, NEW w \in Generations,
         wpc[w] \in {"none", "running", "done"} \/ w \in aborted
  PROVE  \A k \in Pending : jobs[k].handle # w
  BY DEF EntryHasWorker

LEMMA WorkerEndsTyped ==
  ASSUME TypeOK, NEW w \in Generations, WorkerEnds(w)
  PROVE  /\ wpc' \in [Generations -> WorkerPlaces]
         /\ wgen' \in [Generations -> 0..MaxGeneration]
         /\ wnotify' \in [Generations -> 0..MaxGeneration]
         /\ aborted' \in SUBSET Generations
  BY SchedulerAssumption DEF TypeOK, WorkerEnds, WorkerPlaces

\* A worker that no entry relies on ends; running and fate aside, that keeps
\* the invariant.
LEMMA WorkerEndsIInv ==
  ASSUME IInv, NEW w \in Generations, WorkerEnds(w), wpc[w] # "none",
         \A k \in Pending : jobs[k].handle # w,
         UNCHANGED <<jobs, next_generation, permit, token, cpc, carg, gkey, gkind, due>>
  PROVE  /\ UNCHANGED fate => EntryOK'
         /\ EntryHasWorker' /\ CancelOK' /\ AbortedOK'
         /\ UNCHANGED fate => FreshOK' /\ DrawnOK' /\ FiredOK' /\ NeverEarly'
  <1> USE DEF IInv, WorkerEnds
  <1>1. Pending' = Pending
    BY DEF Pending
  <1>2. \A v \in Generations : /\ v # w => wpc'[v] = wpc[v] /\ wgen'[v] = wgen[v]
                               /\ wpc'[w] = "done"
    BY DEF TypeOK
  <1>3. EntryHasWorker'
    <2> SUFFICES ASSUME NEW k \in Pending
                 PROVE  /\ wpc'[jobs[k].handle] \in {"spawned", "read", "wait", "due"}
                        /\ jobs[k].handle \notin aborted'
                        /\ gkey[jobs[k].handle] = k
      BY <1>1 DEF EntryHasWorker
    <2>1. jobs[k].handle \in Generations /\ jobs[k].handle # w
      BY DEF EntryOK, Pending
    <2> QED
      BY <2>1, <1>2 DEF EntryHasWorker
  <1>4. CancelOK'
    <2>1. \A c \in Callers : carg[c].handles \subseteq Generations
      BY DEF TypeOK, Calls
    <2> QED
      BY <1>2, <2>1 DEF CancelOK
  <1>5. AbortedOK'
    BY <1>2 DEF TypeOK, AbortedOK
  <1>6. ASSUME UNCHANGED fate PROVE EntryOK' /\ DrawnOK' /\ NeverEarly'
    BY <1>2, <1>6 DEF EntryOK, DrawnOK, NeverEarly
  <1>7. ASSUME UNCHANGED fate PROVE FreshOK'
    BY <1>2, <1>7 DEF FreshOK
  <1>8. ASSUME UNCHANGED fate PROVE FiredOK'
    BY <1>2, <1>8 DEF FiredOK
  <1> QED
    BY <1>3, <1>4, <1>5, <1>6, <1>7, <1>8

LEMMA WorkerReadIInv ==
  ASSUME IInv, NEW w \in Generations, WorkerRead(w)
  PROVE  IInv'
  <1> DEFINE entry == jobs[workerKey(w)]
  <1> USE DEF WorkerRead, IInv, callVars, jobVars, workerKey
  <1>1. wpc[w] \in {"read", "spawned"} /\ gkey[w] \in Keys
    BY DEF TypeOK
  <1>2. CASE entry = Absent
    <2>1. WorkerEnds(w) /\ UNCHANGED fate
      BY <1>2
    <2>2. \A k \in Pending : jobs[k].handle # w
      BY <1>2 DEF EntryHasWorker, Pending
    <2>3. TypeOK'
      BY <2>1, WorkerEndsTyped DEF TypeOK
    <2> QED
      BY <1>1, <2>1, <2>2, <2>3, WorkerEndsIInv
  <1>3. CASE entry # Absent
    <2>1. /\ entry.generation \in Generations /\ entry.handle \in Generations
          /\ wpc' = [wpc EXCEPT ![w] = "wait"]
          /\ wgen' = [wgen EXCEPT ![w] = entry.generation]
          /\ wnotify' = [wnotify EXCEPT ![w] = entry.handle]
          /\ UNCHANGED aborted
      BY <1>1, <1>3 DEF EntryOK
    <2>2. TypeOK'
      <3>1. wpc' \in [Generations -> WorkerPlaces]
        BY <2>1 DEF TypeOK, WorkerPlaces
      <3>2. entry.generation \in 0..MaxGeneration /\ entry.handle \in 0..MaxGeneration
        BY <2>1 DEF Generations
      <3>3. /\ wgen' \in [Generations -> 0..MaxGeneration]
            /\ wnotify' \in [Generations -> 0..MaxGeneration]
        BY <2>1, <3>2 DEF TypeOK
      <3> QED
        BY <2>1, <3>1, <3>3 DEF TypeOK
    <2>3. EntryOK' /\ NeverEarly'
      BY DEF EntryOK, NeverEarly
    <2>4. EntryHasWorker'
      BY <2>1 DEF TypeOK, EntryOK, EntryHasWorker, Pending
    <2>5. FreshOK' /\ DrawnOK' /\ AbortedOK'
      BY <1>1, <2>1 DEF TypeOK, FreshOK, DrawnOK, AbortedOK
    <2>6. CancelOK'
      BY <2>1 DEF TypeOK, Calls, CancelOK
    <2>7. FiredOK'
      BY <2>1 DEF TypeOK, FiredOK
    <2> QED
      BY <2>2, <2>3, <2>4, <2>5, <2>6, <2>7
  <1> QED
    BY <1>2, <1>3

\* A worker moves inside its loop and nothing else that matters changes.
LEMMA WorkerMovesIInv ==
  ASSUME IInv, NEW w \in Generations, NEW place \in {"read", "due"},
         wpc[w] \in {"wait", "due"}, place = "due" => wgen[w] \in due,
         wpc' = [wpc EXCEPT ![w] = place], permit' \in [Generations -> BOOLEAN],
         UNCHANGED <<jobs, running, next_generation, token, wgen, wnotify, aborted, cpc, carg,
                     gkey, gkind, due, fate>>
  PROVE  IInv'
  <1> USE DEF IInv
  <1>1. TypeOK'
    BY DEF TypeOK, WorkerPlaces
  <1>2. EntryOK' /\ NeverEarly'
    BY DEF EntryOK, NeverEarly
  <1>3. EntryHasWorker'
    BY DEF TypeOK, EntryOK, EntryHasWorker, Pending
  <1>4. FreshOK' /\ DrawnOK' /\ AbortedOK'
    BY DEF TypeOK, FreshOK, DrawnOK, AbortedOK
  <1>5. CancelOK'
    BY DEF TypeOK, Calls, CancelOK
  <1>6. FiredOK'
    BY DEF TypeOK, FiredOK
  <1> QED
    BY <1>1, <1>2, <1>3, <1>4, <1>5, <1>6

LEMMA WorkerNotifiedIInv ==
  ASSUME IInv, NEW w \in Generations, WorkerNotified(w)
  PROVE  IInv'
  <1>1. permit' \in [Generations -> BOOLEAN]
    BY DEF IInv, TypeOK, WorkerNotified
  <1> QED
    BY <1>1, WorkerMovesIInv DEF WorkerNotified, callVars, jobVars

LEMMA WorkerDeadlineIInv ==
  ASSUME IInv, NEW w \in Generations, WorkerDeadline(w)
  PROVE  IInv'
  <1>1. permit' \in [Generations -> BOOLEAN]
    BY DEF IInv, TypeOK, WorkerDeadline
  <1> QED
    BY <1>1, WorkerMovesIInv DEF WorkerDeadline, callVars, jobVars

LEMMA WorkerFireIInv ==
  ASSUME IInv, NEW w \in Generations, WorkerFire(w)
  PROVE  IInv'
  <1> DEFINE k == workerKey(w)
             entry == jobs[k]
  <1> USE DEF WorkerFire, StillCurrent, Without, Register, callVars, jobVars, workerKey
  <1>1. wpc[w] = "due" /\ k \in Keys
    BY DEF IInv, TypeOK
  <1>2. CASE entry = Absent
    <2> USE DEF IInv
    <2>1. WorkerEnds(w) /\ UNCHANGED <<jobs, running, fate>>
      BY <1>2
    <2>2. \A x \in Pending : jobs[x].handle # w
      BY <1>2 DEF EntryHasWorker, Pending
    <2>3. TypeOK'
      BY <2>1, WorkerEndsTyped DEF TypeOK
    <2> QED
      BY <1>1, <2>1, <2>2, <2>3, WorkerEndsIInv
  <1>3. CASE entry # Absent /\ entry.generation # wgen[w]
    <2>1. permit' \in [Generations -> BOOLEAN]
      BY DEF IInv, TypeOK
    <2> QED
      BY <1>1, <1>3, <2>1, WorkerMovesIInv
  <1>4. CASE entry # Absent /\ entry.generation = wgen[w]
    <2> USE DEF IInv
    <2> DEFINE g == wgen[w]
    <2>1. /\ jobs' = [jobs EXCEPT ![k] = Absent]
          /\ running' = running \cup {g}
          /\ fate' = [fate EXCEPT ![g] = "running"]
          /\ wpc' = [wpc EXCEPT ![w] = "running"]
          /\ UNCHANGED <<wgen, wnotify, aborted>>
      BY <1>4
    <2>2. g \in Generations /\ g \in due /\ fate[g] = "pending" /\ gkey[g] = k
      BY <1>1, <1>4 DEF EntryOK, FiredOK
    <2>3. TypeOK'
      BY <1>1, <2>1, <2>2, SchedulerAssumption
         DEF TypeOK, Entries, Absent, WorkerPlaces, Fates
    <2>4. \A x \in Keys : jobs'[x] # Absent =>
             x # k /\ jobs'[x] = jobs[x] /\ jobs[x].generation # g
      BY <1>1, <2>1, <2>2 DEF TypeOK, EntryOK
    <2>5. EntryOK'
      BY <2>1, <2>4 DEF TypeOK, EntryOK
    <2>6. EntryHasWorker'
      <3> SUFFICES ASSUME NEW x \in Keys, jobs'[x] # Absent
                   PROVE  /\ wpc'[jobs'[x].handle] \in {"spawned", "read", "wait", "due"}
                          /\ jobs'[x].handle \notin aborted'
                          /\ gkey'[jobs'[x].handle] = x
        BY DEF EntryHasWorker, Pending
      <3>1. jobs[x].handle \in Generations /\ gkey[jobs[x].handle] = x /\ jobs[x].handle # w
        BY <2>4 DEF EntryOK, EntryHasWorker, Pending
      <3> QED
        BY <2>1, <2>4, <3>1 DEF TypeOK, EntryHasWorker, Pending
    <2>7. FreshOK'
      BY <1>1, <2>1, <2>2 DEF TypeOK, FreshOK
    <2>8. DrawnOK'
      BY <1>1, <2>1, <2>2 DEF TypeOK, DrawnOK
    <2>9. CancelOK' /\ AbortedOK'
      <3>1. \A c \in Callers : carg[c].handles \subseteq Generations
        BY DEF TypeOK, Calls
      <3>2. \A x \in Keys : jobs'[x].handle = jobs[x].handle \/ jobs'[x].handle = 0
        BY <2>1 DEF TypeOK, Absent
      <3> QED
        BY <1>1, <2>1, <3>1, <3>2 DEF TypeOK, CancelOK, AbortedOK, Generations
    <2>10. FiredOK'
      BY <2>1, <2>2 DEF TypeOK, FiredOK
    <2>11. NeverEarly'
      BY <2>1, <2>2 DEF TypeOK, NeverEarly
    <2> QED
      BY <2>3, <2>5, <2>6, <2>7, <2>8, <2>9, <2>10, <2>11
  <1> QED
    BY <1>2, <1>3, <1>4

\* A running job ends, by itself or because its task is dropped.
LEMMA JobEndsIInv ==
  ASSUME IInv, NEW w \in Generations, NEW how \in {"finished", "killed"},
         wpc[w] = "running", WorkerEnds(w), running' = running \ {wgen[w]},
         fate' = [fate EXCEPT ![wgen[w]] = how],
         UNCHANGED <<jobs, next_generation, permit, token, cpc, carg, gkey, gkind, due>>
  PROVE  IInv'
  <1> USE DEF IInv
  <1> DEFINE g == wgen[w]
  <1>1. g \in Generations /\ g \in due /\ fate[g] = "running"
    BY DEF TypeOK, FiredOK
  <1>2. TypeOK'
    BY <1>1, WorkerEndsTyped DEF TypeOK, Fates
  <1>3. EntryHasWorker' /\ CancelOK' /\ AbortedOK'
    BY NotAHandle, WorkerEndsIInv
  <1>4. EntryOK'
    BY <1>1 DEF TypeOK, EntryOK
  <1>5. \A v \in Generations : /\ v # w => wpc'[v] = wpc[v] /\ wgen'[v] = wgen[v]
                               /\ wpc'[w] = "done"
    BY DEF TypeOK, WorkerEnds
  <1>6. FreshOK' /\ NeverEarly'
    BY <1>1, <1>5 DEF TypeOK, FreshOK, NeverEarly
  <1>7. DrawnOK'
    BY <1>1, <1>5 DEF TypeOK, DrawnOK
  <1>8. FiredOK'
    BY <1>1, <1>5 DEF TypeOK, FiredOK
  <1> QED
    BY <1>2, <1>3, <1>4, <1>6, <1>7, <1>8

LEMMA WorkerFinishIInv ==
  ASSUME IInv, NEW w \in Generations, WorkerFinish(w)
  PROVE  IInv'
  BY JobEndsIInv DEF WorkerFinish, Unregister, callVars, jobVars

LEMMA WorkerKilledIInv ==
  ASSUME IInv, NEW w \in Generations, WorkerKilled(w)
  PROVE  IInv'
  <1> USE DEF WorkerKilled, Unregister, callVars, jobVars
  <1>1. CASE wpc[w] = "running"
    BY <1>1, JobEndsIInv
  <1>2. CASE wpc[w] # "running"
    <2> USE DEF IInv
    <2>1. WorkerEnds(w) /\ UNCHANGED <<running, fate>> /\ wpc[w] # "none"
      BY <1>2
    <2>2. TypeOK'
      BY <2>1, WorkerEndsTyped DEF TypeOK
    <2> QED
      BY <2>1, <2>2, NotAHandle, WorkerEndsIInv
  <1> QED
    BY <1>1, <1>2

LEMMA ElapseIInv ==
  ASSUME IInv, NEW g \in Generations, Elapse(g)
  PROVE  IInv'
  <1> USE DEF Elapse, IInv, workerVars, callVars, jobVars
  <1>1. TypeOK'
    BY DEF TypeOK
  <1>2. EntryOK' /\ EntryHasWorker' /\ FreshOK' /\ DrawnOK' /\ CancelOK' /\ AbortedOK'
    BY DEF EntryOK, EntryHasWorker, Pending, FreshOK, DrawnOK, CancelOK, AbortedOK
  <1>3. FiredOK' /\ NeverEarly'
    BY DEF FiredOK, NeverEarly
  <1> QED
    BY <1>1, <1>2, <1>3

-----------------------------------------------------------------------------
(* Every step keeps the invariant.                                         *)

LEMMA NextIInv == IInv /\ [Next]_vars => IInv'
  <1> SUFFICES ASSUME IInv, [Next]_vars PROVE IInv'
    OBVIOUS
  <1>1. CASE UNCHANGED vars
    BY <1>1 DEF vars, IInv, TypeOK, EntryOK, EntryHasWorker, Pending, FreshOK, DrawnOK, CancelOK,
                AbortedOK, FiredOK, NeverEarly
  <1>2. ASSUME NEW c \in Schedulers, NEW k \in Keys, NEW kind \in Kinds,
               ScheduleBegin(c, k, kind)
        PROVE  IInv'
    BY <1>2, ScheduleBeginIInv
  <1>3. ASSUME NEW c \in Cancellers, CancelBegin(c) \/ CancelAllBegin(c)
        PROVE  IInv'
    <2>1. c \in Callers
      BY DEF Callers
    <2>2. CASE CancelBegin(c)
      <3>1. PICK k \in Keys : CallBegin(c, {k}, "cancel")
        BY <2>2 DEF CancelBegin
      <3>2. {k} \in SUBSET Keys
        OBVIOUS
      <3> QED
        BY <2>1, <3>1, <3>2, CallBeginIInv
    <2>3. CASE CancelAllBegin(c)
      <3>1. Keys \in SUBSET Keys /\ CallBegin(c, Keys, "all")
        BY <2>3 DEF CancelAllBegin
      <3> QED
        BY <2>1, <3>1, CallBeginIInv
    <2> QED
      BY <1>3, <2>2, <2>3
  <1>4. ASSUME NEW c \in Callers, CallerStep(c)
        PROVE  IInv'
    <2>1. CASE ScheduleUpdate(c)
      BY <2>1, ScheduleUpdateIInv
    <2>2. CASE ScheduleReject(c)
      BY <2>2, ScheduleRejectIInv
    <2>3. CASE ScheduleInsert(c)
      BY <2>3, ScheduleInsertIInv
    <2>4. CASE CancelRemove(c) \/ CancelAllDrain(c)
      BY <2>4, RemoveIInv DEF CancelRemove, CancelAllDrain
    <2>5. CASE CancelNotify(c) \/ CancelAllNotify(c)
      BY <2>5, NotifyRemovedIInv DEF CancelNotify, CancelAllNotify
    <2>6. CASE CancelAbort(c) \/ CancelAllAbort(c)
      BY <2>6, AbortRemovedIInv DEF CancelAbort, CancelAllAbort
    <2>7. CASE CancelCollect(c) \/ CancelAllCollect(c)
      BY <2>7, CollectTokensIInv DEF CancelCollect, CancelAllCollect
    <2>8. CASE CancelSignal(c)
      BY <2>8, CancelSignalIInv
    <2> QED
      BY <1>4, <2>1, <2>2, <2>3, <2>4, <2>5, <2>6, <2>7, <2>8 DEF CallerStep
  <1>5. ASSUME NEW w \in Generations, WorkerStep(w) \/ WorkerFinish(w) \/ Elapse(w)
        PROVE  IInv'
    <2>1. CASE WorkerRead(w)
      BY <2>1, WorkerReadIInv
    <2>2. CASE WorkerNotified(w)
      BY <2>2, WorkerNotifiedIInv
    <2>3. CASE WorkerDeadline(w)
      BY <2>3, WorkerDeadlineIInv
    <2>4. CASE WorkerFire(w)
      BY <2>4, WorkerFireIInv
    <2>5. CASE WorkerKilled(w)
      BY <2>5, WorkerKilledIInv
    <2>6. CASE WorkerFinish(w)
      BY <2>6, WorkerFinishIInv
    <2>7. CASE Elapse(w)
      BY <2>7, ElapseIInv
    <2> QED
      BY <1>5, <2>1, <2>2, <2>3, <2>4, <2>5, <2>6, <2>7 DEF WorkerStep
  <1> QED
    BY <1>1, <1>2, <1>3, <1>4, <1>5 DEF Next

\* The strengthened invariant holds throughout.
THEOREM Invariant == Spec => []IInv
  BY InitIInv, NextIInv, PTL DEF Spec

\* Every variable keeps its type.
THEOREM TypeCorrect == Spec => []TypeOK
  <1>1. IInv => TypeOK
    BY DEF IInv
  <1> QED
    BY <1>1, Invariant, PTL

\* No waiting task is ever left without a worker that will fire it, however
\* many threads schedule and cancel the same key at once.
THEOREM NoOrphanedEntry == Spec => []EntryHasWorker
  <1>1. IInv => EntryHasWorker
    BY DEF IInv
  <1> QED
    BY <1>1, Invariant, PTL

\* No job starts before the deadline of the call that supplied it.
THEOREM DebounceHolds == Spec => []NeverEarly
  <1>1. IInv => NeverEarly
    BY DEF IInv
  <1> QED
    BY <1>1, Invariant, PTL

-----------------------------------------------------------------------------
(* What a step may do to the fate of a generation.                         *)

FateKept == \A g \in Generations : fate[g] \in Settled => fate'[g] = fate[g]

LEMMA CallerKeepsFate ==
  ASSUME IInv, NEW c \in Callers, CallerStep(c)
  PROVE  FateKept
  <1> USE DEF IInv, TypeOK, Settled, FateKept
  <1>1. CASE ScheduleUpdate(c)
    <2> DEFINE g == carg[c].generation
               old == jobs[gkey[g]]
    <2>1. g \in Generations /\ fate[g] = "drawn"
      BY <1>1 DEF ScheduleUpdate, DrawnOK
    <2>2. old.generation \in Generations /\ fate[old.generation] = "pending"
      BY <1>1, <2>1 DEF ScheduleUpdate, EntryOK
    <2>3. fate' = [fate EXCEPT ![g] = "pending", ![old.generation] = "superseded"]
      BY <1>1 DEF ScheduleUpdate
    <2> QED
      BY <2>1, <2>2, <2>3
  <1>2. CASE ScheduleReject(c)
    <2>1. fate[carg[c].generation] = "drawn"
      BY <1>2 DEF ScheduleReject, DrawnOK
    <2> QED
      BY <1>2, <2>1 DEF ScheduleReject
  <1>3. CASE ScheduleInsert(c)
    <2>1. fate[carg[c].generation] = "drawn"
      BY <1>3 DEF ScheduleInsert, DrawnOK
    <2> QED
      BY <1>3, <2>1 DEF ScheduleInsert
  <1>4. CASE CancelRemove(c) \/ CancelAllDrain(c)
    <2>1. \A k \in Pending : fate[jobs[k].generation] = "pending"
      BY DEF EntryOK, Pending
    <2> QED
      BY <1>4, <2>1 DEF CancelRemove, CancelAllDrain, Remove, Removable
  <1>5. CASE \/ CancelNotify(c) \/ CancelAllNotify(c) \/ CancelAbort(c) \/ CancelAllAbort(c)
             \/ CancelCollect(c) \/ CancelAllCollect(c) \/ CancelSignal(c)
    BY <1>5 DEF CancelNotify, CancelAllNotify, NotifyRemoved, CancelAbort, CancelAllAbort,
                AbortRemoved, CancelCollect, CancelAllCollect, CollectTokens, CancelSignal
  <1> QED
    BY <1>1, <1>2, <1>3, <1>4, <1>5 DEF CallerStep

LEMMA WorkerKeepsFate ==
  ASSUME IInv, NEW w \in Generations, WorkerStep(w) \/ WorkerFinish(w) \/ Elapse(w)
  PROVE  FateKept
  <1> USE DEF IInv, TypeOK, Settled, FateKept
  <1>1. CASE WorkerFire(w)
    <2> DEFINE entry == jobs[workerKey(w)]
    <2>1. workerKey(w) \in Keys
      BY DEF workerKey
    <2>2. CASE entry # Absent /\ entry.generation = wgen[w]
      <3>1. fate[wgen[w]] = "pending"
        BY <2>1, <2>2 DEF EntryOK
      <3>2. fate' = [fate EXCEPT ![wgen[w]] = "running"]
        BY <1>1, <2>2 DEF WorkerFire, StillCurrent
      <3> QED
        BY <3>1, <3>2
    <2>3. CASE ~(entry # Absent /\ entry.generation = wgen[w])
      BY <1>1, <2>3 DEF WorkerFire, StillCurrent
    <2> QED
      BY <2>2, <2>3
  <1>2. CASE WorkerFinish(w) \/ WorkerKilled(w)
    <2>1. wpc[w] = "running" => fate[wgen[w]] = "running"
      BY DEF FiredOK
    <2> QED
      BY <1>2, <2>1 DEF WorkerFinish, WorkerKilled
  <1>3. CASE WorkerRead(w) \/ WorkerNotified(w) \/ WorkerDeadline(w) \/ Elapse(w)
    BY <1>3 DEF WorkerRead, WorkerNotified, WorkerDeadline, Elapse
  <1> QED
    BY <1>1, <1>2, <1>3 DEF WorkerStep

LEMMA StepKeepsFate ==
  ASSUME IInv, [Next]_vars
  PROVE  FateKept
  <1>1. CASE UNCHANGED vars
    BY <1>1 DEF vars, FateKept
  <1>2. ASSUME NEW c \in Schedulers, NEW k \in Keys, NEW kind \in Kinds,
               ScheduleBegin(c, k, kind)
        PROVE  FateKept
    BY <1>2 DEF ScheduleBegin, IInv, TypeOK, FreshOK, Generations, Settled, FateKept
  <1>3. ASSUME NEW c \in Cancellers, CancelBegin(c) \/ CancelAllBegin(c)
        PROVE  FateKept
    BY <1>3 DEF CancelBegin, CancelAllBegin, CallBegin, FateKept
  <1> QED
    BY <1>1, <1>2, <1>3, CallerKeepsFate, WorkerKeepsFate DEF Next

\* Every accepted call ends once and for all: it is superseded, cancelled,
\* finished or killed, and no other worker or thread touches it afterwards.
THEOREM FateSettled == Spec => FateIsFinal
  <1>1. IInv /\ [Next]_vars => [FateKept]_vars
    BY StepKeepsFate
  <1>2. Spec => [][FateKept]_vars
    BY <1>1, Invariant, PTL DEF Spec
  <1> QED
    BY <1>2 DEF FateIsFinal, FateKept

-----------------------------------------------------------------------------
(* The limit of the registry.                                              *)

LEMMA PendingFinite == IsFiniteSet(Pending) /\ Cardinality(Pending) \in Nat
  <1>1. Pending \subseteq Keys
    BY DEF Pending
  <1> QED
    BY <1>1, SchedulerAssumption, FS_Subset, FS_CardinalityType

LEMMA SmallerPending ==
  ASSUME PendingBounded, Pending' \subseteq Pending
  PROVE  PendingBounded'
  <1>1. Cardinality(Pending') <= Cardinality(Pending) /\ Cardinality(Pending') \in Nat
    BY PendingFinite, FS_Subset, FS_CardinalityType
  <1> QED
    BY <1>1, PendingFinite, SchedulerAssumption DEF PendingBounded

LEMMA InsertBounded ==
  ASSUME IInv, PendingBounded, NEW c \in Callers, ScheduleInsert(c)
  PROVE  PendingBounded'
  <1> DEFINE k == gkey[carg[c].generation]
  <1>1. k \in Keys
    BY DEF IInv, TypeOK, DrawnOK, ScheduleInsert
  <1>2. Pending' \subseteq Pending \cup {k}
    BY <1>1 DEF ScheduleInsert, Pending, IInv, TypeOK
  <1>3. /\ IsFiniteSet(Pending \cup {k})
        /\ Cardinality(Pending \cup {k}) <= Cardinality(Pending) + 1
    <2>1. /\ IsFiniteSet(Pending \cup {k})
          /\ \/ Cardinality(Pending \cup {k}) = Cardinality(Pending)
             \/ Cardinality(Pending \cup {k}) = Cardinality(Pending) + 1
      BY PendingFinite, FS_AddElement, Zenon
    <2> QED
      BY <2>1, PendingFinite
  <1>4. /\ Cardinality(Pending') \in Nat
        /\ Cardinality(Pending \cup {k}) \in Nat
        /\ Cardinality(Pending') <= Cardinality(Pending \cup {k})
    BY <1>2, <1>3, FS_Subset, FS_CardinalityType
  <1>5. Cardinality(Pending) < MaxPending
    BY PendingFinite, SchedulerAssumption DEF ScheduleInsert, Full
  <1> QED
    BY <1>3, <1>4, <1>5, PendingFinite, SchedulerAssumption DEF PendingBounded

LEMMA StepBounded ==
  ASSUME IInv, PendingBounded, [Next]_vars
  PROVE  PendingBounded'
  <1> USE DEF IInv, TypeOK
  <1>1. ASSUME UNCHANGED jobs PROVE PendingBounded'
    BY <1>1 DEF PendingBounded, Pending
  <1>2. ASSUME NEW c \in Callers, ScheduleUpdate(c) PROVE PendingBounded'
    <2>1. Pending' \subseteq Pending
      BY <1>2 DEF ScheduleUpdate, Pending, DrawnOK
    <2> QED
      BY <2>1, SmallerPending
  <1>3. ASSUME NEW c \in Callers, CancelRemove(c) \/ CancelAllDrain(c) PROVE PendingBounded'
    <2>1. Pending' \subseteq Pending
      BY <1>3 DEF CancelRemove, CancelAllDrain, Remove, Removable, Pending
    <2> QED
      BY <2>1, SmallerPending
  <1>4. ASSUME NEW w \in Generations, WorkerFire(w) PROVE PendingBounded'
    <2>1. Pending' \subseteq Pending
      BY <1>4 DEF WorkerFire, Without, Pending, workerKey
    <2> QED
      BY <2>1, SmallerPending
  <1>5. ASSUME NEW c \in Callers, CallerStep(c) PROVE PendingBounded'
    BY <1>1, <1>2, <1>3, <1>5, InsertBounded
       DEF CallerStep, ScheduleReject, CancelNotify, CancelAllNotify, NotifyRemoved, CancelAbort,
           CancelAllAbort, AbortRemoved, CancelCollect, CancelAllCollect, CollectTokens,
           CancelSignal
  <1>6. ASSUME NEW w \in Generations, WorkerStep(w) \/ WorkerFinish(w) \/ Elapse(w)
        PROVE  PendingBounded'
    BY <1>1, <1>4, <1>6
       DEF WorkerStep, WorkerRead, WorkerNotified, WorkerDeadline, WorkerKilled, WorkerFinish,
           Elapse
  <1> QED
    BY <1>1, <1>5, <1>6
       DEF Next, vars, ScheduleBegin, CancelBegin, CancelAllBegin, CallBegin

\* However many threads race with new keys, the registry stays within
\* MAX_PENDING_ONE_SHOT_TASKS.
THEOREM RegistryBounded == Spec => []PendingBounded
  <1>1. Init => PendingBounded
    <2>1. Init => Pending = {}
      BY DEF Init, Pending
    <2> QED
      BY <2>1, FS_EmptySet, SchedulerAssumption DEF PendingBounded
  <1>2. IInv /\ PendingBounded /\ [Next]_vars => PendingBounded'
    BY StepBounded
  <1> QED
    BY <1>1, <1>2, Invariant, PTL DEF Spec

-----------------------------------------------------------------------------
(* What a call that cancels has dealt with when it returns.                *)

\* A call that waits is its key's entry, and one that runs is registered.
WaitsOrRuns ==
    \A g \in Generations :
        /\ fate[g] = "pending" => jobs[gkey[g]].generation = g
        /\ fate[g] = "running" => g \in running

\* What a cancelling call found waits no more once the entries are removed,
\* and its token is among the collected ones if it runs after that.
Covered(c) ==
    \A g \in carg[c].before :
        /\ g \in Generations /\ fate[g] \notin {"none", "drawn"} /\ gkey[g] \in carg[c].keys
        /\ cpc[c] \notin {"cancel", "all"} => fate[g] # "pending"
        /\ cpc[c] \in {"all_notify", "all_abort", "cancel_signal"}
              /\ fate[g] = "running" /\ gkind[g] = "cancellable" => g \in carg[c].tokens

CoveredSoFar == \A c \in Callers : Covered(c)

\* What a step does to generations that have been drawn.
Onward ==
    /\ \A g \in Generations : fate[g] # "none" => gkey'[g] = gkey[g] /\ gkind'[g] = gkind[g]
    /\ \A g \in Generations : fate[g] \notin {"none", "drawn"} =>
          /\ fate'[g] \notin {"none", "drawn"}
          /\ fate'[g] = "pending" => fate[g] = "pending"
          /\ fate'[g] = "running" => fate[g] \in {"pending", "running"}

LEMMA StepOnward ==
  ASSUME IInv, WaitsOrRuns, [Next]_vars
  PROVE  Onward /\ WaitsOrRuns'
  <1> USE DEF IInv, TypeOK, WaitsOrRuns, Onward
  <1>1. CASE UNCHANGED vars
    BY <1>1 DEF vars
  <1>2. ASSUME NEW c \in Schedulers, NEW k \in Keys, NEW kind \in Kinds, ScheduleBegin(c, k, kind)
        PROVE  Onward /\ WaitsOrRuns'
    <2>1. /\ next_generation \in Generations /\ fate[next_generation] = "none"
          /\ fate' = [fate EXCEPT ![next_generation] = "drawn"]
          /\ gkey' = [gkey EXCEPT ![next_generation] = k]
          /\ gkind' = [gkind EXCEPT ![next_generation] = kind]
          /\ UNCHANGED <<jobs, running>>
      BY <1>2, SchedulerAssumption DEF ScheduleBegin, FreshOK, Generations
    <2> QED
      BY <2>1
  <1>3. ASSUME NEW c \in Cancellers, CancelBegin(c) \/ CancelAllBegin(c)
        PROVE  Onward /\ WaitsOrRuns'
    BY <1>3 DEF CancelBegin, CancelAllBegin, CallBegin, jobVars
  <1>4. ASSUME NEW c \in Callers, ScheduleUpdate(c)
        PROVE  Onward /\ WaitsOrRuns'
    <2> DEFINE g == carg[c].generation
               k == gkey[g]
               old == jobs[k].generation
    <2>1. g \in Generations /\ fate[g] = "drawn" /\ k \in Keys
      BY <1>4 DEF ScheduleUpdate, DrawnOK
    <2>2. old \in Generations /\ fate[old] = "pending"
      BY <1>4, <2>1 DEF ScheduleUpdate, EntryOK
    <2>3. /\ jobs' = [jobs EXCEPT ![k].generation = g]
          /\ fate' = [fate EXCEPT ![g] = "pending", ![old] = "superseded"]
          /\ UNCHANGED <<running, gkey, gkind>>
      BY <1>4 DEF ScheduleUpdate, jobVars
    <2>4. /\ jobs'[k].generation = g /\ \A i \in Keys : i # k => jobs'[i] = jobs[i]
          /\ fate'[g] = "pending" /\ fate'[old] = "superseded"
          /\ \A i \in Generations : i # g /\ i # old => fate'[i] = fate[i]
      BY <2>1, <2>2, <2>3 DEF Entries
    <2> HIDE DEF g, k, old
    <2>5. Onward
      BY <2>1, <2>2, <2>3, <2>4
    <2>6. WaitsOrRuns'
      BY <2>1, <2>2, <2>3, <2>4 DEF k, old
    <2> QED
      BY <2>5, <2>6
  <1>5. ASSUME NEW c \in Callers, ScheduleReject(c)
        PROVE  Onward /\ WaitsOrRuns'
    <2>1. carg[c].generation \in Generations /\ fate[carg[c].generation] = "drawn"
      BY <1>5 DEF ScheduleReject, DrawnOK
    <2> QED
      BY <1>5, <2>1 DEF ScheduleReject, jobVars
  <1>6. ASSUME NEW c \in Callers, ScheduleInsert(c)
        PROVE  Onward /\ WaitsOrRuns'
    <2> DEFINE g == carg[c].generation
    <2>1. g \in Generations /\ fate[g] = "drawn" /\ gkey[g] \in Keys
      BY <1>6 DEF ScheduleInsert, DrawnOK
    <2>2. /\ jobs' = [jobs EXCEPT ![gkey[g]] = [generation |-> g, handle |-> g]]
          /\ fate' = [fate EXCEPT ![g] = "pending"]
          /\ UNCHANGED <<running, gkey, gkind>> /\ jobs[gkey[g]].generation = 0
      BY <1>6 DEF ScheduleInsert, jobVars, Absent
    <2>3. \A i \in Generations : i # 0
      BY SchedulerAssumption DEF Generations
    <2> QED
      BY <2>1, <2>2, <2>3
  <1>7. ASSUME NEW c \in Callers, NEW from, NEW to, Remove(c, from, to)
        PROVE  Onward /\ WaitsOrRuns'
    <2> DEFINE removed == Removable(carg[c].keys)
    <2>1. removed \subseteq Keys
      BY DEF Removable, Pending
    <2>2. /\ jobs' = [k \in Keys |-> IF k \in removed THEN Absent ELSE jobs[k]]
          /\ fate' = [i \in Generations |->
                IF \E k \in removed : jobs[k].generation = i THEN "cancelled" ELSE fate[i]]
          /\ UNCHANGED <<running, gkey, gkind>>
      BY <1>7 DEF Remove, jobVars
    <2> HIDE DEF removed
    <2> QED
      BY <2>1, <2>2
  <1>8. ASSUME NEW c \in Callers,
               \/ CancelNotify(c) \/ CancelAllNotify(c) \/ CancelAbort(c) \/ CancelAllAbort(c)
               \/ CancelCollect(c) \/ CancelAllCollect(c) \/ CancelSignal(c)
        PROVE  Onward /\ WaitsOrRuns'
    BY <1>8 DEF CancelNotify, CancelAllNotify, NotifyRemoved, CancelAbort, CancelAllAbort,
                AbortRemoved, CancelCollect, CancelAllCollect, CollectTokens, CancelSignal, jobVars
  <1>9. ASSUME NEW w \in Generations, WorkerFire(w)
        PROVE  Onward /\ WaitsOrRuns'
    <2>1. UNCHANGED <<gkey, gkind>> /\ workerKey(w) \in Keys
      BY <1>9 DEF WorkerFire, jobVars, workerKey
    <2>2. CASE UNCHANGED <<jobs, running, fate>>
      BY <2>1, <2>2
    <2>3. CASE /\ jobs[workerKey(w)] # Absent /\ jobs[workerKey(w)].generation = wgen[w]
               /\ jobs' = [jobs EXCEPT ![workerKey(w)] = Absent]
               /\ running' = running \cup {wgen[w]}
               /\ fate' = [fate EXCEPT ![wgen[w]] = "running"]
      <3>1. wgen[w] \in Generations /\ fate[wgen[w]] = "pending"
            /\ gkey[wgen[w]] = workerKey(w)
        BY <2>1, <2>3 DEF EntryOK
      <3> QED
        BY <2>1, <2>3, <3>1
    <2> QED
      BY <1>9, <2>2, <2>3 DEF WorkerFire, StillCurrent, Without, Register
  <1>10. ASSUME NEW w \in Generations, WorkerFinish(w) \/ WorkerKilled(w)
         PROVE  Onward /\ WaitsOrRuns'
    <2>1. /\ UNCHANGED <<jobs, gkey, gkind>>
          /\ \/ UNCHANGED <<running, fate>>
             \/ /\ wpc[w] = "running" /\ running' = running \ {wgen[w]}
                /\ \/ fate' = [fate EXCEPT ![wgen[w]] = "finished"]
                   \/ fate' = [fate EXCEPT ![wgen[w]] = "killed"]
      BY <1>10 DEF WorkerFinish, WorkerKilled, Unregister, jobVars
    <2>2. wpc[w] = "running" => fate[wgen[w]] = "running"
      BY DEF FiredOK
    <2>3. CASE UNCHANGED <<running, fate>>
      BY <2>1, <2>3
    <2>4. CASE /\ wpc[w] = "running" /\ running' = running \ {wgen[w]}
               /\ \/ fate' = [fate EXCEPT ![wgen[w]] = "finished"]
                  \/ fate' = [fate EXCEPT ![wgen[w]] = "killed"]
      BY <2>1, <2>2, <2>4
    <2> QED
      BY <2>1, <2>3, <2>4
  <1>11. ASSUME NEW w \in Generations,
                WorkerRead(w) \/ WorkerNotified(w) \/ WorkerDeadline(w) \/ Elapse(w)
         PROVE  Onward /\ WaitsOrRuns'
    BY <1>11 DEF WorkerRead, WorkerNotified, WorkerDeadline, Elapse, jobVars
  <1> QED
    BY <1>1, <1>2, <1>3, <1>4, <1>5, <1>6, <1>7, <1>8, <1>9, <1>10, <1>11
       DEF Next, CallerStep, WorkerStep, CancelRemove, CancelAllDrain

LEMMA InitCovered == Init => WaitsOrRuns /\ CoveredSoFar
  BY DEF Init, WaitsOrRuns, CoveredSoFar, Covered, NoCall

LEMMA StepCovered ==
  ASSUME IInv, WaitsOrRuns, CoveredSoFar, [Next]_vars
  PROVE  CoveredSoFar'
  <1> USE DEF IInv, TypeOK, CoveredSoFar
  <1>1. Onward
    BY StepOnward
  <1>2. ASSUME NEW d \in Callers, carg'[d] = carg[d], cpc'[d] = cpc[d]
        PROVE  Covered(d)'
    BY <1>1, <1>2 DEF Covered, Onward
  <1>3. ASSUME NEW c \in Callers, carg'[c].before = {},
               \A d \in Callers : d # c => carg'[d] = carg[d] /\ cpc'[d] = cpc[d]
        PROVE  CoveredSoFar'
    BY <1>2, <1>3 DEF Covered
  <1>4. CASE UNCHANGED callVars
    BY <1>2, <1>4 DEF callVars
  <1>5. ASSUME NEW c \in Schedulers, NEW k \in Keys, NEW kind \in Kinds, ScheduleBegin(c, k, kind)
        PROVE  CoveredSoFar'
    BY <1>3, <1>5 DEF ScheduleBegin, NoCall, Callers
  <1>6. ASSUME NEW c \in Callers,
               ScheduleUpdate(c) \/ ScheduleReject(c) \/ ScheduleInsert(c) \/ CancelSignal(c)
        PROVE  CoveredSoFar'
    BY <1>3, <1>6 DEF ScheduleUpdate, ScheduleReject, ScheduleInsert, CancelSignal, NoCall
  <1>7. ASSUME NEW c \in Callers, NEW K \in SUBSET Keys, NEW place \in {"cancel", "all"},
               CallBegin(c, K, place)
        PROVE  CoveredSoFar'
    <2>1. /\ cpc'[c] = place /\ carg'[c].keys = K
          /\ carg'[c].before = {g \in Generations : gkey[g] \in K /\ fate[g] \in {"pending", "running"}}
          /\ UNCHANGED <<gkey, gkind, fate>>
          /\ \A d \in Callers : d # c => carg'[d] = carg[d] /\ cpc'[d] = cpc[d]
      BY <1>7 DEF CallBegin, jobVars
    <2>2. Covered(c)'
      BY <2>1 DEF Covered
    <2> QED
      BY <1>2, <2>1, <2>2
  <1>8. ASSUME NEW c \in Callers, NEW from, NEW to \in {"cancel_notify", "all_collect"},
               Remove(c, from, to)
        PROVE  CoveredSoFar'
    <2> DEFINE removed == Removable(carg[c].keys)
    <2>1. /\ cpc'[c] = to /\ carg'[c].keys = carg[c].keys /\ carg'[c].before = carg[c].before
          /\ UNCHANGED <<gkey, gkind>>
          /\ \A d \in Callers : d # c => carg'[d] = carg[d] /\ cpc'[d] = cpc[d]
      BY <1>8 DEF Remove, jobVars, Calls
    <2>2. fate' = [g \in Generations |->
              IF \E k \in removed : jobs[k].generation = g THEN "cancelled" ELSE fate[g]]
      BY <1>8 DEF Remove
    <2>3. \A g \in carg[c].before : g \in Generations /\ gkey[g] \in carg[c].keys
      BY DEF Covered
    <2>4. \A g \in carg[c].before : fate[g] = "pending" =>
              gkey[g] \in removed /\ jobs[gkey[g]].generation = g
      BY <2>3, SchedulerAssumption DEF WaitsOrRuns, Removable, Pending, Absent, Generations
    <2>5. \A g \in carg[c].before : fate'[g] # "pending"
      BY <2>2, <2>3, <2>4
    <2>6. Covered(c)'
      BY <1>1, <2>1, <2>3, <2>5 DEF Covered, Onward
    <2> QED
      BY <1>2, <2>1, <2>6
  <1>9. ASSUME NEW c \in Callers,
               CancelNotify(c) \/ CancelAllNotify(c) \/ CancelAbort(c) \/ CancelAllAbort(c)
        PROVE  CoveredSoFar'
    <2>1. /\ UNCHANGED <<carg, gkey, gkind, fate>>
          /\ \/ cpc[c] \in {"all_notify", "all_abort"} /\ cpc'[c] \in {"all_abort", "cancel_signal"}
             \/ cpc[c] \in {"cancel_notify", "cancel_abort"}
                /\ cpc'[c] \in {"cancel_abort", "cancel_collect"}
          /\ \A d \in Callers : d # c => cpc'[d] = cpc[d]
      BY <1>9 DEF CancelNotify, CancelAllNotify, NotifyRemoved, CancelAbort, CancelAllAbort,
                  AbortRemoved, jobVars
    <2>2. Covered(c)'
      BY <2>1 DEF Covered
    <2> QED
      BY <1>2, <2>1, <2>2
  <1>10. ASSUME NEW c \in Callers, CancelCollect(c) \/ CancelAllCollect(c)
         PROVE  CoveredSoFar'
    <2>1. /\ carg'[c].keys = carg[c].keys /\ carg'[c].before = carg[c].before
          /\ carg'[c].tokens = {g \in running : gkey[g] \in carg[c].keys /\ gkind[g] = "cancellable"}
          /\ cpc[c] \in {"cancel_collect", "all_collect"} /\ cpc'[c] \in {"cancel_signal", "all_notify"}
          /\ UNCHANGED <<gkey, gkind, fate>>
          /\ \A d \in Callers : d # c => carg'[d] = carg[d] /\ cpc'[d] = cpc[d]
      BY <1>10 DEF CancelCollect, CancelAllCollect, CollectTokens, jobVars, Calls
    <2>2. Covered(c)'
      BY <2>1 DEF Covered, WaitsOrRuns
    <2> QED
      BY <1>2, <2>1, <2>2
  <1>11. ASSUME NEW c \in Cancellers, CancelBegin(c) \/ CancelAllBegin(c)
         PROVE  CoveredSoFar'
    BY <1>7, <1>11 DEF CancelBegin, CancelAllBegin, Callers
  <1>12. ASSUME NEW w \in Generations, WorkerStep(w) \/ WorkerFinish(w) \/ Elapse(w)
         PROVE  CoveredSoFar'
    BY <1>4, <1>12 DEF WorkerStep, WorkerRead, WorkerNotified, WorkerDeadline, WorkerFire,
                       WorkerKilled, WorkerFinish, Elapse
  <1>13. CASE UNCHANGED vars
    BY <1>4, <1>13 DEF vars, callVars
  <1> QED
    BY <1>5, <1>6, <1>8, <1>9, <1>10, <1>11, <1>12, <1>13
       DEF Next, CallerStep, CancelRemove, CancelAllDrain

LEMMA StepCancelCovers ==
  ASSUME IInv, WaitsOrRuns, CoveredSoFar, [Next]_vars, NEW c \in Callers,
         cpc[c] = "cancel_signal", cpc'[c] = "idle"
  PROVE  \A g \in carg[c].before :
             /\ fate'[g] # "pending"
             /\ fate'[g] = "running" /\ gkind[g] = "cancellable" => g \in token'
  <1>1. CancelSignal(c)
    <2> USE DEF IInv, TypeOK
    <2>1. ASSUME NEW d \in Callers, NEW place, cpc[d] # "cancel_signal",
                 cpc' = [cpc EXCEPT ![d] = place]
          PROVE  FALSE
      BY <2>1
    <2>2. ~UNCHANGED cpc
      OBVIOUS
    <2>3. ~UNCHANGED vars
      BY <2>2 DEF vars
    <2>4. ASSUME NEW d \in Schedulers, NEW k \in Keys, NEW kind \in Kinds, ScheduleBegin(d, k, kind)
          PROVE  FALSE
      BY <2>1, <2>4 DEF ScheduleBegin, Callers
    <2>5. ASSUME NEW d \in Cancellers, CancelBegin(d) \/ CancelAllBegin(d)
          PROVE  FALSE
      BY <2>1, <2>5 DEF CancelBegin, CancelAllBegin, CallBegin, Callers
    <2>6. ASSUME NEW d \in Callers, CallerStep(d), ~CancelSignal(d)
          PROVE  FALSE
      BY <2>1, <2>6 DEF CallerStep, ScheduleUpdate, ScheduleReject, ScheduleInsert, CancelRemove,
         CancelAllDrain, Remove, CancelNotify, CancelAllNotify, NotifyRemoved, CancelAbort,
         CancelAllAbort, AbortRemoved, CancelCollect, CancelAllCollect, CollectTokens
    <2>7. ASSUME NEW w \in Generations, WorkerStep(w) \/ WorkerFinish(w) \/ Elapse(w)
          PROVE  FALSE
      BY <2>2, <2>7 DEF WorkerStep, WorkerRead, WorkerNotified, WorkerDeadline, WorkerFire,
                        WorkerKilled, WorkerFinish, Elapse, callVars
    <2>8. ASSUME NEW d \in Callers, d # c, CancelSignal(d)
          PROVE  FALSE
      BY <2>8 DEF CancelSignal
    <2> QED
      BY <2>3, <2>4, <2>5, <2>6, <2>7, <2>8 DEF Next
  <1> QED
    BY <1>1 DEF CancelSignal, CoveredSoFar, Covered

\* When cancel or cancel_all returns, nothing it found still waits, and every
\* cancellable job among it that runs has been told, however calls, workers
\* and rescheduling interleave.
THEOREM CancelIsThorough == Spec => CancelCovers
  <1>1. WaitsOrRuns /\ CoveredSoFar /\ IInv /\ [Next]_vars => (WaitsOrRuns /\ CoveredSoFar)'
    BY StepOnward, StepCovered
  <1>2. WaitsOrRuns /\ CoveredSoFar /\ IInv /\ [Next]_vars =>
            [\A c \in Callers : cpc[c] = "cancel_signal" /\ cpc'[c] = "idle" =>
                \A g \in carg[c].before :
                    /\ fate'[g] # "pending"
                    /\ fate'[g] = "running" /\ gkind[g] = "cancellable" => g \in token']_vars
    BY StepCancelCovers
  <1> QED
    BY <1>1, <1>2, InitCovered, Invariant, PTL DEF Spec, CancelCovers

-----------------------------------------------------------------------------
(* Without cancelling calls.                                               *)

\* Each key has one worker in the loop, its entry's, which holds the entry's
\* own Notify.
OneWorker ==
    /\ \A c \in Callers : cpc[c] \in {"idle", "schedule"}
    /\ aborted = {}
    /\ \A w \in Generations :
          /\ wpc[w] \in {"spawned", "read", "wait", "due"} =>
                jobs[gkey[w]] # Absent /\ jobs[gkey[w]].handle = w
          /\ wpc[w] \in {"wait", "due"} => wnotify[w] = w

LEMMA StepWakeup ==
  ASSUME Cancellers = {}, IInv, OneWorker, NoLostWakeup, [Next]_vars
  PROVE  OneWorker' /\ NoLostWakeup'
  <1> USE DEF IInv, TypeOK, OneWorker, NoLostWakeup, Pending
  <1>1. CASE UNCHANGED vars
    BY <1>1 DEF vars
  <1>2. ASSUME NEW c \in Schedulers, NEW k \in Keys, NEW kind \in Kinds, ScheduleBegin(c, k, kind)
        PROVE  OneWorker' /\ NoLostWakeup'
    <2>1. /\ next_generation \in Generations /\ wpc[next_generation] = "none"
          /\ gkey' = [gkey EXCEPT ![next_generation] = k]
          /\ UNCHANGED <<jobs, permit, wpc, wgen, wnotify, aborted>>
          /\ cpc' = [cpc EXCEPT ![c] = "schedule"]
      BY <1>2, SchedulerAssumption DEF ScheduleBegin, FreshOK, Generations, workerVars
    <2> QED
      BY <2>1
  <1>3. ASSUME NEW c \in Callers, ScheduleUpdate(c)
        PROVE  OneWorker' /\ NoLostWakeup'
    <2> DEFINE g == carg[c].generation
               k == gkey[g]
    <2>1. g \in Generations /\ k \in Keys /\ jobs[k] # Absent
      BY <1>3 DEF ScheduleUpdate, DrawnOK
    <2>2. /\ jobs'[k].handle = jobs[k].handle /\ jobs'[k].generation = g
          /\ \A i \in Keys : i # k => jobs'[i] = jobs[i]
          /\ jobs[k].handle \in Generations
          /\ permit' = [permit EXCEPT ![jobs[k].handle] = TRUE]
          /\ UNCHANGED <<wpc, wgen, wnotify, aborted, gkey>>
          /\ cpc' = [cpc EXCEPT ![c] = "idle"]
      BY <1>3, <2>1 DEF ScheduleUpdate, NotifyOne, EntryOK, Entries, workerVars, jobVars
    <2>3. jobs'[k] # Absent
      BY <2>1, <2>2, SchedulerAssumption DEF Absent, Generations
    <2> HIDE DEF g, k
    <2> QED
      BY <2>1, <2>2, <2>3
  <1>4. ASSUME NEW c \in Callers, ScheduleReject(c)
        PROVE  OneWorker' /\ NoLostWakeup'
    BY <1>4 DEF ScheduleReject, workerVars, jobVars
  <1>5. ASSUME NEW c \in Callers, ScheduleInsert(c)
        PROVE  OneWorker' /\ NoLostWakeup'
    <2> DEFINE g == carg[c].generation
    <2>1. g \in Generations /\ gkey[g] \in Keys /\ jobs[gkey[g]] = Absent
      BY <1>5 DEF ScheduleInsert, DrawnOK
    <2>2. /\ jobs' = [jobs EXCEPT ![gkey[g]] = [generation |-> g, handle |-> g]]
          /\ wpc' = [wpc EXCEPT ![g] = "spawned"]
          /\ UNCHANGED <<permit, wgen, wnotify, aborted, gkey>>
          /\ cpc' = [cpc EXCEPT ![c] = "idle"]
      BY <1>5 DEF ScheduleInsert, jobVars
    <2>3. [generation |-> g, handle |-> g] # Absent
      BY <2>1, SchedulerAssumption DEF Absent, Generations
    <2> HIDE DEF g
    <2> QED
      BY <2>1, <2>2, <2>3
  <1>6. ASSUME NEW c \in Callers,
               \/ CancelRemove(c) \/ CancelAllDrain(c) \/ CancelNotify(c) \/ CancelAllNotify(c)
               \/ CancelAbort(c) \/ CancelAllAbort(c) \/ CancelCollect(c) \/ CancelAllCollect(c)
               \/ CancelSignal(c)
        PROVE  FALSE
    BY <1>6 DEF CancelRemove, CancelAllDrain, Remove, CancelNotify, CancelAllNotify, NotifyRemoved,
                CancelAbort, CancelAllAbort, AbortRemoved, CancelCollect, CancelAllCollect,
                CollectTokens, CancelSignal
  <1>7. ASSUME NEW w \in Generations, WorkerRead(w)
        PROVE  OneWorker' /\ NoLostWakeup'
    <2>1. /\ jobs[gkey[w]] # Absent /\ jobs[gkey[w]].handle = w
          /\ wpc' = [wpc EXCEPT ![w] = "wait"]
          /\ wgen' = [wgen EXCEPT ![w] = jobs[gkey[w]].generation]
          /\ wnotify' = [wnotify EXCEPT ![w] = w]
          /\ UNCHANGED <<jobs, permit, aborted, gkey, cpc>>
      BY <1>7 DEF WorkerRead, workerKey, callVars, jobVars
    <2>2. \A k \in Pending : jobs[k].handle = w => k = gkey[w]
      BY DEF EntryHasWorker
    <2> QED
      BY <2>1, <2>2
  <1>8. ASSUME NEW w \in Generations, WorkerNotified(w)
        PROVE  OneWorker' /\ NoLostWakeup'
    <2>1. /\ wpc[w] = "wait" /\ wpc' = [wpc EXCEPT ![w] = "read"]
          /\ permit' = [permit EXCEPT ![w] = FALSE]
          /\ UNCHANGED <<jobs, wgen, wnotify, aborted, gkey, cpc>>
      BY <1>8 DEF WorkerNotified, callVars, jobVars
    <2> QED
      BY <2>1 DEF EntryOK
  <1>9. ASSUME NEW w \in Generations, WorkerDeadline(w)
        PROVE  OneWorker' /\ NoLostWakeup'
    <2>1. /\ wpc[w] = "wait" /\ wpc' = [wpc EXCEPT ![w] = "due"]
          /\ UNCHANGED <<jobs, permit, wgen, wnotify, aborted, gkey, cpc>>
      BY <1>9 DEF WorkerDeadline, callVars, jobVars
    <2> QED
      BY <2>1 DEF EntryOK
  <1>10. ASSUME NEW w \in Generations, WorkerFire(w)
         PROVE  OneWorker' /\ NoLostWakeup'
    <2>1. /\ wpc[w] = "due" /\ jobs[gkey[w]] # Absent /\ jobs[gkey[w]].handle = w
          /\ gkey[w] \in Keys
          /\ UNCHANGED <<permit, wgen, wnotify, aborted, gkey, cpc>>
          /\ \/ UNCHANGED jobs /\ wpc' = [wpc EXCEPT ![w] = "read"]
             \/ /\ jobs' = [jobs EXCEPT ![gkey[w]] = Absent]
                /\ wpc' = [wpc EXCEPT ![w] = "running"]
      BY <1>10 DEF WorkerFire, workerKey, Without, callVars, jobVars
    <2> QED
      BY <2>1 DEF EntryOK
  <1>11. ASSUME NEW w \in Generations, WorkerFinish(w)
         PROVE  OneWorker' /\ NoLostWakeup'
    <2>1. /\ wpc[w] = "running" /\ wpc' = [wpc EXCEPT ![w] = "done"]
          /\ wgen' = [wgen EXCEPT ![w] = 0] /\ wnotify' = [wnotify EXCEPT ![w] = 0]
          /\ aborted' = {} /\ UNCHANGED <<jobs, permit, gkey, cpc>>
      BY <1>11 DEF WorkerFinish, WorkerEnds, callVars, jobVars
    <2> QED
      BY <2>1 DEF EntryOK, EntryHasWorker
  <1>12. ASSUME NEW w \in Generations, WorkerKilled(w)
         PROVE  FALSE
    BY <1>12 DEF WorkerKilled
  <1>13. ASSUME NEW w \in Generations, Elapse(w)
         PROVE  OneWorker' /\ NoLostWakeup'
    BY <1>13 DEF Elapse, workerVars, callVars, jobVars
  <1> QED
    BY <1>1, <1>2, <1>3, <1>4, <1>5, <1>6, <1>7, <1>8, <1>9, <1>10, <1>11, <1>12, <1>13
       DEF Next, CallerStep, WorkerStep

\* Rescheduling a key always reaches its worker, for any keys, threads and
\* limits, as long as nobody cancels (a rescheduling after a cancel may reach
\* the old worker only).
THEOREM ReschedulingWakes == Cancellers = {} => (Spec => []NoLostWakeup)
  <1> SUFFICES ASSUME Cancellers = {} PROVE Spec => []NoLostWakeup
    OBVIOUS
  <1>1. Init => OneWorker /\ NoLostWakeup
    BY DEF Init, OneWorker, NoLostWakeup, Pending
  <1>2. IInv /\ OneWorker /\ NoLostWakeup /\ [Next]_vars => (OneWorker /\ NoLostWakeup)'
    BY StepWakeup
  <1> QED
    BY <1>1, <1>2, Invariant, PTL DEF Spec

=============================================================================
