------------------------------ MODULE Debounce ------------------------------
(***************************************************************************)
(* What the one-shot scheduler promises its callers, without workers,      *)
(* wakeups or locks: every key has at most one waiting call, the latest    *)
(* accepted one; a call runs once, after its own deadline, unless it was   *)
(* replaced or cancelled while it waited; only so many keys wait at a time.*)
(***************************************************************************)
EXTENDS Naturals, FiniteSets

CONSTANTS
    Keys,    \* task keys
    Calls,   \* calls of schedule_once and debounce
    Nobody,  \* no call
    Limit    \* keys that may wait at a time

VARIABLES
    waiting,  \* key -> the call that waits, or Nobody
    due,      \* calls whose deadline has passed
    answered, \* calls that were accepted or rejected
    running   \* calls whose job runs

promise == <<waiting, due, answered, running>>

Busy == {k \in Keys : waiting[k] # Nobody}

Init ==
    /\ waiting = [k \in Keys |-> Nobody]
    /\ due = {} /\ answered = {} /\ running = {}

\* The call takes the place of the one that waits, or a free place.
Accept(k, c) ==
    /\ c \notin answered
    /\ k \in Busy \/ Cardinality(Busy) < Limit
    /\ waiting' = [waiting EXCEPT ![k] = c]
    /\ answered' = answered \cup {c}
    /\ UNCHANGED <<due, running>>

Reject(c) ==
    /\ c \notin answered
    /\ Cardinality(Busy) >= Limit
    /\ answered' = answered \cup {c}
    /\ UNCHANGED <<waiting, due, running>>

Cancel(K) ==
    /\ waiting' = [k \in Keys |-> IF k \in K THEN Nobody ELSE waiting[k]]
    /\ UNCHANGED <<due, answered, running>>

Elapse(c) ==
    /\ c \in answered \ due
    /\ due' = due \cup {c}
    /\ UNCHANGED <<waiting, answered, running>>

Run(k) ==
    /\ k \in Busy /\ waiting[k] \in due \ running
    /\ waiting' = [waiting EXCEPT ![k] = Nobody]
    /\ running' = running \cup {waiting[k]}
    /\ UNCHANGED <<due, answered>>

\* The job returns, or an aborted task is dropped.
End(c) ==
    /\ c \in running
    /\ running' = running \ {c}
    /\ UNCHANGED <<waiting, due, answered>>

Next ==
    \/ \E k \in Keys, c \in Calls : Accept(k, c)
    \/ \E c \in Calls : Reject(c) \/ Elapse(c) \/ End(c)
    \/ \E K \in SUBSET Keys : Cancel(K)
    \/ \E k \in Keys : Run(k)

\* A deadline that a waiting call has arrives, and a call that is due runs.
Fairness ==
    \A k \in Keys :
        /\ WF_promise(Run(k))
        /\ \A c \in Calls : WF_promise(waiting[k] = c /\ Elapse(c))

Safety == Init /\ [][Next]_promise

Spec == Safety /\ Fairness
=============================================================================
