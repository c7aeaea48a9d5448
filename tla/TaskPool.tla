------------------------------ MODULE TaskPool ------------------------------
(***************************************************************************)
(* What the worker pool promises its clients, without threads, mutexes,    *)
(* condition variables or queue order: a task that is accepted is pending  *)
(* until it begins, begins at most once and only while the pool is open,   *)
(* and runs to its end even if the pool is closed meanwhile.  Pending work *)
(* is thrown away only by a pool that is closed.                           *)
(***************************************************************************)
CONSTANT Tasks

VARIABLES
    open,      \* tasks are accepted and begun
    pending,   \* accepted, not begun
    running,
    finished

tvars == <<open, pending, running, finished>>

TaskInit == open = TRUE /\ pending = {} /\ running = {} /\ finished = {}

Accept(t) ==
    /\ open /\ t \notin pending \cup running \cup finished
    /\ pending' = pending \cup {t}
    /\ UNCHANGED <<open, running, finished>>

Begin(t) ==
    /\ open /\ t \in pending
    /\ pending' = pending \ {t}
    /\ running' = running \cup {t}
    /\ UNCHANGED <<open, finished>>

Finish(t) ==
    /\ t \in running
    /\ running' = running \ {t}
    /\ finished' = finished \cup {t}
    /\ UNCHANGED <<open, pending>>

Close ==
    /\ open /\ open' = FALSE
    /\ UNCHANGED <<pending, running, finished>>

Discard ==
    /\ ~open /\ running = {}
    /\ pending' = {}
    /\ UNCHANGED <<open, running, finished>>

TaskNext ==
    \/ \E t \in Tasks : Accept(t) \/ Begin(t) \/ Finish(t)
    \/ Close \/ Discard

TaskSpec == TaskInit /\ [][TaskNext]_tvars
=============================================================================
