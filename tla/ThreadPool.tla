----------------------------- MODULE ThreadPool -----------------------------
(***************************************************************************)
(* The worker pool of src/src/thread/threadpool_module.c: a bounded normal *)
(* queue, a priority stack, worker threads, submitting threads and the     *)
(* module life cycle that the module manager drives.                       *)
(*                                                                         *)
(* Every access to the queues, the two counters and the shutdown flag is   *)
(* made with queue_mutex held, so one critical section is one step.  The   *)
(* two condition variables are the sets of threads whose program counter   *)
(* is "wait": a thread that is signalled goes back to the step that takes  *)
(* the mutex and evaluates the loop condition again.                       *)
(***************************************************************************)
EXTENDS Integers, Sequences, FiniteSets

CONSTANTS
    ThreadCount,    \* default_config.thread_count, the length of threads[]
    MaxQueueSize,   \* default_config.max_queue_size
    MaxThreads,     \* bound: the largest thread_count any configuration asks for
    Configs,        \* configurations passed to threadpool_module_set_config
    Submitters,     \* threads that call threadpool_submit_work and ..._priority_work
    Items,          \* work items; each is handed to at most one submission
    NoItem,
    AllocMayFail,   \* environment: malloc may return NULL
    CreateMayFail   \* environment: uv_thread_create may fail

Workers == 1..MaxThreads
Kinds == {"normal", "priority"}

ASSUME ThreadCountAssumption == ThreadCount \in Nat \ {0} /\ MaxThreads \in Nat
ASSUME MaxThreadsAssumption == ThreadCount <= MaxThreads
ASSUME MaxQueueSizeAssumption == MaxQueueSize \in Nat \ {0}
ASSUME ConfigsAssumption ==
    Configs \subseteq [thread_count : 1..MaxThreads, max_queue_size : Nat \ {0}]
ASSUME NoItemAssumption == NoItem \notin Items
ASSUME EnvironmentAssumption == AllocMayFail \in BOOLEAN /\ CreateMayFail \in BOOLEAN

VARIABLES
    pool,            \* global_threadpool_data: "null", "live", or "freed" by cleanup
    state,           \* module->state; "STOPPING" while stop waits in uv_thread_join
    created,         \* threads created so far by the loop of start
    thread_count,    \* config.thread_count
    max_queue_size,
    shutdown,
    work_queue,      \* linked list from its head
    priority_queue,  \* linked list from its head
    queued_work,
    active_threads,
    wpc, witem,      \* per worker: where it is and the item it executes
    spc, scall,      \* per submitter: where it is and the call it is in
    used,            \* history: items handed to a submission
    accepted,        \* history: items whose submission returned 0
    normal_in,       \* history: normal items in the order they were queued
    normal_out,      \* history: normal items in the order workers took them
    done             \* history: items whose function returned

life == <<pool, state, created>>
conf == <<thread_count, max_queue_size>>
queues == <<work_queue, priority_queue, queued_work>>
history == <<used, accepted, normal_in, normal_out, done>>
vars == <<pool, state, created, thread_count, max_queue_size, shutdown, work_queue,
          priority_queue, queued_work, active_threads, wpc, witem, spc, scall,
          used, accepted, normal_in, normal_out, done>>

NoCall == [item |-> NoItem, kind |-> "normal"]
Calls == [item : Items, kind : Kinds] \cup {NoCall}

Init ==
    /\ pool = "null" /\ state = "UNINITIALIZED" /\ created = 0
    /\ thread_count = ThreadCount /\ max_queue_size = MaxQueueSize
    /\ shutdown = FALSE
    /\ work_queue = <<>> /\ priority_queue = <<>>
    /\ queued_work = 0 /\ active_threads = 0
    /\ wpc = [w \in Workers |-> "unborn"] /\ witem = [w \in Workers |-> NoItem]
    /\ spc = [s \in Submitters |-> "idle"] /\ scall = [s \in Submitters |-> NoCall]
    /\ used = {} /\ accepted = {} /\ done = {}
    /\ normal_in = <<>> /\ normal_out = <<>>

-----------------------------------------------------------------------------
(* Condition variables.  A signal wakes one waiter if there is one.        *)

(* Mutant: signal only when the queues were empty before the insertion.    *)
SignalWorkAvailable_WhenEmpty ==
    IF queued_work = 0 /\ \E w \in Workers : wpc[w] = "wait"
    THEN \E w \in Workers : wpc[w] = "wait" /\ wpc' = [wpc EXCEPT ![w] = "top"]
    ELSE wpc' = wpc

SignalWorkAvailable ==
    IF \E w \in Workers : wpc[w] = "wait"
    THEN \E w \in Workers : wpc[w] = "wait" /\ wpc' = [wpc EXCEPT ![w] = "top"]
    ELSE wpc' = wpc

(* Mutant: no signal when a slot becomes free.                             *)
SignalQueueNotFull_Missing == spc' = spc

SignalQueueNotFull ==
    IF \E s \in Submitters : spc[s] = "wait"
    THEN \E s \in Submitters : spc[s] = "wait" /\ spc' = [spc EXCEPT ![s] = "enter"]
    ELSE spc' = spc

(* uv_cond_wait may also return without a signal.                          *)
SpuriousWakeWorker(w) ==
    /\ pool = "live" /\ wpc[w] = "wait"
    /\ wpc' = [wpc EXCEPT ![w] = "top"]
    /\ UNCHANGED <<life, conf, shutdown, queues, active_threads, witem, spc, scall, history>>

SpuriousWakeSubmitter(s) ==
    /\ pool = "live" /\ spc[s] = "wait"
    /\ spc' = [spc EXCEPT ![s] = "enter"]
    /\ UNCHANGED <<life, conf, shutdown, queues, active_threads, wpc, witem, scall, history>>

-----------------------------------------------------------------------------
(* worker_thread.                                                          *)

(* Mutant: the wait loop looks at the normal queue only.                   *)
WorkerWait_NormalOnly(w) ==
    /\ pool = "live" /\ wpc[w] = "top"
    /\ work_queue = <<>> /\ ~shutdown
    /\ wpc' = [wpc EXCEPT ![w] = "wait"]
    /\ UNCHANGED <<life, conf, shutdown, queues, active_threads, witem, spc, scall, history>>

WorkerWait(w) ==
    /\ pool = "live" /\ wpc[w] = "top"
    /\ work_queue = <<>> /\ priority_queue = <<>> /\ ~shutdown
    /\ wpc' = [wpc EXCEPT ![w] = "wait"]
    /\ UNCHANGED <<life, conf, shutdown, queues, active_threads, witem, spc, scall, history>>

WorkerExit(w) ==
    /\ pool = "live" /\ wpc[w] = "top"
    /\ shutdown
    /\ wpc' = [wpc EXCEPT ![w] = "exited"]
    /\ UNCHANGED <<life, conf, shutdown, queues, active_threads, witem, spc, scall, history>>

(* Mutant: the head of the priority list is run but not unlinked.          *)
TakeItem_KeepsHead(w) ==
    \/ /\ priority_queue # <<>>
       /\ witem' = [witem EXCEPT ![w] = Head(priority_queue)]
       /\ UNCHANGED <<priority_queue, work_queue, normal_out>>
    \/ /\ priority_queue = <<>> /\ work_queue # <<>>
       /\ witem' = [witem EXCEPT ![w] = Head(work_queue)]
       /\ work_queue' = Tail(work_queue)
       /\ normal_out' = Append(normal_out, Head(work_queue))
       /\ UNCHANGED priority_queue

(* The priority list is served before the normal queue.                    *)
TakeItem(w) ==
    \/ /\ priority_queue # <<>>
       /\ witem' = [witem EXCEPT ![w] = Head(priority_queue)]
       /\ priority_queue' = Tail(priority_queue)
       /\ UNCHANGED <<work_queue, normal_out>>
    \/ /\ priority_queue = <<>> /\ work_queue # <<>>
       /\ witem' = [witem EXCEPT ![w] = Head(work_queue)]
       /\ work_queue' = Tail(work_queue)
       /\ normal_out' = Append(normal_out, Head(work_queue))
       /\ UNCHANGED priority_queue

(* Mutant: a worker drains the queues after shutdown was requested.        *)
WorkerTake_Drains(w) ==
    /\ pool = "live" /\ wpc[w] = "top"
    /\ TakeItem(w)
    /\ queued_work' = queued_work - 1
    /\ active_threads' = active_threads + 1
    /\ wpc' = [wpc EXCEPT ![w] = "exec"]
    /\ UNCHANGED <<life, conf, shutdown, spc, scall, used, accepted, normal_in, done>>

WorkerTake(w) ==
    /\ pool = "live" /\ wpc[w] = "top" /\ ~shutdown
    /\ TakeItem(w)
    /\ queued_work' = queued_work - 1
    /\ active_threads' = active_threads + 1
    /\ wpc' = [wpc EXCEPT ![w] = "exec"]
    /\ UNCHANGED <<life, conf, shutdown, spc, scall, used, accepted, normal_in, done>>

(* work->func(work->data) and free(work), outside the mutex.               *)
WorkerExecute(w) ==
    /\ wpc[w] = "exec"
    /\ done' = done \cup {witem[w]}
    /\ witem' = [witem EXCEPT ![w] = NoItem]
    /\ wpc' = [wpc EXCEPT ![w] = "after"]
    /\ UNCHANGED <<life, conf, shutdown, queues, active_threads, spc, scall,
                   used, accepted, normal_in, normal_out>>

(* Mutant: the worker does not go back for the mutex: the counter stays.   *)
WorkerFinish_NoDecrement(w) ==
    /\ pool = "live" /\ wpc[w] = "after"
    /\ SignalQueueNotFull
    /\ wpc' = [wpc EXCEPT ![w] = "top"]
    /\ UNCHANGED <<life, conf, shutdown, queues, active_threads, witem, scall, history>>

WorkerFinish(w) ==
    /\ pool = "live" /\ wpc[w] = "after"
    /\ active_threads' = active_threads - 1
    /\ SignalQueueNotFull
    /\ wpc' = [wpc EXCEPT ![w] = "top"]
    /\ UNCHANGED <<life, conf, shutdown, queues, witem, scall, history>>

WorkerStep(w) ==
    \/ WorkerWait(w) \/ WorkerExit(w) \/ WorkerTake(w)
    \/ WorkerExecute(w) \/ WorkerFinish(w)

-----------------------------------------------------------------------------
(* threadpool_submit_work, threadpool_submit_work_async (which calls it)   *)
(* and threadpool_submit_priority_work.                                    *)

SubmitCall(s, i, k) ==
    /\ spc[s] = "idle" /\ i \notin used
    /\ used' = used \cup {i}
    /\ \/ /\ pool = "live"
          /\ spc' = [spc EXCEPT ![s] = "enter"]
          /\ scall' = [scall EXCEPT ![s] = [item |-> i, kind |-> k]]
       \/ /\ pool # "live"             \* returns -1
          /\ UNCHANGED <<spc, scall>>
    /\ UNCHANGED <<life, conf, shutdown, queues, active_threads, wpc, witem,
                   accepted, normal_in, normal_out, done>>

QueueFull == queued_work >= max_queue_size

SubmitWait(s) ==
    /\ pool = "live" /\ spc[s] = "enter"
    /\ QueueFull /\ ~shutdown
    /\ spc' = [spc EXCEPT ![s] = "wait"]
    /\ UNCHANGED <<life, conf, shutdown, queues, active_threads, wpc, witem, scall, history>>

(* Returns -1: the pool is shut down, or create_work_item has no memory.   *)
SubmitFail(s) ==
    /\ pool = "live" /\ spc[s] = "enter"
    /\ shutdown \/ (AllocMayFail /\ ~QueueFull)
    /\ spc' = [spc EXCEPT ![s] = "idle"]
    /\ scall' = [scall EXCEPT ![s] = NoCall]
    /\ UNCHANGED <<life, conf, shutdown, queues, active_threads, wpc, witem, history>>

(* Mutant: normal work goes to the head as well.                           *)
Enqueue_AtHead(i, k) ==
    \/ /\ k = "normal"
       /\ work_queue' = <<i>> \o work_queue
       /\ normal_in' = Append(normal_in, i)
       /\ UNCHANGED priority_queue
    \/ /\ k = "priority"
       /\ priority_queue' = <<i>> \o priority_queue
       /\ UNCHANGED <<work_queue, normal_in>>

Enqueue(i, k) ==
    \/ /\ k = "normal"                  \* to the tail of the normal queue
       /\ work_queue' = Append(work_queue, i)
       /\ normal_in' = Append(normal_in, i)
       /\ UNCHANGED priority_queue
    \/ /\ k = "priority"                \* to the head of the priority list
       /\ priority_queue' = <<i>> \o priority_queue
       /\ UNCHANGED <<work_queue, normal_in>>

SubmitEnqueue(s) ==
    /\ pool = "live" /\ spc[s] = "enter"
    /\ ~QueueFull /\ ~shutdown
    /\ Enqueue(scall[s].item, scall[s].kind)
    /\ queued_work' = queued_work + 1
    /\ SignalWorkAvailable
    /\ accepted' = accepted \cup {scall[s].item}
    /\ spc' = [spc EXCEPT ![s] = "idle"]
    /\ scall' = [scall EXCEPT ![s] = NoCall]
    /\ UNCHANGED <<life, conf, shutdown, active_threads, witem, used, normal_out, done>>

SubmitStep(s) == SubmitWait(s) \/ SubmitFail(s) \/ SubmitEnqueue(s)

-----------------------------------------------------------------------------
(* The module life cycle, called by the module manager on the main thread. *)

ModuleInit ==
    /\ pool = "null" /\ state = "UNINITIALIZED"
    /\ \/ pool' = "live" /\ state' = "INITIALIZED"
       \/ AllocMayFail /\ pool' = pool /\ state' = "ERROR"
    /\ UNCHANGED <<created, conf, shutdown, queues, active_threads, wpc, witem,
                   spc, scall, history>>

(* One turn of the loop of threadpool_module_start.                        *)
StartThread ==
    /\ state = "INITIALIZED" /\ created < thread_count
    /\ created' = created + 1
    /\ wpc' = [wpc EXCEPT ![created + 1] = "top"]
    /\ UNCHANGED <<pool, state, conf, shutdown, queues, active_threads, witem,
                   spc, scall, history>>

StartThreadFails ==
    /\ CreateMayFail
    /\ state = "INITIALIZED" /\ created < thread_count
    /\ state' = "ERROR"
    /\ UNCHANGED <<pool, created, conf, shutdown, queues, active_threads, wpc, witem,
                   spc, scall, history>>

StartReturns ==
    /\ state = "INITIALIZED" /\ created >= thread_count
    /\ state' = "STARTED"
    /\ UNCHANGED <<pool, created, conf, shutdown, queues, active_threads, wpc, witem,
                   spc, scall, history>>

(* threadpool_module_set_config copies the whole configuration, unlocked.  *)
SetConfig(c) ==
    /\ pool = "live"
    /\ \/ state = "INITIALIZED" /\ created = 0
       \/ state = "STARTED"
    /\ thread_count' = c.thread_count
    /\ max_queue_size' = c.max_queue_size
    /\ UNCHANGED <<life, shutdown, queues, active_threads, wpc, witem, spc, scall, history>>

(* Mutant: stop signals one worker instead of waking them all.             *)
StopBegin_SignalsOne ==
    /\ state = "STARTED"
    /\ state' = "STOPPING"
    /\ shutdown' = TRUE
    /\ SignalWorkAvailable
    /\ UNCHANGED <<pool, created, conf, queues, active_threads, witem, spc, scall, history>>

(* threadpool_module_stop up to its join loop; it wakes the workers only.  *)
StopBegin ==
    /\ state = "STARTED"
    /\ state' = "STOPPING"
    /\ shutdown' = TRUE
    /\ wpc' = [w \in Workers |-> IF wpc[w] = "wait" THEN "top" ELSE wpc[w]]
    /\ UNCHANGED <<pool, created, conf, queues, active_threads, witem, spc, scall, history>>

(* Mutant: the join loop leaves the last thread out.                       *)
StopJoined_OffByOne ==
    /\ state = "STOPPING"
    /\ \A w \in 1..(thread_count - 1) : wpc[w] = "exited"
    /\ state' = "STOPPED"
    /\ UNCHANGED <<pool, created, conf, shutdown, queues, active_threads, wpc, witem,
                   spc, scall, history>>

(* The join loop ends when the first thread_count threads have exited.     *)
StopJoined ==
    /\ state = "STOPPING"
    /\ \A w \in 1..thread_count : wpc[w] = "exited"
    /\ state' = "STOPPED"
    /\ UNCHANGED <<pool, created, conf, shutdown, queues, active_threads, wpc, witem,
                   spc, scall, history>>

(* module_manager_shutdown cleans up every module that is not              *)
(* UNINITIALIZED, and has stopped before that only the STARTED ones.       *)
Cleanup ==
    /\ state \in {"STOPPED", "ERROR"} /\ pool = "live"
    /\ pool' = "freed" /\ state' = "UNINITIALIZED"
    /\ work_queue' = <<>> /\ priority_queue' = <<>>
    /\ UNCHANGED <<created, conf, shutdown, queued_work, active_threads, wpc, witem,
                   spc, scall, history>>

-----------------------------------------------------------------------------
Next ==
    \/ \E w \in Workers : WorkerStep(w) \/ SpuriousWakeWorker(w)
    \/ \E s \in Submitters :
          \/ SubmitStep(s) \/ SpuriousWakeSubmitter(s)
          \/ \E i \in Items, k \in Kinds : SubmitCall(s, i, k)
    \/ ModuleInit \/ StartThread \/ StartThreadFails \/ StartReturns
    \/ \E c \in Configs : SetConfig(c)
    \/ StopBegin \/ StopJoined \/ Cleanup

Spec == Init /\ [][Next]_vars

(* Workers and submitters that can run do run (work functions return), and *)
(* the main thread goes through start and through the join loop.  Nobody   *)
(* has to submit, stop, reconfigure or wake up spuriously.                 *)
Fairness ==
    /\ \A w \in Workers : WF_vars(WorkerStep(w))
    /\ \A s \in Submitters : WF_vars(SubmitStep(s))
    /\ WF_vars(StartThread) /\ WF_vars(StartReturns) /\ WF_vars(StopJoined)

FairSpec == Spec /\ Fairness

-----------------------------------------------------------------------------
(* Properties.                                                             *)

Executing == {w \in Workers : wpc[w] = "exec"}
Active == {w \in Workers : wpc[w] \in {"exec", "after"}}
AtTop == {w \in Workers : wpc[w] = "top"}
Asleep == {w \in Workers : wpc[w] = "wait"}

(* Types, with the counters of threadpool_private_data_t never negative.   *)
TypeOK ==
    /\ pool \in {"null", "live", "freed"}
    /\ state \in {"UNINITIALIZED", "INITIALIZED", "STARTED", "STOPPING", "STOPPED", "ERROR"}
    /\ created \in 0..MaxThreads
    /\ thread_count \in 1..MaxThreads
    /\ max_queue_size \in Nat \ {0}
    /\ shutdown \in BOOLEAN
    /\ work_queue \in Seq(Items)
    /\ priority_queue \in Seq(Items)
    /\ queued_work \in Nat
    /\ active_threads \in Nat
    /\ wpc \in [Workers -> {"unborn", "top", "wait", "exec", "after", "exited"}]
    /\ witem \in [Workers -> Items \cup {NoItem}]
    /\ spc \in [Submitters -> {"idle", "enter", "wait"}]
    /\ scall \in [Submitters -> Calls]
    /\ used \subseteq Items /\ accepted \subseteq Items /\ done \subseteq Items
    /\ normal_in \in Seq(Items) /\ normal_out \in Seq(Items)

(* The counters that the queue limit, threadpool_get_queued_work_count and *)
(* threadpool_get_active_thread_count read describe the queues and the     *)
(* workers exactly, whatever the interleaving (lines 59-75, 265, 305).     *)
CountersMatch ==
    /\ pool = "live" => queued_work = Len(work_queue) + Len(priority_queue)
    /\ active_threads = Cardinality(Active)

(* Where an accepted item is: in a queue, with a worker, or executed.      *)
Places(i) ==
    Cardinality({n \in DOMAIN work_queue : work_queue[n] = i})
    + Cardinality({n \in DOMAIN priority_queue : priority_queue[n] = i})
    + Cardinality({w \in Executing : witem[w] = i})
    + Cardinality({i} \cap done)

(* While the pool lives, an item whose submission returned 0 is in exactly *)
(* one place, and no other item is anywhere: nothing is lost, duplicated   *)
(* or run twice by worker_thread and the two submit functions.             *)
ExactlyOnce ==
    pool = "live" => \A i \in Items : Places(i) = IF i \in accepted THEN 1 ELSE 0

(* Normal work leaves the queue in the order in which it was accepted.     *)
FifoOrder == pool = "live" => normal_in = normal_out \o work_queue

(* No lost wakeup on work_available: while any worker sleeps, each queued  *)
(* item has a worker of its own that is on its way to take it, so no idle  *)
(* worker sleeps beside work; and after shutdown nobody sleeps at all.     *)
NoLostWakeup ==
    /\ Asleep # {} /\ ~shutdown => queued_work <= Cardinality(AtTop)
    /\ shutdown => Asleep = {}

(* No lost wakeup on queue_not_full: a sleeping submitter is followed by a *)
(* queued item, a running worker or another submitter that will signal, as *)
(* long as no woken submitter fails in create_work_item.                   *)
SubmitterHasWaker ==
    (\E s \in Submitters : spc[s] = "wait") /\ ~shutdown =>
        \/ queued_work > 0
        \/ active_threads > 0
        \/ \E s \in Submitters : spc[s] = "enter"

(* threadpool_module_cleanup frees the mutex and the pool only after every *)
(* worker that uses them has left worker_thread.                           *)
WorkersGoneBeforeFree ==
    pool = "freed" => \A w \in Workers : wpc[w] \in {"unborn", "exited"}

(* threads[] holds a handle for every thread started, and stop joins those *)
(* threads and no other slot.                                              *)
HandlesValid ==
    /\ created <= ThreadCount
    /\ state = "STOPPING" => thread_count = created

(* Accepted work is executed unless the pool is stopped first.  (Workers   *)
(* prefer priority work: with an endless stream of it normal work would    *)
(* wait for ever.  The items of the model are finitely many.)              *)
AcceptedRuns ==
    \A i \in Items : (i \in accepted) ~> (i \in done \/ shutdown)

(* threadpool_module_stop returns: the join loop does not wait for ever.   *)
StopCompletes == (state = "STOPPING") ~> (state = "STOPPED")

(* A submitter blocked on a full queue gets its answer.  This does not     *)
(* hold: stop does not signal queue_not_full.  No run checks it.           *)
BlockedSubmitReturns ==
    \A s \in Submitters : (spc[s] = "wait") ~> (spc[s] = "idle")

(* The same, when the pool is not stopped meanwhile.                       *)
BlockedSubmitProceeds ==
    \A s \in Submitters : (spc[s] = "wait") ~> (spc[s] = "idle" \/ shutdown)

-----------------------------------------------------------------------------
(* The pool implements TaskPool: pending tasks are the items in the two    *)
(* queues, running ones are in the hands of a worker.                      *)

Elements(q) == {q[n] : n \in DOMAIN q}
PendingItems == Elements(work_queue) \cup Elements(priority_queue)
RunningItems == {witem[w] : w \in Executing}

Abstract == INSTANCE TaskPool WITH
    Tasks <- Items,
    open <- ~shutdown,
    pending <- PendingItems,
    running <- RunningItems,
    finished <- done

(* Every run of worker_thread, the submit functions, stop and cleanup is a *)
(* run of TaskPool when no thread creation fails.                          *)
ImplementsTaskPool == Abstract!TaskSpec
=============================================================================
