------------------------------- MODULE Logger -------------------------------
(***************************************************************************)
(* The asynchronous logger of src/src/log/logger_module.c: threads that    *)
(* call log_info and its siblings push messages onto a bounded queue, one  *)
(* worker pops them and writes them, a full queue makes the caller write   *)
(* the message itself, and the main thread starts and stops the worker.    *)
(*                                                                         *)
(* Critical sections of queue_mutex are single steps, with one exception:  *)
(* between the evaluation of the wait condition and uv_cond_wait the       *)
(* worker holds the mutex ("sleepy"), which matters because stop changes   *)
(* worker_running and signals without taking it.  A line goes to the       *)
(* console and to the file together; the logger's messages about itself    *)
(* are left out.                                                           *)
(***************************************************************************)
EXTENDS Integers, Sequences, FiniteSets

CONSTANTS
    Producers,       \* threads that call log_debug ... log_fatal
    MaxMessages,     \* bound: calls per producer
    QueueSizes,      \* values of config.max_queue_size
    AsyncModes,      \* values of config.enable_async
    CallsMayFail     \* environment: malloc, fopen or uv_thread_create may fail

ASSUME ProducersAssumption == IsFiniteSet(Producers)
ASSUME BoundAssumption == MaxMessages \in Nat /\ QueueSizes \subseteq Nat \ {0} /\ QueueSizes # {}
ASSUME SwitchAssumption == AsyncModes \subseteq BOOLEAN /\ CallsMayFail \in BOOLEAN

(* The n-th message of producer p.                                         *)
Messages == Producers \X (1..MaxMessages)
NoMessage == <<>>

VARIABLES
    data,            \* global_logger_data: "null", "live", "freed"
    state,           \* module->state; "FLAGGED" and "JOINING" inside stop
    worker_running,
    enable_async,    \* config.enable_async, read by start
    max_size,
    queue,           \* from its head
    wpc, wmsg,       \* the worker and the message it has popped
    ppc, sent,       \* per producer: where it is, calls made so far
    fpc, fset,       \* a caller of logger_flush, and what had been logged before
    written,         \* history: lines in the order they were written
    pushed,          \* history: messages in the order they were queued
    discarded        \* history: messages dropped

conf == <<enable_async, max_size>>
vars == <<data, state, worker_running, enable_async, max_size, queue, wpc, wmsg, ppc, sent,
          fpc, fset, written, pushed, discarded>>

Elements(s) == {s[n] : n \in DOMAIN s}
LastOf(p) == <<p, sent[p]>>

Init ==
    /\ data = "null" /\ state = "UNINITIALIZED" /\ worker_running = FALSE
    /\ enable_async \in AsyncModes /\ max_size \in QueueSizes
    /\ queue = <<>> /\ wpc = "none" /\ wmsg = NoMessage
    /\ ppc = [p \in Producers |-> "idle"] /\ sent = [p \in Producers |-> 0]
    /\ fpc = "idle" /\ fset = {}
    /\ written = <<>> /\ pushed = <<>> /\ discarded = {}

MutexFree == wpc # "sleepy"

-----------------------------------------------------------------------------
(* log_internal_async and what it calls.                                   *)

(* Without a logger, or memory for the message, it is dropped.             *)
LogCall(p) ==
    /\ ppc[p] = "idle" /\ sent[p] < MaxMessages
    /\ sent' = [sent EXCEPT ![p] = @ + 1]
    /\ \/ /\ data = "live"
          /\ ppc' = [ppc EXCEPT ![p] = "push"]
          /\ UNCHANGED discarded
       \/ /\ data # "live" \/ CallsMayFail
          /\ discarded' = discarded \cup {<<p, sent[p] + 1>>}
          /\ UNCHANGED ppc
    /\ UNCHANGED <<data, state, worker_running, conf, queue, wpc, wmsg, fpc, fset,
                   written, pushed>>

(* Mutant: the message is pushed without a signal.                         *)
SignalWorker_Missing == wpc' = wpc

(* uv_cond_signal: the worker, if it waits, goes back to the mutex.        *)
SignalWorker == wpc' = IF wpc = "wait" THEN "pop" ELSE wpc

(* Mutant: the new message is linked at the head.                          *)
Link_AtHead(m) == queue' = <<m>> \o queue

Link(m) == queue' = Append(queue, m)

(* log_queue_push.                                                         *)
Push(p) ==
    /\ data = "live" /\ ppc[p] = "push" /\ MutexFree
    /\ Len(queue) < max_size
    /\ Link(LastOf(p))
    /\ pushed' = Append(pushed, LastOf(p))
    /\ SignalWorker
    /\ ppc' = [ppc EXCEPT ![p] = "idle"]
    /\ UNCHANGED <<data, state, worker_running, conf, wmsg, sent, fpc, fset, written,
                   discarded>>

PushFull(p) ==
    /\ data = "live" /\ ppc[p] = "push" /\ MutexFree
    /\ Len(queue) >= max_size
    /\ ppc' = [ppc EXCEPT ![p] = "sync"]
    /\ UNCHANGED <<data, state, worker_running, conf, queue, wpc, wmsg, sent, fpc, fset,
                   written, pushed, discarded>>

(* log_internal_sync in the caller's thread.                               *)
SyncWrite(p) ==
    /\ ppc[p] = "sync"
    /\ written' = Append(written, LastOf(p))
    /\ ppc' = [ppc EXCEPT ![p] = "idle"]
    /\ UNCHANGED <<data, state, worker_running, conf, queue, wpc, wmsg, sent, fpc, fset,
                   pushed, discarded>>

-----------------------------------------------------------------------------
(* logger_worker_thread and log_queue_pop.                                 *)

WorkerCheck ==
    /\ wpc = "check"
    /\ wpc' = IF worker_running THEN "pop" ELSE "exited"
    /\ UNCHANGED <<data, state, worker_running, conf, queue, wmsg, ppc, sent, fpc, fset,
                   written, pushed, discarded>>

(* Mutant: the message that is popped stays at the head.                   *)
WorkerPop_KeepsHead ==
    /\ wpc = "pop" /\ queue # <<>>
    /\ wmsg' = Head(queue) /\ wpc' = "write"
    /\ UNCHANGED <<data, state, worker_running, conf, queue, ppc, sent, fpc, fset, written,
                   pushed, discarded>>

WorkerPop ==
    /\ wpc = "pop" /\ queue # <<>>
    /\ wmsg' = Head(queue) /\ queue' = Tail(queue) /\ wpc' = "write"
    /\ UNCHANGED <<data, state, worker_running, conf, ppc, sent, fpc, fset, written,
                   pushed, discarded>>

(* The queue is empty: wait, or return NULL when the worker is to stop.    *)
WorkerPopEmpty ==
    /\ wpc = "pop" /\ queue = <<>>
    /\ wpc' = IF worker_running THEN "sleepy" ELSE "check"
    /\ UNCHANGED <<data, state, worker_running, conf, queue, wmsg, ppc, sent, fpc, fset,
                   written, pushed, discarded>>

WorkerSleep ==
    /\ wpc = "sleepy"
    /\ wpc' = "wait"
    /\ UNCHANGED <<data, state, worker_running, conf, queue, wmsg, ppc, sent, fpc, fset,
                   written, pushed, discarded>>

WorkerWrite ==
    /\ wpc = "write"
    /\ written' = Append(written, wmsg)
    /\ wmsg' = NoMessage /\ wpc' = "check"
    /\ UNCHANGED <<data, state, worker_running, conf, queue, ppc, sent, fpc, fset,
                   pushed, discarded>>

SpuriousWake ==
    /\ wpc = "wait"
    /\ wpc' = "pop"
    /\ UNCHANGED <<data, state, worker_running, conf, queue, wmsg, ppc, sent, fpc, fset,
                   written, pushed, discarded>>

WorkerStep == WorkerCheck \/ WorkerPop \/ WorkerPopEmpty \/ WorkerSleep \/ WorkerWrite

-----------------------------------------------------------------------------
(* logger_flush: waits, a millisecond at a time, for an empty queue.       *)

Logged == Elements(pushed) \cup Elements(written)

FlushCall ==
    /\ data = "live" /\ fpc = "idle" /\ state = "STARTED"
    /\ fpc' = "poll" /\ fset' = Logged
    /\ UNCHANGED <<data, state, worker_running, conf, queue, wpc, wmsg, ppc, sent,
                   written, pushed, discarded>>

(* Mutant: one sleep instead of the loop.                                  *)
FlushReturn_Once ==
    /\ fpc = "poll" /\ MutexFree
    /\ fpc' = "returned"
    /\ UNCHANGED <<data, state, worker_running, conf, queue, wpc, wmsg, ppc, sent, fset,
                   written, pushed, discarded>>

FlushReturn ==
    /\ fpc = "poll" /\ MutexFree /\ queue = <<>>
    /\ fpc' = "returned"
    /\ UNCHANGED <<data, state, worker_running, conf, queue, wpc, wmsg, ppc, sent, fset,
                   written, pushed, discarded>>

-----------------------------------------------------------------------------
(* The module life cycle, on the main thread.                              *)

ModuleInit ==
    /\ data = "null" /\ state = "UNINITIALIZED"
    /\ \/ data' = "live" /\ state' = "INITIALIZED"
       \/ CallsMayFail /\ data' = data /\ state' = "ERROR"
    /\ UNCHANGED <<worker_running, conf, queue, wpc, wmsg, ppc, sent, fpc, fset, written,
                   pushed, discarded>>

Start ==
    /\ state = "INITIALIZED"
    /\ state' = "STARTED"
    /\ worker_running' = enable_async
    /\ wpc' = IF enable_async THEN "check" ELSE "none"
    /\ UNCHANGED <<data, conf, queue, wmsg, ppc, sent, fpc, fset, written, 
                   pushed, discarded>>

(* The log file cannot be opened, or the thread cannot be created after    *)
(* worker_running was set.                                                 *)
StartFails ==
    /\ CallsMayFail /\ state = "INITIALIZED"
    /\ state' = "ERROR"
    /\ \E b \in {FALSE, enable_async} : worker_running' = b
    /\ UNCHANGED <<data, conf, queue, wpc, wmsg, ppc, sent, fpc, fset, written, 
                   pushed, discarded>>

(* logger_module_set_config changes both without the mutex, and starts or  *)
(* stops no worker.                                                        *)
SetConfig(n, b) ==
    /\ data = "live" /\ state \in {"INITIALIZED", "STARTED"}
    /\ max_size' = n /\ enable_async' = b
    /\ UNCHANGED <<data, state, worker_running, queue, wpc, wmsg, ppc, sent, fpc, fset,
                   written, pushed, discarded>>

(* logger_module_stop, statement by statement, without the mutex.          *)
StopFlag ==
    /\ state = "STARTED"
    /\ worker_running' = FALSE
    /\ state' = IF worker_running THEN "FLAGGED" ELSE "JOINING"
    /\ UNCHANGED <<data, conf, queue, wpc, wmsg, ppc, sent, fpc, fset, written, 
                   pushed, discarded>>

StopSignal ==
    /\ state = "FLAGGED"
    /\ SignalWorker
    /\ state' = "JOINING"
    /\ UNCHANGED <<data, worker_running, conf, queue, wmsg, ppc, sent, fpc, fset, written,
                   pushed, discarded>>

(* The join returns and log_queue_clear drops what is left.                *)
StopJoined ==
    /\ state = "JOINING" /\ wpc \in {"none", "exited"}
    /\ state' = "STOPPED"
    /\ discarded' = discarded \cup Elements(queue)
    /\ queue' = <<>>
    /\ UNCHANGED <<data, worker_running, conf, wpc, wmsg, ppc, sent, fpc, fset, written,
                   pushed>>

Cleanup ==
    /\ state \in {"STOPPED", "ERROR"} /\ data = "live"
    /\ data' = "freed" /\ state' = "UNINITIALIZED"
    /\ discarded' = discarded \cup Elements(queue)
    /\ queue' = <<>>
    /\ UNCHANGED <<worker_running, conf, wpc, wmsg, ppc, sent, fpc, fset, written,
                   pushed>>

-----------------------------------------------------------------------------
Next ==
    \/ \E p \in Producers : LogCall(p) \/ Push(p) \/ PushFull(p) \/ SyncWrite(p)
    \/ WorkerStep \/ SpuriousWake
    \/ FlushCall \/ FlushReturn
    \/ ModuleInit \/ Start \/ StartFails \/ StopFlag \/ StopSignal \/ StopJoined \/ Cleanup
    \/ \E n \in QueueSizes, b \in AsyncModes : SetConfig(n, b)

Spec == Init /\ [][Next]_vars

(* The worker and the main thread inside stop run when they can.  A flush  *)
(* that finds queue_mutex taken gets it in the end, however often the      *)
(* worker takes it again: strong fairness.  (The queue itself is empty for *)
(* good after the last message, so that strong fairness assumes nothing    *)
(* about the moment at which flush polls.)                                 *)
Fairness ==
    /\ WF_vars(WorkerStep) /\ SF_vars(FlushReturn)
    /\ WF_vars(StopSignal) /\ WF_vars(StopJoined)

FairSpec == Spec /\ Fairness

-----------------------------------------------------------------------------
(* Properties.                                                             *)

(* Types.                                                                  *)
TypeOK ==
    /\ data \in {"null", "live", "freed"}
    /\ state \in {"UNINITIALIZED", "INITIALIZED", "STARTED", "FLAGGED", "JOINING",
                  "STOPPED", "ERROR"}
    /\ worker_running \in BOOLEAN /\ enable_async \in AsyncModes /\ max_size \in QueueSizes
    /\ queue \in Seq(Messages) /\ written \in Seq(Messages) /\ pushed \in Seq(Messages)
    /\ wpc \in {"none", "check", "pop", "sleepy", "wait", "write", "exited"}
    /\ wmsg \in Messages \cup {NoMessage} /\ (wpc = "write") = (wmsg # NoMessage)
    /\ ppc \in [Producers -> {"idle", "push", "sync"}]
    /\ sent \in [Producers -> 0..MaxMessages]
    /\ fpc \in {"idle", "poll", "returned"}
    /\ fset \subseteq Messages /\ discarded \subseteq Messages

InHand == {LastOf(p) : p \in {q \in Producers : ppc[q] # "idle"}}
Sent == {m \in Messages : m[2] <= sent[m[1]]}

(* Every message that was logged is in one place: in the queue, with the   *)
(* worker, with its caller, on the output once, or dropped by stop or for  *)
(* want of a logger.                                                       *)
NoneLostOrDoubled ==
    \A m \in Messages :
        Cardinality({n \in DOMAIN queue : queue[n] = m})
        + Cardinality({n \in DOMAIN written : written[n] = m})
        + Cardinality({m} \cap {wmsg}) + Cardinality({m} \cap InHand)
        + Cardinality({m} \cap discarded)
        = IF m \in Sent THEN 1 ELSE 0

(* The worker sleeps only while there is nothing to write.                 *)
WorkerAwake == wpc \in {"wait", "sleepy"} => queue = <<>>

(* What goes through the queue comes out in the order it went in: the      *)
(* pushes are, one after the other, messages that were written, the first  *)
(* of them first, then the message the worker has, then the queue.         *)
Done == Len(pushed) - Len(queue) - (IF wmsg = NoMessage THEN 0 ELSE 1)
QueueFifo ==
    data = "live" /\ state # "STOPPED" =>
        /\ \A i \in DOMAIN queue : queue[i] = pushed[Len(pushed) - Len(queue) + i]
        /\ wmsg # NoMessage => wmsg = pushed[Done + 1]
        /\ \A i \in 1..Done : pushed[i] \in Elements(written)
        /\ \A i, j \in 1..Done : \A k, l \in DOMAIN written :
              i < j /\ pushed[i] = written[k] /\ pushed[j] = written[l] => k < l

(* When logger_flush has returned, everything logged before the call is    *)
(* written or dropped by stop, except the one message the worker holds.    *)
FlushComplete ==
    fpc = "returned" => fset \subseteq Elements(written) \cup discarded \cup {wmsg}

(* The worker is gone when stop returns, so cleanup may free the queue.    *)
WorkerJoined == state = "STOPPED" \/ data = "freed" => wpc \in {"none", "exited"}

(* A queued message is written, unless the logger is stopped before or was *)
(* started without a worker.                                               *)
QueuedWritten ==
    \A m \in Messages :
        (m \in Elements(queue) /\ wpc # "none")
            ~> (m \in Elements(written) \/ state # "STARTED")

(* logger_flush returns where there is a worker, unless the logger is      *)
(* stopped before.  (It polls until the queue is empty: producers that     *)
(* never pause could keep it waiting.  The model's messages are finitely   *)
(* many.)                                                                  *)
FlushReturns ==
    (fpc = "poll" /\ wpc # "none") ~> (fpc = "returned" \/ state # "STARTED")

(* logger_module_stop returns.                                             *)
StopReturns == (state = "FLAGGED") ~> (state = "STOPPED")
=============================================================================
