-------------------------- MODULE ThreadPoolProofs --------------------------
(***************************************************************************)
(* Proofs about ThreadPool, for every number of threads, queue limit, set  *)
(* of submitters, set of items and set of configurations.                  *)
(***************************************************************************)
EXTENDS ThreadPool, FiniteSetTheorems, SequenceTheorems, TLAPS

PCs == {"unborn", "top", "wait", "exec", "after", "exited"}

(* The workers whose program counter, in f, lies in A.                     *)
At(f, A) == {w \in Workers : f[w] \in A}

(* Workers is an interval, so every set of workers has a cardinality.      *)
LEMMA AtFinite ==
    ASSUME NEW f, NEW A
    PROVE  IsFiniteSet(At(f, A)) /\ Cardinality(At(f, A)) \in Nat
<1>1. IsFiniteSet(Workers)
  BY FS_Interval, ThreadCountAssumption DEF Workers
<1>2. At(f, A) \in SUBSET Workers
  BY DEF At
<1> QED
  BY <1>1, <1>2, FS_Subset, FS_CardinalityType

(* A worker that moves into A adds one to the workers in A.                *)
LEMMA MoveIn ==
    ASSUME NEW f \in [Workers -> PCs], NEW w \in Workers, NEW x \in PCs, NEW A,
           f[w] \notin A, x \in A
    PROVE  Cardinality(At([f EXCEPT ![w] = x], A)) = Cardinality(At(f, A)) + 1
<1>1. At([f EXCEPT ![w] = x], A) = At(f, A) \cup {w}
  BY DEF At
<1>2. w \notin At(f, A)
  BY DEF At
<1> QED
  BY <1>1, <1>2, AtFinite, FS_AddElement

(* A worker that moves out of A takes one away.                            *)
LEMMA MoveOut ==
    ASSUME NEW f \in [Workers -> PCs], NEW w \in Workers, NEW x \in PCs, NEW A,
           f[w] \in A, x \notin A
    PROVE  Cardinality(At([f EXCEPT ![w] = x], A)) = Cardinality(At(f, A)) - 1
<1>1. At([f EXCEPT ![w] = x], A) = At(f, A) \ {w}
  BY DEF At
<1>2. w \in At(f, A)
  BY DEF At
<1> QED
  BY <1>1, <1>2, AtFinite, FS_RemoveElement

(* A worker that stays on its side of A changes nothing.                   *)
LEMMA MoveBeside ==
    ASSUME NEW f \in [Workers -> PCs], NEW w \in Workers, NEW x \in PCs, NEW A,
           f[w] \in A <=> x \in A
    PROVE  At([f EXCEPT ![w] = x], A) = At(f, A)
  BY DEF At

Busy == {"exec", "after"}

(* The workers that count as active, before and after a step.              *)
LEMMA ActiveIsAt == Active = At(wpc, Busy) /\ Active' = At(wpc', Busy)
  BY DEF Active, At, Busy

(* The workers on their way to the mutex, before and after a step.         *)
LEMMA AtTopIsAt == AtTop = At(wpc, {"top"}) /\ AtTop' = At(wpc', {"top"})
  BY DEF AtTop, At

-----------------------------------------------------------------------------
(***************************************************************************)
(* Type correctness and the counters.  TypeOK is not inductive: that       *)
(* queued_work and active_threads never become negative follows from what  *)
(* they count, and that the queues hold items follows from what submitters *)
(* and workers hold.                                                       *)
(***************************************************************************)

HeldItems ==
    /\ \A w \in Workers : wpc[w] = "exec" => witem[w] \in Items
    /\ \A s \in Submitters : spc[s] # "idle" => scall[s] \in [item : Items, kind : Kinds]

NotYetUsed ==
    pool = "null" => work_queue = <<>> /\ priority_queue = <<>> /\ queued_work = 0

Births == \A w \in Workers : wpc[w] = "unborn" <=> w > created

IInv == TypeOK /\ HeldItems /\ NotYetUsed /\ Births /\ CountersMatch

USE DEF life, conf, queues, history

(* The assumptions on the constants that the steps below need.             *)
LEMMA Constants ==
    /\ ThreadCount \in Nat /\ ThreadCount >= 1 /\ MaxThreads \in Nat
    /\ ThreadCount <= MaxThreads /\ MaxQueueSize \in Nat \ {0}
    /\ Configs \subseteq [thread_count : 1..MaxThreads, max_queue_size : Nat \ {0}]
    /\ NoItem \notin Items
  BY ThreadCountAssumption, MaxThreadsAssumption, MaxQueueSizeAssumption,
     ConfigsAssumption, NoItemAssumption

(* The pool starts out with empty queues, no workers and counters at zero. *)
LEMMA InitIInv == Init => IInv
<1> SUFFICES ASSUME Init PROVE IInv
  OBVIOUS
<1>1. TypeOK
  <2>1. NoCall \in Calls /\ <<>> \in Seq(Items)
    BY DEF Calls
  <2>2. thread_count \in 1..MaxThreads /\ max_queue_size \in Nat \ {0}
    BY Constants DEF Init
  <2>3. /\ scall \in [Submitters -> Calls] /\ spc \in [Submitters -> {"idle", "enter", "wait"}]
        /\ witem \in [Workers -> Items \cup {NoItem}]
        /\ wpc \in [Workers -> {"unborn", "top", "wait", "exec", "after", "exited"}]
    BY <2>1 DEF Init
  <2>4. work_queue \in Seq(Items) /\ priority_queue \in Seq(Items)
        /\ normal_in \in Seq(Items) /\ normal_out \in Seq(Items)
    BY <2>1 DEF Init
  <2>5. created \in 0..MaxThreads /\ queued_work \in Nat /\ active_threads \in Nat
    BY Constants DEF Init
  <2> QED
    BY <2>2, <2>3, <2>4, <2>5 DEF Init, TypeOK
<1>2. HeldItems /\ NotYetUsed
  BY DEF Init, HeldItems, NotYetUsed
<1>5. Births
  BY Constants DEF Init, Births, Workers
<1>3. Active = {}
  BY DEF Init, Active
<1>4. CountersMatch
  BY <1>3, FS_EmptySet DEF Init, CountersMatch
<1> QED
  BY <1>1, <1>2, <1>4, <1>5 DEF IInv

(* Steps in which only a worker that is not executing moves.               *)
LEMMA WorkerMovesIInv ==
    ASSUME IInv, NEW w \in Workers,
           WorkerWait(w) \/ WorkerExit(w) \/ SpuriousWakeWorker(w)
    PROVE  IInv'
<1> USE DEF WorkerWait, WorkerExit, SpuriousWakeWorker
<1>1. TypeOK'
  BY DEF IInv, TypeOK
<1>2. HeldItems' /\ NotYetUsed' /\ Births'
  BY DEF IInv, TypeOK, HeldItems, NotYetUsed, Births
<1>3. Active' = Active
  BY DEF IInv, TypeOK, Active
<1>4. CountersMatch'
  BY <1>3 DEF IInv, CountersMatch
<1> QED
  BY <1>1, <1>2, <1>4 DEF IInv

(* A worker takes an item.                                                 *)
LEMMA WorkerTakeIInv ==
    ASSUME IInv, NEW w \in Workers, WorkerTake(w)
    PROVE  IInv'
<1>1. /\ wpc \in [Workers -> PCs] /\ work_queue \in Seq(Items)
      /\ priority_queue \in Seq(Items) /\ normal_out \in Seq(Items)
      /\ queued_work \in Nat /\ active_threads \in Nat
      /\ queued_work = Len(work_queue) + Len(priority_queue)
      /\ active_threads = Cardinality(Active)
  BY DEF IInv, TypeOK, CountersMatch, WorkerTake, PCs
<1>2. /\ work_queue' \in Seq(Items) /\ priority_queue' \in Seq(Items)
      /\ normal_out' \in Seq(Items)
      /\ Len(work_queue') + Len(priority_queue') = queued_work - 1
      /\ witem' \in [Workers -> Items \cup {NoItem}]
      /\ witem'[w] \in Items
      /\ \A v \in Workers : v # w => witem'[v] = witem[v]
  <2>1. CASE priority_queue # <<>>
    <3>1. /\ Head(priority_queue) \in Items /\ Tail(priority_queue) \in Seq(Items)
          /\ Len(Tail(priority_queue)) = Len(priority_queue) - 1
          /\ Len(priority_queue) \in Nat /\ Len(work_queue) \in Nat
      BY <1>1, <2>1, HeadTailProperties, LenProperties
    <3>2. /\ witem' = [witem EXCEPT ![w] = Head(priority_queue)]
          /\ priority_queue' = Tail(priority_queue)
          /\ work_queue' = work_queue /\ normal_out' = normal_out
      BY <2>1 DEF WorkerTake, TakeItem
    <3>3. witem \in [Workers -> Items \cup {NoItem}]
      BY DEF IInv, TypeOK
    <3> QED
      BY <1>1, <3>1, <3>2, <3>3
  <2>2. CASE priority_queue = <<>>
    <3>1. /\ witem' = [witem EXCEPT ![w] = Head(work_queue)]
          /\ work_queue' = Tail(work_queue) /\ priority_queue' = priority_queue
          /\ normal_out' = Append(normal_out, Head(work_queue))
          /\ work_queue # <<>>
      BY <2>2 DEF WorkerTake, TakeItem
    <3>2. /\ Head(work_queue) \in Items /\ Tail(work_queue) \in Seq(Items)
          /\ Len(Tail(work_queue)) = Len(work_queue) - 1
          /\ Len(work_queue) \in Nat /\ Len(priority_queue) \in Nat
      BY <1>1, <3>1, HeadTailProperties, LenProperties
    <3>3. Append(normal_out, Head(work_queue)) \in Seq(Items)
      BY <1>1, <3>2, AppendProperties
    <3>4. witem \in [Workers -> Items \cup {NoItem}]
      BY DEF IInv, TypeOK
    <3> QED
      BY <1>1, <3>1, <3>2, <3>3, <3>4
  <2> QED
    BY <2>1, <2>2
<1>3. Len(work_queue') \in Nat /\ Len(priority_queue') \in Nat
  BY <1>2, LenProperties
<1>4. TypeOK'
  <2>1. queued_work' \in Nat /\ active_threads' \in Nat
    BY <1>1, <1>2, <1>3 DEF WorkerTake
  <2>2. wpc' \in [Workers -> {"unborn", "top", "wait", "exec", "after", "exited"}]
    BY <1>1 DEF WorkerTake, PCs
  <2>3. /\ pool' = pool /\ state' = state /\ created' = created /\ shutdown' = shutdown
        /\ thread_count' = thread_count /\ max_queue_size' = max_queue_size
        /\ spc' = spc /\ scall' = scall /\ used' = used /\ accepted' = accepted
        /\ normal_in' = normal_in /\ done' = done
    BY DEF WorkerTake
  <2>4. TypeOK
    BY DEF IInv
  <2> QED
    BY ONLY <1>2, <2>1, <2>2, <2>3, <2>4 DEF TypeOK
<1>5. HeldItems' /\ NotYetUsed' /\ Births'
  BY <1>1, <1>2 DEF WorkerTake, IInv, TypeOK, HeldItems, NotYetUsed, Births
<1>6. Cardinality(Active') = Cardinality(Active) + 1
  <2>1. wpc' = [wpc EXCEPT ![w] = "exec"] /\ wpc[w] \notin Busy
    BY DEF WorkerTake, Busy
  <2>2. "exec" \in PCs /\ "exec" \in Busy
    BY DEF PCs, Busy
  <2>3. Cardinality(At(wpc', Busy)) = Cardinality(At(wpc, Busy)) + 1
    BY <1>1, <2>1, <2>2, MoveIn
  <2> QED
    BY <2>3, ActiveIsAt
<1>7. CountersMatch'
  BY <1>1, <1>2, <1>6 DEF WorkerTake, CountersMatch
<1> QED
  BY <1>4, <1>5, <1>7 DEF IInv

(* A worker runs its item, or comes back for the mutex afterwards.         *)
LEMMA WorkerRunsIInv ==
    ASSUME IInv, NEW w \in Workers, WorkerExecute(w) \/ WorkerFinish(w)
    PROVE  IInv'
<1>1. wpc \in [Workers -> PCs] /\ active_threads = Cardinality(Active)
  BY DEF IInv, TypeOK, CountersMatch, PCs
<1>2. CASE WorkerExecute(w)
  <2> USE <1>2 DEF WorkerExecute
  <2>1. TypeOK'
    BY DEF IInv, TypeOK, HeldItems
  <2>2. HeldItems' /\ NotYetUsed' /\ Births'
    BY DEF IInv, TypeOK, HeldItems, NotYetUsed, Births
  <2>3. Active' = Active
    <3>1. wpc' = [wpc EXCEPT ![w] = "after"] /\ wpc[w] \in Busy
      BY <1>2 DEF WorkerExecute, Busy
    <3>2. "after" \in PCs /\ "after" \in Busy
      BY DEF PCs, Busy
    <3>3. At(wpc', Busy) = At(wpc, Busy)
      BY ONLY <1>1, <3>1, <3>2, MoveBeside
    <3> QED
      BY ONLY <3>3, ActiveIsAt
  <2>4. CountersMatch'
    BY <2>3 DEF IInv, CountersMatch
  <2> QED
    BY <2>1, <2>2, <2>4 DEF IInv
<1>3. CASE WorkerFinish(w)
  <2>1. Cardinality(Active') = Cardinality(Active) - 1
    <3>1. wpc' = [wpc EXCEPT ![w] = "top"] /\ wpc[w] \in Busy
      BY <1>3 DEF WorkerFinish, Busy
    <3>2. "top" \in PCs /\ "top" \notin Busy
      BY DEF PCs, Busy
    <3>3. Cardinality(At(wpc', Busy)) = Cardinality(At(wpc, Busy)) - 1
      BY <1>1, <3>1, <3>2, MoveOut
    <3> QED
      BY <3>3, ActiveIsAt
  <2>2. Cardinality(Active') \in Nat
    BY AtFinite, ActiveIsAt
  <2>3. /\ spc' \in [Submitters -> {"idle", "enter", "wait"}]
        /\ \A s \in Submitters : spc'[s] # "idle" => spc[s] # "idle"
    BY <1>3 DEF WorkerFinish, SignalQueueNotFull, IInv, TypeOK
  <2>4. TypeOK'
    BY <1>1, <1>3, <2>1, <2>2, <2>3 DEF WorkerFinish, IInv, TypeOK
  <2>5. HeldItems' /\ NotYetUsed' /\ Births'
    BY <1>3, <2>3 DEF WorkerFinish, IInv, TypeOK, HeldItems, NotYetUsed, Births
  <2>6. CountersMatch'
    BY <1>1, <1>3, <2>1 DEF WorkerFinish, IInv, CountersMatch
  <2> QED
    BY <2>4, <2>5, <2>6 DEF IInv
<1> QED
  BY <1>2, <1>3

(* A submitter calls, blocks, wakes or gives up.                           *)
LEMMA SubmitterMovesIInv ==
    ASSUME IInv, NEW s \in Submitters,
           \/ SubmitWait(s) \/ SubmitFail(s) \/ SpuriousWakeSubmitter(s)
           \/ \E i \in Items, k \in Kinds : SubmitCall(s, i, k)
    PROVE  IInv'
<1>1. CASE SubmitWait(s) \/ SpuriousWakeSubmitter(s)
  BY <1>1 DEF SubmitWait, SpuriousWakeSubmitter, IInv, TypeOK, HeldItems, NotYetUsed, Births,
              CountersMatch, Active
<1>2. CASE SubmitFail(s)
  <2>1. NoCall \in Calls
    BY DEF Calls
  <2> QED
    BY <1>2, <2>1 DEF SubmitFail, IInv, TypeOK, HeldItems, NotYetUsed, Births, CountersMatch, Active
<1>3. CASE \E i \in Items, k \in Kinds : SubmitCall(s, i, k)
  <2>1. PICK i \in Items, k \in Kinds : SubmitCall(s, i, k)
    BY <1>3
  <2>2. [item |-> i, kind |-> k] \in [item : Items, kind : Kinds]
    OBVIOUS
  <2>3. /\ spc' \in [Submitters -> {"idle", "enter", "wait"}]
        /\ scall' \in [Submitters -> Calls]
    <3>1. [item |-> i, kind |-> k] \in Calls
      BY <2>2 DEF Calls
    <3> QED
      BY <2>1, <3>1, ZenonT(60) DEF SubmitCall, IInv, TypeOK
  <2>4. TypeOK'
    BY <2>1, <2>3 DEF SubmitCall, IInv, TypeOK
  <2>5. HeldItems' /\ NotYetUsed' /\ Births'
    BY <2>1, <2>2, <2>3 DEF SubmitCall, IInv, TypeOK, HeldItems, NotYetUsed, Births
  <2>6. CountersMatch'
    BY <2>1 DEF SubmitCall, IInv, CountersMatch, Active
  <2> QED
    BY <2>4, <2>5, <2>6 DEF IInv
<1> QED
  BY <1>1, <1>2, <1>3

(* What a signal on work_available can do to the workers.                  *)
LEMMA SignalWakes ==
    ASSUME TypeOK, SignalWorkAvailable
    PROVE  \/ Asleep = {} /\ wpc' = wpc
           \/ \E w \in Workers : wpc[w] = "wait" /\ wpc' = [wpc EXCEPT ![w] = "top"]
  BY DEF SignalWorkAvailable, Asleep

(* A submitter queues its item.                                            *)
LEMMA SubmitEnqueueIInv ==
    ASSUME IInv, NEW s \in Submitters, SubmitEnqueue(s)
    PROVE  IInv'
<1>1. /\ wpc \in [Workers -> PCs] /\ work_queue \in Seq(Items)
      /\ priority_queue \in Seq(Items) /\ normal_in \in Seq(Items)
      /\ queued_work \in Nat
      /\ queued_work = Len(work_queue) + Len(priority_queue)
      /\ Len(work_queue) \in Nat /\ Len(priority_queue) \in Nat
  BY LenProperties DEF IInv, TypeOK, CountersMatch, SubmitEnqueue, PCs
<1>2. scall[s].item \in Items
  BY DEF IInv, HeldItems, SubmitEnqueue
<1>3. /\ work_queue' \in Seq(Items) /\ priority_queue' \in Seq(Items)
      /\ normal_in' \in Seq(Items)
      /\ Len(work_queue') + Len(priority_queue') = queued_work + 1
  <2> DEFINE i == scall[s].item
  <2>1. /\ Append(work_queue, i) \in Seq(Items) /\ Append(normal_in, i) \in Seq(Items)
        /\ Len(Append(work_queue, i)) = Len(work_queue) + 1
    BY <1>1, <1>2, AppendProperties
  <2>2. <<i>> \in Seq(Items) /\ Len(<<i>>) = 1
    BY <1>2
  <2>3. /\ <<i>> \o priority_queue \in Seq(Items)
        /\ Len(<<i>> \o priority_queue) = 1 + Len(priority_queue)
    BY <1>1, <2>2, ConcatProperties
  <2>4. CASE /\ work_queue' = Append(work_queue, i) /\ normal_in' = Append(normal_in, i)
             /\ priority_queue' = priority_queue
    BY <1>1, <2>1, <2>4
  <2>5. CASE /\ priority_queue' = <<i>> \o priority_queue
             /\ work_queue' = work_queue /\ normal_in' = normal_in
    BY <1>1, <2>3, <2>5
  <2> QED
    BY <2>4, <2>5 DEF SubmitEnqueue, Enqueue
<1>4. /\ wpc' \in [Workers -> PCs] /\ Active' = Active
      /\ \A w \in Workers : wpc'[w] = "exec" => wpc[w] = "exec"
      /\ \A w \in Workers : wpc'[w] = "unborn" <=> wpc[w] = "unborn"
  <2>1. TypeOK /\ SignalWorkAvailable
    BY DEF IInv, SubmitEnqueue
  <2> QED
    BY <1>1, <2>1, SignalWakes DEF PCs, Active
<1>5. NoCall \in Calls
  BY DEF Calls
<1>6. TypeOK'
  BY <1>1, <1>2, <1>3, <1>4, <1>5 DEF SubmitEnqueue, IInv, TypeOK, PCs
<1>7. HeldItems' /\ NotYetUsed' /\ Births'
  <2>1. /\ spc' = [spc EXCEPT ![s] = "idle"] /\ scall' = [scall EXCEPT ![s] = NoCall]
        /\ witem' = witem /\ created' = created /\ pool = "live" /\ pool' = "live"
    BY DEF SubmitEnqueue
  <2>2. HeldItems'
    BY <1>4, <2>1 DEF IInv, TypeOK, HeldItems
  <2>3. NotYetUsed'
    BY <2>1 DEF NotYetUsed
  <2>4. Births'
    BY <1>4, <2>1 DEF IInv, Births
  <2> QED
    BY <2>2, <2>3, <2>4
<1>8. CountersMatch'
  BY <1>3, <1>4 DEF SubmitEnqueue, IInv, CountersMatch
<1> QED
  BY <1>6, <1>7, <1>8 DEF IInv

(* The module life cycle.                                                  *)
LEMMA LifeCycleIInv ==
    ASSUME IInv,
           \/ ModuleInit \/ StartThread \/ StartThreadFails \/ StartReturns
           \/ \E c \in Configs : SetConfig(c)
           \/ StopBegin \/ StopJoined \/ Cleanup
    PROVE  IInv'
<1> USE DEF IInv, TypeOK, HeldItems, NotYetUsed, Births, CountersMatch, Active
<1>1. CASE ModuleInit
  BY <1>1 DEF ModuleInit
<1>2. CASE StartThread
  <2>1. created + 1 \in Workers /\ created + 1 \in 0..MaxThreads
    BY <1>2, Constants DEF StartThread, Workers
  <2>2. wpc[created + 1] = "unborn"
    BY <2>1 DEF Workers
  <2>3. wpc' = [wpc EXCEPT ![created + 1] = "top"] /\ created' = created + 1
    BY <1>2 DEF StartThread
  <2>4. Births'
    BY <2>1, <2>2, <2>3 DEF Workers
  <2>5. Active' = Active
    BY <2>1, <2>2, <2>3
  <2> QED
    BY <1>2, <2>1, <2>4, <2>5 DEF StartThread
<1>3. CASE StartThreadFails \/ StartReturns \/ StopJoined
  BY <1>3 DEF StartThreadFails, StartReturns, StopJoined
<1>4. CASE \E c \in Configs : SetConfig(c)
  BY <1>4, Constants DEF SetConfig
<1>5. CASE StopBegin
  BY <1>5 DEF StopBegin
<1>6. CASE Cleanup
  BY <1>6 DEF Cleanup
<1> QED
  BY <1>1, <1>2, <1>3, <1>4, <1>5, <1>6

(* Every step of a worker, a submitter or the main thread preserves the    *)
(* inductive invariant.                                                    *)
LEMMA StepIInv == IInv /\ [Next]_vars => IInv'
<1> SUFFICES ASSUME IInv, [Next]_vars PROVE IInv'
  OBVIOUS
<1>1. CASE \E w \in Workers : WorkerStep(w) \/ SpuriousWakeWorker(w)
  BY <1>1, WorkerMovesIInv, WorkerTakeIInv, WorkerRunsIInv DEF WorkerStep
<1>2. CASE \E s \in Submitters : \/ SubmitStep(s) \/ SpuriousWakeSubmitter(s)
                                 \/ \E i \in Items, k \in Kinds : SubmitCall(s, i, k)
  BY <1>2, SubmitterMovesIInv, SubmitEnqueueIInv DEF SubmitStep
<1>3. CASE \/ ModuleInit \/ StartThread \/ StartThreadFails \/ StartReturns
           \/ \E c \in Configs : SetConfig(c)
           \/ StopBegin \/ StopJoined \/ Cleanup
  BY <1>3, LifeCycleIInv
<1>4. CASE UNCHANGED vars
  BY <1>4 DEF vars, IInv, TypeOK, HeldItems, NotYetUsed, Births, CountersMatch, Active
<1> QED
  BY <1>1, <1>2, <1>3, <1>4 DEF Next

(* The inductive invariant holds in every reachable state.                 *)
LEMMA Inductive == Spec => []IInv
  BY InitIInv, StepIInv, PTL DEF Spec

(* Types: in every reachable state of the pool the queues hold items and   *)
(* the counters of threadpool_private_data_t are natural numbers.          *)
THEOREM TypeCorrect == Spec => []TypeOK
<1>1. IInv => TypeOK
  BY DEF IInv
<1> QED
  BY <1>1, Inductive, PTL

(* queued_work and active_threads always describe the queues and the       *)
(* workers, with any number of workers and submitters.                     *)
THEOREM CountersCorrect == Spec => []CountersMatch
<1>1. IInv => CountersMatch
  BY DEF IInv
<1> QED
  BY <1>1, Inductive, PTL

-----------------------------------------------------------------------------
(***************************************************************************)
(* First in, first out.  Cleanup empties the queue, so the invariant is    *)
(* about a pool that has not been freed.                                   *)
(***************************************************************************)

FifoInv == pool # "freed" => normal_in = normal_out \o work_queue

(* Moving the head of q to the end of p leaves p \o q as it is.            *)
LEMMA HeadMoves ==
    ASSUME NEW p \in Seq(Items), NEW q \in Seq(Items), q # <<>>
    PROVE  Append(p, Head(q)) \o Tail(q) = p \o q
<1>1. Head(q) \in Items /\ Tail(q) \in Seq(Items)
  BY HeadTailProperties
<1>2. <<Head(q)>> \in Seq(Items) /\ Append(p, Head(q)) = p \o <<Head(q)>>
  BY <1>1, AppendIsConcat
<1>3. (p \o <<Head(q)>>) \o Tail(q) = p \o (<<Head(q)>> \o Tail(q))
  BY <1>1, <1>2, ConcatAssociative
<1>4. <<Head(q)>> \o Tail(q) = q
  <2>1. Len(<<Head(q)>>) = 1 /\ Len(q) \in Nat /\ Len(Tail(q)) = Len(q) - 1
    BY HeadTailProperties, LenProperties
  <2>2. /\ <<Head(q)>> \o Tail(q) \in Seq(Items)
        /\ Len(<<Head(q)>> \o Tail(q)) = Len(q)
        /\ \A i \in 1..Len(q) : (<<Head(q)>> \o Tail(q))[i] =
                IF i <= 1 THEN <<Head(q)>>[i] ELSE Tail(q)[i - 1]
    BY <1>1, <1>2, <2>1, ConcatProperties
  <2>3. \A i \in 1..Len(q) : (<<Head(q)>> \o Tail(q))[i] = q[i]
    BY <2>1, <2>2, HeadTailProperties
  <2> QED
    BY <2>2, <2>3, SeqEqual
<1> QED
  BY <1>2, <1>3, <1>4

(* Appending to both sides.                                                *)
LEMMA AppendMoves ==
    ASSUME NEW p \in Seq(Items), NEW q \in Seq(Items), NEW i \in Items
    PROVE  p \o Append(q, i) = Append(p \o q, i)
<1>1. <<i>> \in Seq(Items) /\ p \o q \in Seq(Items)
  BY ConcatProperties
<1>2. Append(q, i) = q \o <<i>> /\ Append(p \o q, i) = (p \o q) \o <<i>>
  BY <1>1, AppendIsConcat
<1> QED
  BY <1>1, <1>2, ConcatAssociative

(* Only a submission and worker_thread change the normal queue, one at each*)
(* of its ends.                                                            *)
LEMMA StepFifo == IInv /\ FifoInv /\ [Next]_vars => FifoInv'
<1> SUFFICES ASSUME IInv, FifoInv, [Next]_vars PROVE FifoInv'
  OBVIOUS
<1>1. CASE \E w \in Workers : WorkerTake(w)
  <2>1. PICK w \in Workers : WorkerTake(w)
    BY <1>1
  <2>2. /\ normal_in = normal_out \o work_queue /\ normal_in' = normal_in
        /\ normal_out \in Seq(Items) /\ work_queue \in Seq(Items)
    BY <2>1 DEF WorkerTake, FifoInv, IInv, TypeOK
  <2>3. CASE priority_queue # <<>>
    BY <2>1, <2>2, <2>3 DEF WorkerTake, TakeItem, FifoInv
  <2>4. CASE priority_queue = <<>>
    <3>1. /\ work_queue # <<>> /\ work_queue' = Tail(work_queue)
          /\ normal_out' = Append(normal_out, Head(work_queue))
      BY <2>1, <2>4 DEF WorkerTake, TakeItem
    <3> QED
      BY <2>2, <3>1, HeadMoves DEF FifoInv
  <2> QED
    BY <2>3, <2>4
<1>2. CASE \E s \in Submitters : SubmitEnqueue(s)
  <2>1. PICK s \in Submitters : SubmitEnqueue(s)
    BY <1>2
  <2>2. /\ normal_in = normal_out \o work_queue /\ normal_out' = normal_out
        /\ normal_out \in Seq(Items) /\ work_queue \in Seq(Items)
        /\ scall[s].item \in Items
    BY <2>1 DEF SubmitEnqueue, FifoInv, IInv, TypeOK, HeldItems
  <2>3. CASE scall[s].kind = "priority"
    BY <2>1, <2>2, <2>3 DEF SubmitEnqueue, Enqueue, FifoInv
  <2>4. CASE scall[s].kind # "priority"
    <3>1. /\ work_queue' = Append(work_queue, scall[s].item)
          /\ normal_in' = Append(normal_in, scall[s].item)
      BY <2>1, <2>4 DEF SubmitEnqueue, Enqueue
    <3> QED
      BY <2>2, <3>1, AppendMoves DEF FifoInv
  <2> QED
    BY <2>3, <2>4
<1>3. CASE Cleanup
  BY <1>3 DEF Cleanup, FifoInv
<1>4. CASE \E w \in Workers : \/ WorkerWait(w) \/ WorkerExit(w) \/ WorkerExecute(w)
                              \/ WorkerFinish(w) \/ SpuriousWakeWorker(w)
  BY <1>4 DEF WorkerWait, WorkerExit, WorkerExecute, WorkerFinish, SpuriousWakeWorker, FifoInv
<1>5. CASE \E s \in Submitters : \/ SubmitWait(s) \/ SubmitFail(s) \/ SpuriousWakeSubmitter(s)
                                 \/ \E i \in Items, k \in Kinds : SubmitCall(s, i, k)
  BY <1>5 DEF SubmitWait, SubmitFail, SpuriousWakeSubmitter, SubmitCall, FifoInv
<1>6. CASE \/ ModuleInit \/ StartThread \/ StartThreadFails \/ StartReturns
           \/ \E c \in Configs : SetConfig(c)
           \/ StopBegin \/ StopJoined
  BY <1>6 DEF ModuleInit, StartThread, StartThreadFails, StartReturns, SetConfig,
              StopBegin, StopJoined, FifoInv
<1>7. CASE UNCHANGED vars
  BY <1>7 DEF vars, FifoInv
<1> QED
  BY <1>1, <1>2, <1>3, <1>4, <1>5, <1>6, <1>7 DEF Next, WorkerStep, SubmitStep

(* Normal work is taken by the workers in the order in which               *)
(* threadpool_submit_work accepted it, with any number of workers and      *)
(* submitters and whatever priority work is mixed in.                      *)
THEOREM FifoCorrect == Spec => []FifoOrder
<1>1. Init => FifoInv
  BY DEF Init, FifoInv
<1>2. FifoInv => FifoOrder
  BY DEF FifoInv, FifoOrder
<1> QED
  BY <1>1, <1>2, Inductive, StepFifo, PTL DEF Spec

-----------------------------------------------------------------------------
(***************************************************************************)
(* No lost wakeup on work_available.                                       *)
(***************************************************************************)

(* A submission adds an item and wakes a worker, a worker that takes one   *)
(* leaves the top of its loop, and a worker that falls asleep has seen both*)
(* queues empty.                                                           *)
LEMMA StepWakeup == IInv /\ NoLostWakeup /\ [Next]_vars => NoLostWakeup'
<1> SUFFICES ASSUME IInv, NoLostWakeup, [Next]_vars PROVE NoLostWakeup'
  OBVIOUS
<1>0. /\ wpc \in [Workers -> PCs] /\ queued_work \in Nat
      /\ Cardinality(AtTop) \in Nat /\ Cardinality(AtTop') \in Nat
      /\ "top" \in PCs /\ "exec" \in PCs
      /\ "wait" \in PCs \ {"top"} /\ "unborn" \in PCs \ {"top"} /\ "unborn" # "wait"
  BY AtFinite, AtTopIsAt DEF IInv, TypeOK, PCs
<1>1. ASSUME NEW w \in Workers, WorkerWait(w) PROVE NoLostWakeup'
  <2>1. queued_work' = 0 /\ ~shutdown /\ shutdown' = shutdown
    BY <1>1 DEF WorkerWait, IInv, CountersMatch
  <2> QED
    BY <1>0, <2>1 DEF NoLostWakeup
<1>2. ASSUME NEW w \in Workers, WorkerExit(w) PROVE NoLostWakeup'
  <2>1. Asleep' = Asleep /\ shutdown /\ shutdown'
    BY <1>0, <1>2 DEF WorkerExit, Asleep
  <2> QED
    BY <2>1 DEF NoLostWakeup
<1>3. ASSUME NEW w \in Workers, wpc[w] \in PCs \ {"top"}, wpc' = [wpc EXCEPT ![w] = "top"],
             wpc[w] # "wait" => queued_work' <= queued_work,
             wpc[w] = "wait" => queued_work' <= queued_work + 1,
             queued_work' \in Nat, shutdown' = shutdown
      PROVE  NoLostWakeup'
  <2>1. Cardinality(At(wpc', {"top"})) = Cardinality(At(wpc, {"top"})) + 1
    BY <1>0, <1>3, MoveIn, ZenonT(60)
  <2>2. Cardinality(AtTop') = Cardinality(AtTop) + 1
    BY <2>1, AtTopIsAt
  <2>3. Asleep' \subseteq Asleep /\ (wpc[w] = "wait" => Asleep # {})
    BY <1>0, <1>3 DEF Asleep
  <2> QED
    BY <1>0, <1>3, <2>2, <2>3 DEF NoLostWakeup
<1>4. ASSUME NEW w \in Workers, WorkerTake(w) PROVE NoLostWakeup'
  <2>1. /\ wpc[w] = "top" /\ wpc' = [wpc EXCEPT ![w] = "exec"]
        /\ queued_work' = queued_work - 1 /\ ~shutdown /\ shutdown' = shutdown
    BY <1>4 DEF WorkerTake
  <2>2. Cardinality(At(wpc', {"top"})) = Cardinality(At(wpc, {"top"})) - 1
    BY <1>0, <2>1, MoveOut, ZenonT(60)
  <2>3. Cardinality(AtTop') = Cardinality(AtTop) - 1
    BY <2>2, AtTopIsAt
  <2>4. Asleep' = Asleep
    BY <1>0, <2>1 DEF Asleep
  <2> QED
    BY <1>0, <2>1, <2>3, <2>4 DEF NoLostWakeup
<1>5. ASSUME NEW w \in Workers, WorkerExecute(w) PROVE NoLostWakeup'
  <2>1. AtTop' = AtTop /\ Asleep' = Asleep
    BY <1>0, <1>5 DEF WorkerExecute, AtTop, Asleep
  <2> QED
    BY <1>5, <2>1 DEF WorkerExecute, NoLostWakeup
<1>6. ASSUME NEW w \in Workers, WorkerFinish(w) \/ SpuriousWakeWorker(w) PROVE NoLostWakeup'
  BY <1>0, <1>3, <1>6 DEF WorkerFinish, SpuriousWakeWorker
<1>7. ASSUME NEW s \in Submitters, SubmitEnqueue(s) PROVE NoLostWakeup'
  <2>1. SignalWorkAvailable /\ TypeOK /\ queued_work' = queued_work + 1 /\ shutdown' = shutdown
    BY <1>7 DEF SubmitEnqueue, IInv
  <2>2. CASE Asleep = {} /\ wpc' = wpc
    BY <2>1, <2>2 DEF Asleep, NoLostWakeup
  <2>3. ASSUME NEW w \in Workers, wpc[w] = "wait", wpc' = [wpc EXCEPT ![w] = "top"]
        PROVE  NoLostWakeup'
    <3>1. wpc[w] \in PCs \ {"top"} /\ queued_work' \in Nat /\ queued_work' <= queued_work + 1
      BY <1>0, <2>1, <2>3
    <3> QED
      BY <1>3, <2>1, <2>3, <3>1
  <2> QED
    BY <2>1, <2>2, <2>3, SignalWakes
<1>8. CASE StartThread
  <2>1. created + 1 \in Workers
    BY <1>8, Constants DEF StartThread, IInv, TypeOK, Workers
  <2>2. wpc[created + 1] = "unborn"
    BY <2>1 DEF IInv, TypeOK, Births, Workers
  <2>3. /\ wpc' = [wpc EXCEPT ![created + 1] = "top"]
        /\ queued_work' = queued_work /\ shutdown' = shutdown
    BY <1>8 DEF StartThread
  <2> QED
    <3>1. /\ wpc[created + 1] \in PCs \ {"top"} /\ wpc[created + 1] # "wait"
          /\ queued_work' \in Nat /\ queued_work' <= queued_work
      BY <1>0, <2>2, <2>3
    <3> QED
      BY <1>3, <2>1, <2>3, <3>1
<1>9. CASE StopBegin
  BY <1>0, <1>9 DEF StopBegin, NoLostWakeup, Asleep
<1>10. CASE UNCHANGED <<wpc, queued_work, shutdown>>
  BY <1>10 DEF NoLostWakeup, Asleep, AtTop
<1>11. ASSUME NEW s \in Submitters,
              \/ SubmitWait(s) \/ SubmitFail(s) \/ SpuriousWakeSubmitter(s)
              \/ \E i \in Items, k \in Kinds : SubmitCall(s, i, k)
       PROVE NoLostWakeup'
  BY <1>10, <1>11 DEF SubmitWait, SubmitFail, SpuriousWakeSubmitter, SubmitCall
<1>12. CASE \/ ModuleInit \/ StartThreadFails \/ StartReturns
            \/ \E c \in Configs : SetConfig(c)
            \/ StopJoined \/ Cleanup \/ UNCHANGED vars
  BY <1>10, <1>12 DEF ModuleInit, StartThreadFails, StartReturns, SetConfig, StopJoined,
                      Cleanup, vars
<1> QED
  BY <1>1, <1>2, <1>4, <1>5, <1>6, <1>7, <1>8, <1>9, <1>11, <1>12
     DEF Next, WorkerStep, SubmitStep

(* While a worker sleeps on work_available every queued item has a worker  *)
(* on its way to it, and after shutdown no worker sleeps, whatever the     *)
(* number of workers and submitters.                                       *)
THEOREM WakeupCorrect == Spec => []NoLostWakeup
<1>1. Init => NoLostWakeup
  BY DEF Init, NoLostWakeup, Asleep
<1> QED
  BY <1>1, Inductive, StepWakeup, PTL DEF Spec

-----------------------------------------------------------------------------
(***************************************************************************)
(* No lost wakeup on queue_not_full, when create_work_item finds memory.   *)
(***************************************************************************)

(* A worker that takes the last item becomes active; the one that leaves the*)
(* active workers signals queue_not_full.                                  *)
LEMMA StepWaker ==
    ASSUME ~AllocMayFail
    PROVE  IInv /\ SubmitterHasWaker /\ [Next]_vars => SubmitterHasWaker'
<1> SUFFICES ASSUME IInv, SubmitterHasWaker, [Next]_vars PROVE SubmitterHasWaker'
  OBVIOUS
<1>0. /\ queued_work \in Nat /\ active_threads \in Nat /\ max_queue_size \in Nat \ {0}
      /\ spc \in [Submitters -> {"idle", "enter", "wait"}]
  BY DEF IInv, TypeOK
<1>1. ASSUME NEW w \in Workers, WorkerTake(w) PROVE SubmitterHasWaker'
  BY <1>0, <1>1 DEF WorkerTake, SubmitterHasWaker
<1>2. ASSUME NEW w \in Workers, WorkerFinish(w) PROVE SubmitterHasWaker'
  BY <1>0, <1>2 DEF WorkerFinish, SignalQueueNotFull, SubmitterHasWaker
<1>3. ASSUME NEW s \in Submitters, SubmitWait(s) PROVE SubmitterHasWaker'
  BY <1>0, <1>3 DEF SubmitWait, QueueFull, SubmitterHasWaker
<1>4. ASSUME NEW s \in Submitters, SubmitFail(s) PROVE SubmitterHasWaker'
  BY <1>4 DEF SubmitFail, SubmitterHasWaker
<1>5. ASSUME NEW s \in Submitters, SubmitEnqueue(s) PROVE SubmitterHasWaker'
  BY <1>0, <1>5 DEF SubmitEnqueue, SubmitterHasWaker
<1>6. ASSUME NEW s \in Submitters, SpuriousWakeSubmitter(s) PROVE SubmitterHasWaker'
  BY <1>0, <1>6 DEF SpuriousWakeSubmitter, SubmitterHasWaker
<1>7. ASSUME NEW s \in Submitters, NEW i \in Items, NEW k \in Kinds, SubmitCall(s, i, k)
      PROVE SubmitterHasWaker'
  BY <1>0, <1>7 DEF SubmitCall, SubmitterHasWaker
<1>8. CASE StopBegin
  BY <1>8 DEF StopBegin, SubmitterHasWaker
<1>9. CASE UNCHANGED <<spc, queued_work, active_threads, shutdown>>
  BY <1>9 DEF SubmitterHasWaker
<1>10. ASSUME NEW w \in Workers,
              WorkerWait(w) \/ WorkerExit(w) \/ WorkerExecute(w) \/ SpuriousWakeWorker(w)
       PROVE SubmitterHasWaker'
  BY <1>9, <1>10 DEF WorkerWait, WorkerExit, WorkerExecute, SpuriousWakeWorker
<1>11. CASE \/ ModuleInit \/ StartThread \/ StartThreadFails \/ StartReturns
            \/ \E c \in Configs : SetConfig(c)
            \/ StopJoined \/ Cleanup \/ UNCHANGED vars
  BY <1>9, <1>11 DEF ModuleInit, StartThread, StartThreadFails, StartReturns, SetConfig,
                     StopJoined, Cleanup, vars
<1> QED
  BY <1>1, <1>2, <1>3, <1>4, <1>5, <1>6, <1>7, <1>8, <1>10, <1>11
     DEF Next, WorkerStep, SubmitStep

(* If malloc never fails, a submitter that sleeps on queue_not_full is     *)
(* never the only thing left: work is queued, a worker is busy or another  *)
(* submitter is about to run.                                              *)
THEOREM WakerCorrect ==
    ASSUME ~AllocMayFail
    PROVE  Spec => []SubmitterHasWaker
<1>1. Init => SubmitterHasWaker
  BY DEF Init, SubmitterHasWaker
<1>2. IInv /\ SubmitterHasWaker /\ [Next]_vars => SubmitterHasWaker'
  BY StepWaker
<1> QED
  BY <1>1, <1>2, Inductive, PTL DEF Spec

-----------------------------------------------------------------------------
(***************************************************************************)
(* The pool outlives its workers, when every uv_thread_create succeeds and *)
(* no configuration changes the number of threads.                         *)
(***************************************************************************)

LifeInv ==
    /\ thread_count = ThreadCount
    /\ pool = "null" => state \in {"UNINITIALIZED", "ERROR"} /\ created = 0
    /\ pool = "live" => state \in {"INITIALIZED", "STARTED", "STOPPING", "STOPPED"}
    /\ pool = "freed" => state = "UNINITIALIZED" /\ WorkersGoneBeforeFree
    /\ created <= ThreadCount
    /\ state \in {"STARTED", "STOPPING", "STOPPED"} => created = thread_count
    /\ state = "STOPPED" => \A w \in 1..thread_count : wpc[w] = "exited"

(* start creates workers one by one, stop ends when all have exited, and   *)
(* only then does cleanup free the pool.                                   *)
LEMMA StepLife ==
    ASSUME ~CreateMayFail, \A c \in Configs : c.thread_count = ThreadCount
    PROVE  IInv /\ LifeInv /\ [Next]_vars => LifeInv'
<1> SUFFICES ASSUME IInv, LifeInv, [Next]_vars PROVE LifeInv'
  OBVIOUS
<1>0. /\ wpc \in [Workers -> PCs] /\ created \in Nat /\ ThreadCount \in Nat
      /\ 1..thread_count \subseteq Workers
  BY Constants DEF IInv, LifeInv, TypeOK, PCs, Workers
<1>1. ASSUME NEW w \in Workers,
             wpc' = wpc \/ \E x \in PCs : wpc' = [wpc EXCEPT ![w] = x],
             wpc[w] # "exited", wpc[w] # "unborn",
             UNCHANGED <<pool, state, created, thread_count>>
      PROVE  LifeInv'
  <2>1. state # "STOPPED"
    <3>1. SUFFICES ASSUME state = "STOPPED" PROVE FALSE
      OBVIOUS
    <3>2. w \in 1..thread_count
      BY <1>0, <1>1, <3>1 DEF LifeInv, IInv, Births, Workers
    <3> QED
      BY <1>1, <3>1, <3>2 DEF LifeInv
  <2>2. pool # "freed"
    BY <1>1 DEF LifeInv, WorkersGoneBeforeFree
  <2> QED
    BY <1>1, <2>1, <2>2 DEF LifeInv
<1>2. CASE UNCHANGED <<pool, state, created, thread_count, wpc>>
  BY <1>2 DEF LifeInv, WorkersGoneBeforeFree
<1>3. ASSUME NEW w \in Workers, WorkerStep(w) \/ SpuriousWakeWorker(w) PROVE LifeInv'
  <2>1. /\ \E x \in PCs : wpc' = [wpc EXCEPT ![w] = x]
        /\ wpc[w] # "exited" /\ wpc[w] # "unborn"
        /\ UNCHANGED <<pool, state, created, thread_count>>
    BY <1>3 DEF WorkerStep, WorkerWait, WorkerExit, WorkerTake, WorkerExecute, WorkerFinish,
                SpuriousWakeWorker, PCs
  <2> QED
    BY <1>1, <2>1
<1>4. ASSUME NEW s \in Submitters, SubmitEnqueue(s) PROVE LifeInv'
  <2>1. SignalWorkAvailable /\ TypeOK /\ UNCHANGED <<pool, state, created, thread_count>>
    BY <1>4 DEF SubmitEnqueue, IInv
  <2>2. CASE wpc' = wpc
    BY <1>2, <2>1, <2>2
  <2>3. ASSUME NEW w \in Workers, wpc[w] = "wait", wpc' = [wpc EXCEPT ![w] = "top"]
        PROVE  LifeInv'
    <3>1. /\ wpc[w] # "exited" /\ wpc[w] # "unborn"
          /\ \E x \in PCs : wpc' = [wpc EXCEPT ![w] = x]
      BY <2>3 DEF PCs
    <3> QED
      BY <1>1, <2>1, <3>1
  <2> QED
    BY <2>1, <2>2, <2>3, SignalWakes
<1>5. ASSUME NEW s \in Submitters,
             \/ SubmitWait(s) \/ SubmitFail(s) \/ SpuriousWakeSubmitter(s)
             \/ \E i \in Items, k \in Kinds : SubmitCall(s, i, k)
      PROVE LifeInv'
  BY <1>2, <1>5 DEF SubmitWait, SubmitFail, SpuriousWakeSubmitter, SubmitCall
<1>6. CASE ModuleInit
  BY <1>6 DEF ModuleInit, LifeInv
<1>7. CASE StartThread
  BY <1>0, <1>7 DEF StartThread, LifeInv
<1>8. CASE StartThreadFails
  BY <1>8 DEF StartThreadFails
<1>9. CASE StartReturns
  BY <1>0, <1>9 DEF StartReturns, LifeInv
<1>10. CASE \E c \in Configs : SetConfig(c)
  BY <1>10 DEF SetConfig, LifeInv, WorkersGoneBeforeFree
<1>11. CASE StopBegin
  BY <1>11 DEF StopBegin, LifeInv
<1>12. CASE StopJoined
  BY <1>12 DEF StopJoined, LifeInv
<1>13. CASE Cleanup
  <2>1. state = "STOPPED"
    BY <1>13 DEF Cleanup, LifeInv
  <2>2. \A w \in Workers : wpc[w] \in {"unborn", "exited"}
    BY <1>0, <2>1 DEF LifeInv, IInv, Births, Workers
  <2> QED
    BY <1>13, <2>1, <2>2 DEF Cleanup, LifeInv, WorkersGoneBeforeFree
<1>14. CASE UNCHANGED vars
  BY <1>2, <1>14 DEF vars
<1> QED
  BY <1>3, <1>4, <1>5, <1>6, <1>7, <1>8, <1>9, <1>10, <1>11, <1>12, <1>13, <1>14
     DEF Next, SubmitStep

(* threadpool_module_cleanup frees the pool only when every worker has     *)
(* left worker_thread, and stop joins exactly the threads it started: true *)
(* if thread creation succeeds and the configured number of threads is the *)
(* default one, for which threads[] was allocated.                         *)
THEOREM LifetimeCorrect ==
    ASSUME ~CreateMayFail, \A c \in Configs : c.thread_count = ThreadCount
    PROVE  Spec => [](WorkersGoneBeforeFree /\ HandlesValid)
<1>1. Init => LifeInv
  BY Constants DEF Init, LifeInv
<1>2. IInv /\ LifeInv /\ [Next]_vars => LifeInv'
  BY StepLife
<1>3. LifeInv => WorkersGoneBeforeFree /\ HandlesValid
  BY DEF LifeInv, WorkersGoneBeforeFree, HandlesValid
<1> QED
  BY <1>1, <1>2, <1>3, Inductive, PTL DEF Spec
-----------------------------------------------------------------------------
(***************************************************************************)
(* Nothing is lost, duplicated or run twice.  Counting places is the wrong *)
(* form for an induction: PlaceInv says instead that the queues repeat     *)
(* nothing, that the places are disjoint and that together they hold what  *)
(* was accepted; HandInv that what a submitter is still holding is new.    *)
(***************************************************************************)

Distinct(q) == \A m, n \in DOMAIN q : q[m] = q[n] => m = n

PlaceInv ==
    /\ Distinct(work_queue) /\ Distinct(priority_queue)
    /\ Elements(work_queue) \cap Elements(priority_queue) = {}
    /\ PendingItems \cap done = {}
    /\ \A w \in Executing : witem[w] \notin PendingItems \cup done
    /\ \A v, w \in Executing : witem[v] = witem[w] => v = w
    /\ pool # "freed" => accepted = PendingItems \cup RunningItems \cup done

HandInv ==
    /\ accepted \subseteq used
    /\ \A s \in Submitters : spc[s] # "idle" => scall[s].item \in used \ accepted
    /\ \A s, t \in Submitters :
          spc[s] # "idle" /\ spc[t] # "idle" /\ scall[s].item = scall[t].item => s = t

(* Unlinking the head of a list without repetitions.                       *)
LEMMA TailElements ==
    ASSUME NEW q \in Seq(Items), q # <<>>, Distinct(q)
    PROVE  /\ Distinct(Tail(q)) /\ Head(q) \in Elements(q)
           /\ Elements(Tail(q)) = Elements(q) \ {Head(q)}
<1>1. /\ Len(q) \in Nat /\ Len(q) >= 1 /\ DOMAIN q = 1..Len(q) /\ Head(q) = q[1]
      /\ Tail(q) \in Seq(Items) /\ Len(Tail(q)) = Len(q) - 1
      /\ \A n \in 1..Len(Tail(q)) : Tail(q)[n] = q[n + 1]
      /\ DOMAIN Tail(q) = 1..Len(Tail(q))
  BY HeadTailProperties, LenProperties
<1>2. Distinct(Tail(q))
  BY <1>1 DEF Distinct
<1>3. Head(q) \in Elements(q)
  BY <1>1 DEF Elements
<1>4. \A x : x \in Elements(Tail(q)) => x \in Elements(q) \ {Head(q)}
  <2> SUFFICES ASSUME NEW n \in 1..Len(Tail(q)) PROVE Tail(q)[n] \in Elements(q) \ {Head(q)}
    BY <1>1 DEF Elements
  <2>1. n + 1 \in DOMAIN q /\ n + 1 # 1 /\ 1 \in DOMAIN q
    BY <1>1
  <2> QED
    BY <1>1, <2>1 DEF Elements, Distinct
<1>5. \A x : x \in Elements(q) \ {Head(q)} => x \in Elements(Tail(q))
  <2> SUFFICES ASSUME NEW n \in DOMAIN q, q[n] # Head(q) PROVE q[n] \in Elements(Tail(q))
    BY DEF Elements
  <2>1. n - 1 \in 1..Len(Tail(q)) /\ Tail(q)[n - 1] = q[n]
    BY <1>1
  <2> QED
    BY <1>1, <2>1 DEF Elements
<1> QED
  BY <1>2, <1>3, <1>4, <1>5

(* Linking a new element at the tail.                                      *)
LEMMA AppendElements ==
    ASSUME NEW q \in Seq(Items), NEW x \in Items, Distinct(q), x \notin Elements(q)
    PROVE  Distinct(Append(q, x)) /\ Elements(Append(q, x)) = Elements(q) \cup {x}
<1> DEFINE r == Append(q, x)
<1>1. /\ Len(q) \in Nat /\ DOMAIN q = 1..Len(q) /\ DOMAIN r = 1..(Len(q) + 1)
      /\ \A n \in 1..Len(q) : r[n] = q[n]
      /\ r[Len(q) + 1] = x
  BY AppendProperties, LenProperties
<1>2. \A n \in DOMAIN r : n \in DOMAIN q \/ n = Len(q) + 1
  BY <1>1
<1>3. Distinct(r)
  BY <1>1, <1>2 DEF Distinct, Elements
<1>4. \A y : y \in Elements(r) <=> y \in Elements(q) \cup {x}
  <2>1. ASSUME NEW y \in Elements(r) PROVE y \in Elements(q) \cup {x}
    BY <1>1, <1>2, <2>1 DEF Elements
  <2>2. ASSUME NEW y \in Elements(q) PROVE y \in Elements(r)
    <3>1. PICK n \in DOMAIN q : y = q[n]
      BY <2>2 DEF Elements
    <3>2. n \in DOMAIN r /\ r[n] = y
      BY <1>1, <3>1
    <3> QED
      BY <3>2 DEF Elements
  <2>3. x \in Elements(r)
    <3>1. Len(q) + 1 \in DOMAIN r
      BY <1>1
    <3> QED
      BY <1>1, <3>1 DEF Elements
  <2> QED
    BY <2>1, <2>2, <2>3
<1> QED
  BY <1>3, <1>4

(* Linking a new element at the head.                                      *)
LEMMA PrependElements ==
    ASSUME NEW q \in Seq(Items), NEW x \in Items, Distinct(q), x \notin Elements(q)
    PROVE  Distinct(<<x>> \o q) /\ Elements(<<x>> \o q) = Elements(q) \cup {x}
<1> DEFINE r == <<x>> \o q
<1>0. <<x>> \in Seq(Items) /\ Len(<<x>>) = 1 /\ <<x>>[1] = x
  OBVIOUS
<1>1. /\ Len(q) \in Nat /\ DOMAIN q = 1..Len(q) /\ DOMAIN r = 1..(1 + Len(q))
      /\ \A n \in 1..(1 + Len(q)) : r[n] = IF n <= 1 THEN <<x>>[n] ELSE q[n - 1]
  BY <1>0, ConcatProperties, LenProperties
<1>2. /\ r[1] = x /\ 1 \in DOMAIN r
      /\ \A n \in DOMAIN q : n + 1 \in DOMAIN r /\ r[n + 1] = q[n]
      /\ \A n \in DOMAIN r : n = 1 \/ (n - 1 \in DOMAIN q /\ r[n] = q[n - 1])
  BY <1>0, <1>1
<1>3. Distinct(r)
  <2> SUFFICES ASSUME NEW m \in DOMAIN r, NEW n \in DOMAIN r, r[m] = r[n] PROVE m = n
    BY DEF Distinct
  <2>1. CASE m = 1 \/ n = 1
    BY <1>2, <2>1 DEF Elements
  <2>2. CASE m # 1 /\ n # 1
    <3>1. m - 1 \in DOMAIN q /\ n - 1 \in DOMAIN q /\ q[m - 1] = q[n - 1]
      BY <1>2, <2>2
    <3>2. m - 1 = n - 1
      BY <3>1 DEF Distinct
    <3> QED
      BY <1>1, <3>2
  <2> QED
    BY <2>1, <2>2
<1>4. \A y : y \in Elements(r) <=> y \in Elements(q) \cup {x}
  <2>1. ASSUME NEW y \in Elements(r) PROVE y \in Elements(q) \cup {x}
    BY <1>2, <2>1 DEF Elements
  <2>2. ASSUME NEW y \in Elements(q) PROVE y \in Elements(r)
    <3>1. PICK n \in DOMAIN q : y = q[n]
      BY <2>2 DEF Elements
    <3>2. n + 1 \in DOMAIN r /\ r[n + 1] = y
      BY <1>2, <3>1
    <3> QED
      BY <3>2 DEF Elements
  <2>3. x \in Elements(r)
    BY <1>2 DEF Elements
  <2> QED
    BY <2>1, <2>2, <2>3
<1> QED
  BY <1>3, <1>4

(* An element of a list without repetitions is in one place of it.         *)
LEMMA OnePlace ==
    ASSUME NEW q, Distinct(q), NEW i
    PROVE  Cardinality({n \in DOMAIN q : q[n] = i}) = IF i \in Elements(q) THEN 1 ELSE 0
<1>1. CASE i \in Elements(q)
  <2>1. PICK n \in DOMAIN q : q[n] = i
    BY <1>1 DEF Elements
  <2>2. {m \in DOMAIN q : q[m] = i} = {n}
    BY <2>1 DEF Distinct
  <2> QED
    BY <1>1, <2>2, FS_Singleton
<1>2. CASE i \notin Elements(q)
  <2>1. {m \in DOMAIN q : q[m] = i} = {}
    BY <1>2 DEF Elements
  <2> QED
    BY <1>2, <2>1, FS_EmptySet
<1> QED
  BY <1>1, <1>2

(* What worker_thread does when it unlinks an item: it moves one pending   *)
(* item to a worker that had none.                                         *)
LEMMA TakeMoves ==
    ASSUME IInv, PlaceInv, NEW w \in Workers, WorkerTake(w)
    PROVE  /\ Distinct(work_queue') /\ Distinct(priority_queue')
           /\ Elements(work_queue') \cap Elements(priority_queue') = {}
           /\ witem'[w] \in PendingItems /\ witem'[w] \in Items
           /\ PendingItems' = PendingItems \ {witem'[w]}
           /\ \A v \in Workers : v # w => witem'[v] = witem[v]
           /\ Executing' = Executing \cup {w} /\ w \notin Executing
           /\ RunningItems' = RunningItems \cup {witem'[w]}
<1>1. /\ work_queue \in Seq(Items) /\ priority_queue \in Seq(Items)
      /\ witem \in [Workers -> Items \cup {NoItem}]
      /\ Distinct(work_queue) /\ Distinct(priority_queue)
      /\ Elements(work_queue) \cap Elements(priority_queue) = {}
  BY DEF IInv, TypeOK, PlaceInv
<1>2. PendingItems = Elements(work_queue) \cup Elements(priority_queue)
      /\ PendingItems' = Elements(work_queue') \cup Elements(priority_queue')
  BY DEF PendingItems
<1>3. /\ Distinct(work_queue') /\ Distinct(priority_queue')
      /\ Elements(work_queue') \cap Elements(priority_queue') = {}
      /\ witem'[w] \in PendingItems /\ witem'[w] \in Items
      /\ PendingItems' = PendingItems \ {witem'[w]}
      /\ \A v \in Workers : v # w => witem'[v] = witem[v]
  <2>1. CASE priority_queue # <<>>
    <3>1. /\ witem' = [witem EXCEPT ![w] = Head(priority_queue)]
          /\ priority_queue' = Tail(priority_queue) /\ work_queue' = work_queue
      BY <2>1 DEF WorkerTake, TakeItem
    <3>2. /\ Distinct(priority_queue') /\ Head(priority_queue) \in Elements(priority_queue)
          /\ Elements(priority_queue') = Elements(priority_queue) \ {Head(priority_queue)}
          /\ Head(priority_queue) \in Items
      BY <1>1, <2>1, <3>1, TailElements, HeadTailProperties
    <3> QED
      BY <1>1, <1>2, <3>1, <3>2
  <2>2. CASE priority_queue = <<>>
    <3>1. /\ witem' = [witem EXCEPT ![w] = Head(work_queue)] /\ work_queue # <<>>
          /\ work_queue' = Tail(work_queue) /\ priority_queue' = priority_queue
      BY <2>2 DEF WorkerTake, TakeItem
    <3>2. /\ Distinct(work_queue') /\ Head(work_queue) \in Elements(work_queue)
          /\ Elements(work_queue') = Elements(work_queue) \ {Head(work_queue)}
          /\ Head(work_queue) \in Items
      BY <1>1, <3>1, TailElements, HeadTailProperties
    <3> QED
      BY <1>1, <1>2, <3>1, <3>2
  <2> QED
    BY <2>1, <2>2
<1>4. Executing' = Executing \cup {w} /\ w \notin Executing
  BY DEF IInv, TypeOK, WorkerTake, Executing
<1>5. RunningItems' = RunningItems \cup {witem'[w]}
  <2>1. \A v \in Executing : v \in Workers /\ v # w /\ witem'[v] = witem[v]
    BY <1>3, <1>4 DEF Executing
  <2> QED
    BY <1>4, <2>1 DEF RunningItems
<1> QED
  BY <1>3, <1>4, <1>5

(* What a work function that returns does to the places.                   *)
LEMMA ExecuteMoves ==
    ASSUME IInv, PlaceInv, NEW w \in Workers, WorkerExecute(w)
    PROVE  /\ w \in Executing /\ Executing' = Executing \ {w}
           /\ \A v \in Executing' : witem'[v] = witem[v]
           /\ witem[w] \in RunningItems /\ witem[w] \in Items
           /\ RunningItems' = RunningItems \ {witem[w]}
           /\ PendingItems' = PendingItems /\ done' = done \cup {witem[w]}
<1>1. /\ w \in Executing /\ Executing' = Executing \ {w}
      /\ \A v \in Executing' : witem'[v] = witem[v]
  BY DEF IInv, TypeOK, WorkerExecute, Executing
<1>2. \A u, v \in Executing : witem[u] = witem[v] => u = v
  BY DEF PlaceInv
<1>3. witem[w] \in RunningItems /\ RunningItems' = RunningItems \ {witem[w]}
  BY <1>1, <1>2 DEF RunningItems
<1>4. PendingItems' = PendingItems /\ done' = done \cup {witem[w]}
  BY DEF WorkerExecute, PendingItems
<1>5. witem[w] \in Items
  BY DEF IInv, HeldItems, WorkerExecute
<1> QED
  BY <1>1, <1>3, <1>4, <1>5

(* What a submission that returns 0 does to the places.                    *)
LEMMA EnqueueMoves ==
    ASSUME IInv, PlaceInv, HandInv, NEW s \in Submitters, SubmitEnqueue(s)
    PROVE  /\ Distinct(work_queue') /\ Distinct(priority_queue')
           /\ Elements(work_queue') \cap Elements(priority_queue') = {}
           /\ scall[s].item \in Items
           /\ scall[s].item \notin PendingItems \cup RunningItems \cup done
           /\ PendingItems' = PendingItems \cup {scall[s].item}
           /\ Executing' = Executing /\ RunningItems' = RunningItems
<1> DEFINE i == scall[s].item
<1>1. /\ work_queue \in Seq(Items) /\ priority_queue \in Seq(Items)
      /\ Distinct(work_queue) /\ Distinct(priority_queue)
      /\ Elements(work_queue) \cap Elements(priority_queue) = {}
      /\ i \in Items
  BY DEF IInv, TypeOK, HeldItems, PlaceInv, SubmitEnqueue
<1>2. PendingItems = Elements(work_queue) \cup Elements(priority_queue)
      /\ PendingItems' = Elements(work_queue') \cup Elements(priority_queue')
  BY DEF PendingItems
<1>3. i \notin PendingItems \cup RunningItems \cup done
  BY DEF PlaceInv, HandInv, SubmitEnqueue
<1>4. /\ Distinct(work_queue') /\ Distinct(priority_queue')
      /\ Elements(work_queue') \cap Elements(priority_queue') = {}
      /\ PendingItems' = PendingItems \cup {i}
  <2>1. CASE work_queue' = Append(work_queue, i) /\ priority_queue' = priority_queue
    <3>1. Distinct(work_queue') /\ Elements(work_queue') = Elements(work_queue) \cup {i}
      BY <1>1, <1>2, <1>3, <2>1, AppendElements
    <3> QED
      BY <1>1, <1>2, <1>3, <2>1, <3>1
  <2>2. CASE priority_queue' = <<i>> \o priority_queue /\ work_queue' = work_queue
    <3>1. /\ Distinct(priority_queue')
          /\ Elements(priority_queue') = Elements(priority_queue) \cup {i}
      BY <1>1, <1>2, <1>3, <2>2, PrependElements
    <3> QED
      BY <1>1, <1>2, <1>3, <2>2, <3>1
  <2> QED
    BY <2>1, <2>2 DEF SubmitEnqueue, Enqueue
<1>5. Executing' = Executing
  <2>1. wpc \in [Workers -> PCs] /\ TypeOK /\ SignalWorkAvailable
    BY DEF IInv, TypeOK, SubmitEnqueue, PCs
  <2> QED
    BY <2>1, SignalWakes DEF Executing
<1>6. RunningItems' = RunningItems
  BY <1>5 DEF SubmitEnqueue, RunningItems
<1> QED
  BY <1>1, <1>3, <1>4, <1>5, <1>6

(* Steps that leave every item where it is.                                *)
LEMMA PlacesStay ==
    ASSUME PlaceInv, UNCHANGED <<work_queue, priority_queue, witem, done, accepted>>,
           Executing' = Executing, pool' # "freed" => pool # "freed"
    PROVE  PlaceInv' /\ PendingItems' = PendingItems /\ RunningItems' = RunningItems
<1>1. PendingItems' = PendingItems /\ RunningItems' = RunningItems
  BY DEF PendingItems, RunningItems
<1> QED
  BY <1>1 DEF PlaceInv

(* Which steps those are: all but taking, executing, queueing and freeing. *)
LEMMA QuietSteps ==
    ASSUME IInv,
           \/ \E w \in Workers : WorkerWait(w) \/ WorkerExit(w) \/ WorkerFinish(w)
                                 \/ SpuriousWakeWorker(w)
           \/ \E s \in Submitters : \/ SubmitWait(s) \/ SubmitFail(s) \/ SpuriousWakeSubmitter(s)
                                    \/ \E i \in Items, k \in Kinds : SubmitCall(s, i, k)
           \/ ModuleInit \/ StartThread \/ StartThreadFails \/ StartReturns
           \/ \E c \in Configs : SetConfig(c)
           \/ StopBegin \/ StopJoined \/ UNCHANGED vars
    PROVE  /\ UNCHANGED <<work_queue, priority_queue, witem, done, accepted>>
           /\ Executing' = Executing /\ (pool' # "freed" => pool # "freed")
<1>0. wpc \in [Workers -> PCs]
  BY DEF IInv, TypeOK, PCs
<1>1. CASE \E w \in Workers : \/ WorkerWait(w) \/ WorkerExit(w) \/ WorkerFinish(w)
                              \/ SpuriousWakeWorker(w)
  BY <1>0, <1>1 DEF WorkerWait, WorkerExit, WorkerFinish, SpuriousWakeWorker, Executing
<1>2. CASE \E s \in Submitters : \/ SubmitWait(s) \/ SubmitFail(s) \/ SpuriousWakeSubmitter(s)
                                 \/ \E i \in Items, k \in Kinds : SubmitCall(s, i, k)
  BY <1>2 DEF SubmitWait, SubmitFail, SpuriousWakeSubmitter, SubmitCall, Executing
<1>3. CASE \/ ModuleInit \/ StartThreadFails \/ StartReturns
           \/ \E c \in Configs : SetConfig(c)
           \/ StopJoined \/ UNCHANGED vars
  BY <1>3 DEF ModuleInit, StartThreadFails, StartReturns, SetConfig, StopJoined, vars, Executing
<1>4. CASE StartThread
  <2>1. created + 1 \in Workers
    BY <1>4, Constants DEF StartThread, IInv, TypeOK, Workers
  <2>2. wpc[created + 1] = "unborn"
    BY <2>1 DEF IInv, TypeOK, Births, Workers
  <2>3. wpc' = [wpc EXCEPT ![created + 1] = "top"]
    BY <1>4 DEF StartThread
  <2>4. Executing' = Executing
    BY <1>0, <2>1, <2>2, <2>3 DEF Executing
  <2> QED
    BY <1>4, <2>4 DEF StartThread
<1>5. CASE StopBegin
  BY <1>0, <1>5 DEF StopBegin, Executing
<1> QED
  BY <1>1, <1>2, <1>3, <1>4, <1>5

(* Every step keeps the places disjoint.                                   *)
LEMMA StepPlace == IInv /\ HandInv /\ PlaceInv /\ [Next]_vars => PlaceInv'
<1> SUFFICES ASSUME IInv, HandInv, PlaceInv, [Next]_vars PROVE PlaceInv'
  OBVIOUS
<1>1. ASSUME NEW w \in Workers, WorkerTake(w) PROVE PlaceInv'
  <2> DEFINE x == witem'[w]
  <2>1. /\ Distinct(work_queue') /\ Distinct(priority_queue')
        /\ Elements(work_queue') \cap Elements(priority_queue') = {}
        /\ x \in PendingItems /\ PendingItems' = PendingItems \ {x}
        /\ \A v \in Workers : v # w => witem'[v] = witem[v]
        /\ Executing' = Executing \cup {w} /\ w \notin Executing
        /\ RunningItems' = RunningItems \cup {x}
    BY <1>1, TakeMoves
  <2>2. done' = done /\ accepted' = accepted /\ pool' = pool
    BY <1>1 DEF WorkerTake
  <2>3. /\ \A v \in Executing : witem[v] \notin PendingItems \cup done
        /\ \A u, v \in Executing : witem[u] = witem[v] => u = v
        /\ PendingItems \cap done = {}
        /\ pool # "freed" => accepted = PendingItems \cup RunningItems \cup done
    BY DEF PlaceInv
  <2>4. \A v \in Executing : witem'[v] = witem[v] /\ witem'[v] # x
    BY <2>1, <2>3 DEF Executing
  <2>5. \A v \in Executing' : witem'[v] \notin PendingItems' \cup done'
    BY <2>1, <2>2, <2>3, <2>4
  <2>6. \A u, v \in Executing' : witem'[u] = witem'[v] => u = v
    BY <2>1, <2>3, <2>4
  <2>7. pool' # "freed" => accepted' = PendingItems' \cup RunningItems' \cup done'
    BY <2>1, <2>2, <2>3
  <2> QED
    BY <2>1, <2>2, <2>3, <2>5, <2>6, <2>7 DEF PlaceInv
<1>2. ASSUME NEW w \in Workers, WorkerExecute(w) PROVE PlaceInv'
  <2>1. /\ w \in Executing /\ Executing' = Executing \ {w}
        /\ \A v \in Executing' : witem'[v] = witem[v]
        /\ witem[w] \in RunningItems /\ RunningItems' = RunningItems \ {witem[w]}
        /\ PendingItems' = PendingItems /\ done' = done \cup {witem[w]}
    BY <1>2, ExecuteMoves
  <2>2. /\ work_queue' = work_queue /\ priority_queue' = priority_queue
        /\ accepted' = accepted /\ pool' = pool
    BY <1>2 DEF WorkerExecute
  <2> QED
    BY <2>1, <2>2 DEF PlaceInv
<1>3. ASSUME NEW s \in Submitters, SubmitEnqueue(s) PROVE PlaceInv'
  <2> DEFINE i == scall[s].item
  <2>1. /\ Distinct(work_queue') /\ Distinct(priority_queue')
        /\ Elements(work_queue') \cap Elements(priority_queue') = {}
        /\ i \notin PendingItems \cup RunningItems \cup done
        /\ PendingItems' = PendingItems \cup {i}
        /\ Executing' = Executing /\ RunningItems' = RunningItems
    BY <1>3, EnqueueMoves
  <2>2. /\ witem' = witem /\ done' = done /\ accepted' = accepted \cup {i} /\ pool' = pool
    BY <1>3 DEF SubmitEnqueue
  <2>3. \A v \in Executing : witem[v] \in RunningItems
    BY DEF RunningItems
  <2> QED
    BY <2>1, <2>2, <2>3 DEF PlaceInv
<1>4. CASE Cleanup
  <2>1. /\ work_queue' = <<>> /\ priority_queue' = <<>> /\ pool' = "freed"
        /\ witem' = witem /\ wpc' = wpc /\ done' = done
    BY <1>4 DEF Cleanup
  <2>2. PendingItems' = {} /\ Distinct(work_queue') /\ Distinct(priority_queue')
        /\ Elements(work_queue') = {} /\ Executing' = Executing
    BY <2>1 DEF PendingItems, Elements, Distinct, Executing
  <2> QED
    BY <2>1, <2>2 DEF PlaceInv
<1> QED
  BY <1>1, <1>2, <1>3, <1>4, QuietSteps, PlacesStay DEF Next, WorkerStep, SubmitStep

(* Every step keeps what submitters hold new.                              *)
LEMMA StepHand == IInv /\ HandInv /\ [Next]_vars => HandInv'
<1> SUFFICES ASSUME IInv, HandInv, [Next]_vars PROVE HandInv'
  OBVIOUS
<1>0. spc \in [Submitters -> {"idle", "enter", "wait"}] /\ scall \in [Submitters -> Calls]
  BY DEF IInv, TypeOK
<1>1. ASSUME UNCHANGED <<used, accepted, scall>>,
             \A s \in Submitters : spc'[s] # "idle" => spc[s] # "idle"
      PROVE  HandInv'
  BY <1>1 DEF HandInv
<1>2. ASSUME NEW s \in Submitters, SubmitFail(s) PROVE HandInv'
  BY <1>0, <1>2 DEF SubmitFail, HandInv
<1>3. ASSUME NEW s \in Submitters, SubmitEnqueue(s) PROVE HandInv'
  <2>1. /\ spc' = [spc EXCEPT ![s] = "idle"] /\ scall' = [scall EXCEPT ![s] = NoCall]
        /\ accepted' = accepted \cup {scall[s].item} /\ used' = used /\ spc[s] # "idle"
    BY <1>3 DEF SubmitEnqueue
  <2>2. \A t \in Submitters : spc'[t] # "idle" =>
            t # s /\ spc[t] # "idle" /\ scall'[t] = scall[t]
    BY <1>0, <2>1
  <2> QED
    BY <2>1, <2>2 DEF HandInv
<1>4. ASSUME NEW s \in Submitters, NEW i \in Items, NEW k \in Kinds, SubmitCall(s, i, k)
      PROVE  HandInv'
  <2>1. accepted' = accepted /\ used' = used \cup {i} /\ i \notin used /\ spc[s] = "idle"
    BY <1>4 DEF SubmitCall
  <2>2. CASE UNCHANGED <<spc, scall>>
    BY <2>1, <2>2 DEF HandInv
  <2>3. CASE /\ spc' = [spc EXCEPT ![s] = "enter"]
             /\ scall' = [scall EXCEPT ![s] = [item |-> i, kind |-> k]]
    <3>1. \A t \in Submitters : t # s => spc'[t] = spc[t] /\ scall'[t] = scall[t]
      BY <1>0, <2>3
    <3>2. scall'[s].item = i
      BY <1>0, <2>3
    <3> QED
      BY <2>1, <3>1, <3>2 DEF HandInv
  <2> QED
    BY <1>4, <2>2, <2>3 DEF SubmitCall
<1>5. ASSUME NEW w \in Workers, WorkerStep(w) \/ SpuriousWakeWorker(w) PROVE HandInv'
  BY <1>0, <1>1, <1>5 DEF WorkerStep, WorkerWait, WorkerExit, WorkerTake, WorkerExecute,
                          WorkerFinish, SignalQueueNotFull, SpuriousWakeWorker
<1>6. ASSUME NEW s \in Submitters, SubmitWait(s) \/ SpuriousWakeSubmitter(s) PROVE HandInv'
  BY <1>0, <1>1, <1>6 DEF SubmitWait, SpuriousWakeSubmitter
<1>7. CASE \/ ModuleInit \/ StartThread \/ StartThreadFails \/ StartReturns
           \/ \E c \in Configs : SetConfig(c)
           \/ StopBegin \/ StopJoined \/ Cleanup \/ UNCHANGED vars
  BY <1>1, <1>7 DEF ModuleInit, StartThread, StartThreadFails, StartReturns, SetConfig,
                    StopBegin, StopJoined, Cleanup, vars
<1> QED
  BY <1>2, <1>3, <1>4, <1>5, <1>6, <1>7 DEF Next, SubmitStep

(* Both hold in every reachable state.                                     *)
LEMMA PlacesAlways == Spec => [](PlaceInv /\ HandInv)
<1>1. Init => PlaceInv /\ HandInv
  BY DEF Init, PlaceInv, HandInv, Distinct, Elements, PendingItems, RunningItems, Executing
<1> QED
  BY <1>1, Inductive, StepPlace, StepHand, PTL DEF Spec

(* Disjoint places without repetitions hold an item once.                  *)
LEMMA PlacesCount == PlaceInv => ExactlyOnce
<1> SUFFICES ASSUME PlaceInv, pool = "live", NEW i \in Items
             PROVE  Places(i) = IF i \in accepted THEN 1 ELSE 0
  BY DEF ExactlyOnce
<1>1. Cardinality({n \in DOMAIN work_queue : work_queue[n] = i})
        = IF i \in Elements(work_queue) THEN 1 ELSE 0
  BY OnePlace DEF PlaceInv
<1>2. Cardinality({n \in DOMAIN priority_queue : priority_queue[n] = i})
        = IF i \in Elements(priority_queue) THEN 1 ELSE 0
  BY OnePlace DEF PlaceInv
<1>3. Cardinality({w \in Executing : witem[w] = i}) = IF i \in RunningItems THEN 1 ELSE 0
  <2>1. CASE i \in RunningItems
    <3>1. PICK w \in Executing : witem[w] = i
      BY <2>1 DEF RunningItems
    <3>2. {v \in Executing : witem[v] = i} = {w}
      BY <3>1 DEF PlaceInv
    <3> QED
      BY <2>1, <3>2, FS_Singleton
  <2>2. CASE i \notin RunningItems
    <3>1. {v \in Executing : witem[v] = i} = {}
      BY <2>2 DEF RunningItems
    <3> QED
      BY <2>2, <3>1, FS_EmptySet
  <2> QED
    BY <2>1, <2>2
<1>4. Cardinality({i} \cap done) = IF i \in done THEN 1 ELSE 0
  <2>1. {i} \cap done = IF i \in done THEN {i} ELSE {}
    OBVIOUS
  <2> QED
    BY <2>1, FS_Singleton, FS_EmptySet
<1>5. /\ i \in accepted <=> \/ i \in Elements(work_queue) \/ i \in Elements(priority_queue)
                           \/ i \in RunningItems \/ i \in done
      /\ ~(i \in Elements(work_queue) /\ i \in Elements(priority_queue))
      /\ i \in Elements(work_queue) \cup Elements(priority_queue) => i \notin RunningItems \cup done
      /\ i \in RunningItems => i \notin done
  BY DEF PlaceInv, PendingItems, RunningItems
<1> QED
  BY <1>1, <1>2, <1>3, <1>4, <1>5 DEF Places

(* While the pool lives, an accepted item is in one queue position, in the *)
(* hands of one worker, or executed, and only in one of these; no other    *)
(* item is anywhere.  For any number of workers, submitters and items, and *)
(* with failing allocations and thread creations.                          *)
THEOREM ExactlyOnceCorrect == Spec => []ExactlyOnce
  BY PlacesAlways, PlacesCount, PTL

-----------------------------------------------------------------------------
(***************************************************************************)
(* The pool implements TaskPool, under the assumptions of LifetimeCorrect: *)
(* a step of a worker that takes an item is Begin, the return of a work    *)
(* function is Finish, a submission that returns 0 is Accept, stop is      *)
(* Close and cleanup is Discard; every other step changes nothing that a   *)
(* client of the pool can see.                                             *)
(***************************************************************************)

StopInv == state \in {"STOPPING", "STOPPED"} => shutdown

(* shutdown is set when the join loop begins and never cleared.            *)
LEMMA StepStop == IInv /\ StopInv /\ [Next]_vars => StopInv'
<1> SUFFICES ASSUME IInv, StopInv, [Next]_vars PROVE StopInv'
  OBVIOUS
<1>1. CASE UNCHANGED <<state, shutdown>>
  BY <1>1 DEF StopInv
<1>2. ASSUME NEW w \in Workers, WorkerStep(w) \/ SpuriousWakeWorker(w) PROVE StopInv'
  BY <1>1, <1>2 DEF WorkerStep, WorkerWait, WorkerExit, WorkerTake, WorkerExecute,
                    WorkerFinish, SpuriousWakeWorker
<1>3. ASSUME NEW s \in Submitters,
             \/ SubmitStep(s) \/ SpuriousWakeSubmitter(s)
             \/ \E i \in Items, k \in Kinds : SubmitCall(s, i, k)
      PROVE StopInv'
  BY <1>1, <1>3 DEF SubmitStep, SubmitWait, SubmitFail, SubmitEnqueue,
                    SpuriousWakeSubmitter, SubmitCall
<1>4. CASE \/ ModuleInit \/ StartThread \/ StartThreadFails \/ StartReturns
           \/ \E c \in Configs : SetConfig(c)
           \/ StopBegin \/ StopJoined \/ Cleanup \/ UNCHANGED vars
  BY <1>4 DEF ModuleInit, StartThread, StartThreadFails, StartReturns, SetConfig,
              StopBegin, StopJoined, Cleanup, vars, StopInv
<1> QED
  BY <1>2, <1>3, <1>4 DEF Next

(* Each step of the pool is a step of TaskPool or changes none of its      *)
(* variables.                                                              *)
LEMMA StepTaskPool ==
    ASSUME IInv, PlaceInv, HandInv, LifeInv, StopInv, [Next]_vars
    PROVE  [Abstract!TaskNext]_(Abstract!tvars)
<1> USE DEF Abstract!TaskNext, Abstract!tvars
<1>1. ASSUME NEW w \in Workers, WorkerTake(w) PROVE Abstract!TaskNext
  <2> DEFINE x == witem'[w]
  <2>1. /\ x \in Items /\ x \in PendingItems /\ PendingItems' = PendingItems \ {x}
        /\ RunningItems' = RunningItems \cup {x}
    BY <1>1, TakeMoves
  <2>2. ~shutdown /\ shutdown' = shutdown /\ done' = done
    BY <1>1 DEF WorkerTake
  <2>3. Abstract!Begin(x)
    BY <2>1, <2>2 DEF Abstract!Begin
  <2> QED
    BY <2>1, <2>3
<1>2. ASSUME NEW w \in Workers, WorkerExecute(w) PROVE Abstract!TaskNext
  <2>1. /\ witem[w] \in RunningItems /\ witem[w] \in Items
        /\ RunningItems' = RunningItems \ {witem[w]}
        /\ PendingItems' = PendingItems /\ done' = done \cup {witem[w]}
    BY <1>2, ExecuteMoves
  <2>2. shutdown' = shutdown
    BY <1>2 DEF WorkerExecute
  <2>3. Abstract!Finish(witem[w])
    BY <2>1, <2>2 DEF Abstract!Finish
  <2> QED
    BY <2>1, <2>3
<1>3. ASSUME NEW s \in Submitters, SubmitEnqueue(s) PROVE Abstract!TaskNext
  <2> DEFINE i == scall[s].item
  <2>1. /\ i \in Items /\ i \notin PendingItems \cup RunningItems \cup done
        /\ PendingItems' = PendingItems \cup {i} /\ RunningItems' = RunningItems
    BY <1>3, EnqueueMoves
  <2>2. ~shutdown /\ shutdown' = shutdown /\ done' = done
    BY <1>3 DEF SubmitEnqueue
  <2>3. Abstract!Accept(i)
    BY <2>1, <2>2 DEF Abstract!Accept
  <2> QED
    BY <2>1, <2>3
<1>4. CASE StopBegin
  <2>1. PendingItems' = PendingItems /\ RunningItems' = RunningItems /\ done' = done
    BY <1>4, QuietSteps, PlacesStay
  <2>2. shutdown' = TRUE /\ shutdown \in BOOLEAN
    BY <1>4 DEF StopBegin, IInv, TypeOK
  <2>3. CASE ~shutdown
    BY <2>1, <2>2, <2>3 DEF Abstract!Close
  <2>4. CASE shutdown
    BY <2>1, <2>2, <2>4
  <2> QED
    BY <2>3, <2>4
<1>5. CASE Cleanup
  <2>1. state = "STOPPED" /\ shutdown
    BY <1>5 DEF Cleanup, LifeInv, StopInv
  <2>2. \A w \in Workers : wpc[w] \in {"unborn", "exited"}
    BY <2>1, Constants DEF LifeInv, IInv, TypeOK, Births, Workers
  <2>3. RunningItems = {} /\ RunningItems' = {}
    BY <1>5, <2>2 DEF RunningItems, Executing, Cleanup
  <2>4. PendingItems' = {} /\ shutdown' = shutdown /\ done' = done
    BY <1>5 DEF Cleanup, PendingItems, Elements
  <2> QED
    BY <2>1, <2>3, <2>4 DEF Abstract!Discard
<1>6. ASSUME UNCHANGED <<work_queue, priority_queue, witem, done, accepted, shutdown>>,
             Executing' = Executing
      PROVE  UNCHANGED Abstract!tvars
  BY <1>6 DEF PendingItems, RunningItems
<1>7. CASE \/ \E w \in Workers : \/ WorkerWait(w) \/ WorkerExit(w) \/ WorkerFinish(w)
                                 \/ SpuriousWakeWorker(w)
           \/ \E s \in Submitters : \/ SubmitWait(s) \/ SubmitFail(s) \/ SpuriousWakeSubmitter(s)
                                    \/ \E i \in Items, k \in Kinds : SubmitCall(s, i, k)
           \/ ModuleInit \/ StartThread \/ StartThreadFails \/ StartReturns
           \/ \E c \in Configs : SetConfig(c)
           \/ StopJoined \/ UNCHANGED vars
  <2>1. shutdown' = shutdown
    BY <1>7 DEF WorkerWait, WorkerExit, WorkerFinish, SpuriousWakeWorker, SubmitWait, SubmitFail,
                SpuriousWakeSubmitter, SubmitCall, ModuleInit, StartThread, StartThreadFails,
                StartReturns, SetConfig, StopJoined, vars
  <2> QED
    BY <1>6, <1>7, <2>1, QuietSteps
<1> QED
  BY <1>1, <1>2, <1>3, <1>4, <1>5, <1>7 DEF Next, WorkerStep, SubmitStep

(* Every behaviour of the pool is a behaviour of TaskPool: an accepted     *)
(* item begins at most once, only before stop, runs to its end, and is     *)
(* thrown away only by cleanup of a stopped pool.  As for LifetimeCorrect, *)
(* thread creation succeeds and no configuration changes the number of     *)
(* threads: otherwise cleanup frees queues whose workers still run.        *)
THEOREM RefinesTaskPool ==
    ASSUME ~CreateMayFail, \A c \in Configs : c.thread_count = ThreadCount
    PROVE  Spec => ImplementsTaskPool
<1>1. Init => LifeInv /\ StopInv /\ Abstract!TaskInit
  BY Constants DEF Init, LifeInv, StopInv, Abstract!TaskInit, PendingItems, RunningItems,
                   Elements, Executing
<1>2. IInv /\ LifeInv /\ [Next]_vars => LifeInv'
  BY StepLife
<1>3. IInv /\ PlaceInv /\ HandInv /\ LifeInv /\ StopInv /\ [Next]_vars
        => [Abstract!TaskNext]_(Abstract!tvars)
  BY StepTaskPool
<1> QED
  BY <1>1, <1>2, <1>3, Inductive, PlacesAlways, StepStop, PTL
     DEF Spec, ImplementsTaskPool, Abstract!TaskSpec
=============================================================================
