---------------------------- MODULE LoggerProofs ----------------------------
(***************************************************************************)
(* Proofs about Logger, for every number of producers and messages and     *)
(* every queue size.                                                       *)
(***************************************************************************)
EXTENDS Logger, SequenceTheorems, FiniteSetTheorems, TLAPS

USE DEF conf

-----------------------------------------------------------------------------
(***************************************************************************)
(* Facts about messages and sequences.                                     *)
(***************************************************************************)

LEMMA NoMessageIsNone == NoMessage \notin Messages
<1>1. SUFFICES ASSUME NoMessage \in Messages PROVE FALSE
  OBVIOUS
<1>2. PICK p \in Producers, n \in 1..MaxMessages : <<>> = <<p, n>>
  BY <1>1 DEF NoMessage, Messages
<1>3. Len(<<>>) = 0 /\ Len(<<p, n>>) = 2
  OBVIOUS
<1> QED
  BY <1>2, <1>3

LEMMA ElementsAppend ==
    ASSUME NEW s \in Seq(Messages), NEW m \in Messages
    PROVE  Append(s, m) \in Seq(Messages) /\ Elements(Append(s, m)) = Elements(s) \cup {m}
<1>1. Len(s) \in Nat /\ DOMAIN s = 1..Len(s)
  BY LenProperties
<1>2. PICK r : r = Append(s, m)
  OBVIOUS
<1>3. /\ r \in Seq(Messages) /\ Len(r) = Len(s) + 1 /\ r[Len(s) + 1] = m
      /\ \A i \in 1..Len(s) : r[i] = s[i]
  BY <1>2, AppendProperties
<1>4. DOMAIN r = 1..Len(s) + 1
  BY <1>3, LenProperties
<1>5. /\ \A i \in 1..Len(s) + 1 : i \in 1..Len(s) \/ i = Len(s) + 1
      /\ \A i \in 1..Len(s) : i \in 1..Len(s) + 1
      /\ Len(s) + 1 \in 1..Len(s) + 1
  BY <1>1
<1>6. Elements(r) = Elements(s) \cup {m}
  <2>1. Elements(r) \subseteq Elements(s) \cup {m}
    BY <1>1, <1>3, <1>4, <1>5 DEF Elements
  <2>2. Elements(s) \subseteq Elements(r)
    BY <1>1, <1>3, <1>4, <1>5 DEF Elements
  <2>3. m \in Elements(r)
    BY <1>3, <1>4, <1>5 DEF Elements
  <2> QED
    BY <2>1, <2>2, <2>3
<1> QED
  BY <1>2, <1>3, <1>6

LEMMA ElementsTail ==
    ASSUME NEW s \in Seq(Messages), s # <<>>
    PROVE  /\ Head(s) \in Messages /\ Tail(s) \in Seq(Messages)
           /\ Elements(s) = {Head(s)} \cup Elements(Tail(s))
<1>1. /\ Len(s) \in Nat \ {0} /\ DOMAIN s = 1..Len(s)
      /\ \A i \in 1..Len(s) : s[i] \in Messages
  BY LenProperties, ElementOfSeq, EmptySeq
<1>2. PICK r : r = Tail(s)
  OBVIOUS
<1>3. /\ Head(s) = s[1] /\ r \in Seq(Messages) /\ Len(r) = Len(s) - 1
      /\ \A i \in 1..Len(s) - 1 : r[i] = s[i + 1]
  BY <1>1, <1>2, HeadTailProperties
<1>4. DOMAIN r = 1..Len(s) - 1
  BY <1>3, LenProperties
<1>5. /\ \A i \in 1..Len(s) : i = 1 \/ (i - 1 \in 1..Len(s) - 1 /\ (i - 1) + 1 = i)
      /\ \A i \in 1..Len(s) - 1 : i + 1 \in 1..Len(s)
      /\ 1 \in 1..Len(s)
  BY <1>1
<1>6. Elements(s) \subseteq {s[1]} \cup Elements(r)
  <2> SUFFICES ASSUME NEW i \in 1..Len(s) PROVE s[i] \in {s[1]} \cup Elements(r)
    BY <1>1 DEF Elements
  <2>1. CASE i = 1
    BY <2>1
  <2>2. CASE i # 1
    <3>1. s[i] = r[i - 1] /\ i - 1 \in DOMAIN r
      BY <1>3, <1>4, <1>5, <2>2
    <3> QED
      BY <3>1 DEF Elements
  <2> QED
    BY <2>1, <2>2
<1>7. {s[1]} \cup Elements(r) \subseteq Elements(s)
  BY <1>1, <1>3, <1>4, <1>5 DEF Elements
<1>8. s[1] \in Messages
  BY <1>1, <1>5
<1> QED
  BY <1>2, <1>3, <1>6, <1>7, <1>8

LEMMA ElementsEmpty == <<>> \in Seq(Messages) /\ Elements(<<>>) = {}
<1>1. DOMAIN <<>> = {}
  OBVIOUS
<1> QED
  BY <1>1 DEF Elements

-----------------------------------------------------------------------------
(***************************************************************************)
(* Types, and the life of the worker.                                      *)
(***************************************************************************)

Holding == \A p \in Producers : ppc[p] # "idle" => sent[p] \in 1..MaxMessages

(* The worker exists between start and the join.                           *)
Life ==
    /\ state \in {"INITIALIZED", "ERROR"} \/ data = "null" => wpc = "none"
    /\ state = "INITIALIZED" => data = "live"
    /\ WorkerJoined

Typed == TypeOK /\ Holding

LEMMA InitTyped == Init => Typed /\ Life /\ WorkerAwake
<1> SUFFICES ASSUME Init PROVE Typed /\ Life /\ WorkerAwake
  OBVIOUS
<1>1. 0 \in 0..MaxMessages
  BY BoundAssumption
<1>2. TypeOK
  BY <1>1, ElementsEmpty DEF Init, TypeOK
<1>3. Holding /\ Life /\ WorkerAwake
  BY DEF Init, Holding, Life, WorkerJoined, WorkerAwake
<1> QED
  BY <1>2, <1>3 DEF Typed

(* The message that a producer holds is one of its messages.               *)
LEMMA HeldMessage ==
    ASSUME Typed, NEW p \in Producers, ppc[p] # "idle"
    PROVE  LastOf(p) \in Messages
  BY DEF Typed, Holding, LastOf, Messages

LEMMA ProducerTyped ==
    ASSUME Typed, NEW p \in Producers, LogCall(p) \/ Push(p) \/ PushFull(p) \/ SyncWrite(p)
    PROVE  Typed'
<1> USE DEF Typed
<1>1. CASE LogCall(p)
  <2>1. sent[p] + 1 \in 1..MaxMessages /\ sent[p] + 1 \in 0..MaxMessages
    BY <1>1, BoundAssumption DEF LogCall, TypeOK
  <2>2. <<p, sent[p] + 1>> \in Messages
    BY <2>1 DEF Messages
  <2>3. sent' \in [Producers -> 0..MaxMessages]
    BY <1>1, <2>1 DEF LogCall, TypeOK
  <2>4. ppc' \in [Producers -> {"idle", "push", "sync"}] /\ discarded' \subseteq Messages
    BY <1>1, <2>2 DEF LogCall, TypeOK
  <2>5. TypeOK'
    BY <1>1, <2>3, <2>4 DEF LogCall, TypeOK
  <2>6. Holding'
    BY <1>1, <2>1 DEF LogCall, TypeOK, Holding
  <2> QED
    BY <2>5, <2>6
<1>2. CASE Push(p)
  <2>1. LastOf(p) \in Messages
    BY <1>2, HeldMessage DEF Push
  <2>2. queue' \in Seq(Messages) /\ pushed' \in Seq(Messages)
    BY <1>2, <2>1, ElementsAppend DEF Push, Link, TypeOK
  <2>3. wpc' \in {wpc, "pop"} /\ (wpc = "write" <=> wpc' = "write")
    BY <1>2 DEF Push, SignalWorker
  <2>4. ppc' \in [Producers -> {"idle", "push", "sync"}]
    BY <1>2 DEF Push, TypeOK
  <2>5. wpc' \in {"none", "check", "pop", "sleepy", "wait", "write", "exited"}
        /\ (wpc' = "write") = (wmsg' # NoMessage)
    BY <1>2, <2>3 DEF Push, TypeOK
  <2>6. TypeOK'
    BY <1>2, <2>2, <2>4, <2>5 DEF Push, TypeOK
  <2>7. Holding'
    BY <1>2 DEF Push, TypeOK, Holding
  <2> QED
    BY <2>6, <2>7
<1>3. CASE PushFull(p)
  <2>1. TypeOK'
    BY <1>3 DEF PushFull, TypeOK
  <2>2. Holding'
    BY <1>3 DEF PushFull, TypeOK, Holding
  <2> QED
    BY <2>1, <2>2
<1>4. CASE SyncWrite(p)
  <2>1. LastOf(p) \in Messages
    BY <1>4, HeldMessage DEF SyncWrite
  <2>2. written' \in Seq(Messages)
    BY <1>4, <2>1, ElementsAppend DEF SyncWrite, TypeOK
  <2>3. TypeOK'
    BY <1>4, <2>2 DEF SyncWrite, TypeOK
  <2>4. Holding'
    BY <1>4 DEF SyncWrite, TypeOK, Holding
  <2> QED
    BY <2>3, <2>4
<1> QED
  BY <1>1, <1>2, <1>3, <1>4

LEMMA WorkerTyped ==
    ASSUME Typed, WorkerStep \/ SpuriousWake
    PROVE  Typed'
<1> USE DEF Typed
<1>1. CASE WorkerCheck \/ WorkerPopEmpty \/ WorkerSleep \/ SpuriousWake
  <2>1. TypeOK'
    BY <1>1 DEF WorkerCheck, WorkerPopEmpty, WorkerSleep, SpuriousWake, TypeOK
  <2>2. Holding'
    BY <1>1 DEF WorkerCheck, WorkerPopEmpty, WorkerSleep, SpuriousWake, Holding
  <2> QED
    BY <2>1, <2>2
<1>2. CASE WorkerPop
  <2>1. wmsg' \in Messages /\ queue' \in Seq(Messages)
    BY <1>2, ElementsTail DEF WorkerPop, TypeOK
  <2>2. wmsg' # NoMessage
    BY <2>1, NoMessageIsNone
  <2>3. TypeOK'
    BY <1>2, <2>1, <2>2 DEF WorkerPop, TypeOK
  <2>4. Holding'
    BY <1>2 DEF WorkerPop, Holding
  <2> QED
    BY <2>3, <2>4
<1>3. CASE WorkerWrite
  <2>1. wmsg \in Messages
    BY <1>3 DEF WorkerWrite, TypeOK
  <2>2. written' \in Seq(Messages)
    BY <1>3, <2>1, ElementsAppend DEF WorkerWrite, TypeOK
  <2>3. TypeOK'
    BY <1>3, <2>2 DEF WorkerWrite, TypeOK
  <2>4. Holding'
    BY <1>3 DEF WorkerWrite, Holding
  <2> QED
    BY <2>3, <2>4
<1> QED
  BY <1>1, <1>2, <1>3 DEF WorkerStep

LEMMA ElementsAre ==
    ASSUME NEW s \in Seq(Messages)
    PROVE  Elements(s) \subseteq Messages
<1>1. DOMAIN s = 1..Len(s) /\ \A i \in 1..Len(s) : s[i] \in Messages
  BY LenProperties, ElementOfSeq
<1> QED
  BY <1>1 DEF Elements

LEMMA FlushTyped ==
    ASSUME Typed, FlushCall \/ FlushReturn
    PROVE  Typed'
<1> USE DEF Typed
<1>1. Logged \subseteq Messages
  BY ElementsAre DEF TypeOK, Logged
<1>2. TypeOK'
  BY <1>1 DEF FlushCall, FlushReturn, TypeOK
<1>3. Holding'
  BY DEF FlushCall, FlushReturn, Holding
<1> QED
  BY <1>2, <1>3

LEMMA LifeCycleTyped ==
    ASSUME Typed, Life,
           \/ ModuleInit \/ Start \/ StartFails \/ StopFlag \/ StopSignal \/ StopJoined \/ Cleanup
           \/ \E n \in QueueSizes, b \in AsyncModes : SetConfig(n, b)
    PROVE  Typed'
<1> USE DEF Typed
<1>1. Holding'
  BY DEF Holding, ModuleInit, Start, StartFails, StopFlag, StopSignal, StopJoined, Cleanup, SetConfig
<1>2. enable_async \in BOOLEAN
  BY SwitchAssumption DEF TypeOK
<1>3. CASE Start
  <2>1. wpc = "none"
    BY <1>3 DEF Start, Life
  <2>2. wpc' \in {"check", "none"} /\ wmsg' = wmsg /\ (wpc = "write") = (wmsg # NoMessage)
    BY <1>3 DEF Start, TypeOK
  <2>3. (wpc' = "write") = (wmsg' # NoMessage)
    BY <2>1, <2>2
  <2>4. TypeOK'
    BY <1>2, <1>3, <2>2, <2>3 DEF Start, TypeOK
  <2> QED
    BY <1>1, <2>4
<1>4. CASE StopSignal
  <2>1. wpc' \in {wpc, "pop"} /\ (wpc = "write" <=> wpc' = "write")
    BY <1>4 DEF StopSignal, SignalWorker
  <2>2. wpc' \in {"none", "check", "pop", "sleepy", "wait", "write", "exited"}
        /\ (wpc' = "write") = (wmsg' # NoMessage)
    BY <1>4, <2>1 DEF StopSignal, TypeOK
  <2>3. TypeOK'
    BY <1>4, <2>2 DEF StopSignal, TypeOK
  <2> QED
    BY <1>1, <2>3
<1>5. CASE StopJoined \/ Cleanup
  <2>1. queue' \in Seq(Messages) /\ discarded' \subseteq Messages
    BY <1>5, ElementsAre, ElementsEmpty DEF StopJoined, Cleanup, TypeOK
  <2>2. TypeOK'
    BY <1>5, <2>1 DEF StopJoined, Cleanup, TypeOK
  <2> QED
    BY <1>1, <2>2
<1>6. CASE ModuleInit \/ StartFails \/ StopFlag
  <2>1. worker_running' \in BOOLEAN
    BY <1>2, <1>6 DEF ModuleInit, StartFails, StopFlag, TypeOK
  <2>2. state' \in {"UNINITIALIZED", "INITIALIZED", "STARTED", "FLAGGED", "JOINING",
                    "STOPPED", "ERROR"} /\ data' \in {"null", "live", "freed"}
    BY <1>6 DEF ModuleInit, StartFails, StopFlag, TypeOK
  <2>3. TypeOK'
    BY <1>6, <2>1, <2>2 DEF ModuleInit, StartFails, StopFlag, TypeOK
  <2> QED
    BY <1>1, <2>3
<1>7. CASE \E n \in QueueSizes, b \in AsyncModes : SetConfig(n, b)
  <2>1. TypeOK'
    BY <1>7 DEF SetConfig, TypeOK
  <2> QED
    BY <1>1, <2>1
<1> QED
  BY <1>3, <1>4, <1>5, <1>6, <1>7

LEMMA StepTyped == Typed /\ Life /\ [Next]_vars => Typed'
<1> SUFFICES ASSUME Typed, Life, [Next]_vars PROVE Typed'
  OBVIOUS
<1>1. CASE \E p \in Producers : LogCall(p) \/ Push(p) \/ PushFull(p) \/ SyncWrite(p)
  BY <1>1, ProducerTyped
<1>2. CASE WorkerStep \/ SpuriousWake
  BY <1>2, WorkerTyped
<1>3. CASE FlushCall \/ FlushReturn
  BY <1>3, FlushTyped
<1>4. CASE \/ ModuleInit \/ Start \/ StartFails \/ StopFlag \/ StopSignal \/ StopJoined \/ Cleanup
           \/ \E n \in QueueSizes, b \in AsyncModes : SetConfig(n, b)
  BY <1>4, LifeCycleTyped
<1>5. CASE UNCHANGED vars
  BY <1>5 DEF vars, Typed, TypeOK, Holding
<1> QED
  BY <1>1, <1>2, <1>3, <1>4, <1>5 DEF Next

(* The wake-up: a signal finds the worker waiting or on its way.           *)
LEMMA StepAwake == WorkerAwake /\ [Next]_vars => WorkerAwake'
<1> SUFFICES ASSUME WorkerAwake, [Next]_vars PROVE WorkerAwake'
  OBVIOUS
<1> USE DEF WorkerAwake
<1>1. CASE \E p \in Producers : LogCall(p) \/ PushFull(p) \/ SyncWrite(p)
  BY <1>1 DEF LogCall, PushFull, SyncWrite
<1>2. CASE \E p \in Producers : Push(p)
  <2>1. wpc' \notin {"wait", "sleepy"}
    BY <1>2 DEF Push, MutexFree, SignalWorker
  <2> QED
    BY <2>1
<1>3. CASE WorkerStep \/ SpuriousWake
  BY <1>3 DEF WorkerStep, WorkerCheck, WorkerPop, WorkerPopEmpty, WorkerSleep, WorkerWrite,
              SpuriousWake
<1>4. CASE FlushCall \/ FlushReturn
  BY <1>4 DEF FlushCall, FlushReturn
<1>5. CASE ModuleInit \/ Start \/ StartFails \/ StopFlag
  BY <1>5 DEF ModuleInit, Start, StartFails, StopFlag
<1>6. CASE StopSignal \/ StopJoined \/ Cleanup
  BY <1>6 DEF StopSignal, SignalWorker, StopJoined, Cleanup
<1>7. CASE \E n \in QueueSizes, b \in AsyncModes : SetConfig(n, b)
  BY <1>7 DEF SetConfig
<1>8. CASE UNCHANGED vars
  BY <1>8 DEF vars
<1> QED
  BY <1>1, <1>2, <1>3, <1>4, <1>5, <1>6, <1>7, <1>8 DEF Next

LEMMA StepLife == Life /\ [Next]_vars => Life'
<1> SUFFICES ASSUME Life, [Next]_vars PROVE Life'
  OBVIOUS
<1> USE DEF Life, WorkerJoined
<1>1. CASE \E p \in Producers : LogCall(p) \/ PushFull(p) \/ SyncWrite(p)
  BY <1>1 DEF LogCall, PushFull, SyncWrite
<1>2. CASE \E p \in Producers : Push(p)
  BY <1>2 DEF Push, SignalWorker
<1>3. CASE WorkerStep \/ SpuriousWake
  <2>1. wpc \notin {"none", "exited"} /\ UNCHANGED <<data, state>>
    BY <1>3 DEF WorkerStep, WorkerCheck, WorkerPop, WorkerPopEmpty, WorkerSleep, WorkerWrite,
                SpuriousWake
  <2> QED
    BY <2>1
<1>4. CASE FlushCall \/ FlushReturn
  BY <1>4 DEF FlushCall, FlushReturn
<1>5. CASE ModuleInit \/ Start \/ StartFails \/ StopFlag
  BY <1>5 DEF ModuleInit, Start, StartFails, StopFlag
<1>6. CASE StopSignal \/ StopJoined \/ Cleanup
  BY <1>6 DEF StopSignal, SignalWorker, StopJoined, Cleanup
<1>7. CASE \E n \in QueueSizes, b \in AsyncModes : SetConfig(n, b)
  BY <1>7 DEF SetConfig
<1>8. CASE UNCHANGED vars
  BY <1>8 DEF vars
<1> QED
  BY <1>1, <1>2, <1>3, <1>4, <1>5, <1>6, <1>7, <1>8 DEF Next

-----------------------------------------------------------------------------
(***************************************************************************)
(* The flush.  Whatever was logged is at one of the places that Placed     *)
(* collects, and no step takes a message away from them: from the queue it *)
(* goes to the worker or is dropped, from the worker to the output.        *)
(***************************************************************************)

Placed == Elements(written) \cup Elements(queue) \cup discarded \cup {wmsg}

FlushInv == Logged \subseteq Placed /\ fset \subseteq Placed /\ FlushComplete

LEMMA StepFlush == Typed /\ FlushInv /\ [Next]_vars => FlushInv'
<1> SUFFICES ASSUME Typed, FlushInv, [Next]_vars PROVE FlushInv'
  OBVIOUS
<1> USE DEF FlushInv
<1>0. /\ queue \in Seq(Messages) /\ written \in Seq(Messages) /\ pushed \in Seq(Messages)
      /\ fset \subseteq Messages /\ Logged \subseteq Messages
      /\ wmsg \in Messages \cup {NoMessage} /\ (wpc = "write") = (wmsg # NoMessage)
  BY ElementsAre DEF Typed, TypeOK, Logged
<1>1. CASE UNCHANGED <<queue, wmsg, written, pushed, fset, fpc>> /\ discarded \subseteq discarded'
  BY <1>1 DEF Placed, Logged, FlushComplete, Elements
<1>2. CASE \E p \in Producers : Push(p)
  <2>1. PICK p \in Producers : Push(p)
    BY <1>2
  <2>2. LastOf(p) \in Messages
    BY <2>1, HeldMessage DEF Push
  <2>3. Elements(queue') = Elements(queue) \cup {LastOf(p)}
        /\ Elements(pushed') = Elements(pushed) \cup {LastOf(p)}
    BY <1>0, <2>1, <2>2, ElementsAppend DEF Push, Link
  <2>4. UNCHANGED <<wmsg, written, discarded, fset, fpc>>
    BY <2>1 DEF Push
  <2>5. Logged' = Elements(pushed') \cup Elements(written)
        /\ Placed' = Elements(written) \cup Elements(queue') \cup discarded \cup {wmsg}
    BY <2>4 DEF Logged, Placed, Elements
  <2>6. Logged' \subseteq Placed' /\ fset' \subseteq Placed'
    BY <2>3, <2>4, <2>5 DEF Logged, Placed
  <2>7. FlushComplete'
    BY <2>4 DEF FlushComplete, Elements
  <2> QED
    BY <2>6, <2>7
<1>3. CASE \E p \in Producers : SyncWrite(p)
  <2>1. PICK p \in Producers : SyncWrite(p)
    BY <1>3
  <2>2. LastOf(p) \in Messages
    BY <2>1, HeldMessage DEF SyncWrite
  <2>3. Elements(written') = Elements(written) \cup {LastOf(p)}
    BY <1>0, <2>1, <2>2, ElementsAppend DEF SyncWrite
  <2>4. UNCHANGED <<wmsg, queue, pushed, discarded, fset, fpc>>
    BY <2>1 DEF SyncWrite
  <2>5. Logged' = Elements(pushed) \cup Elements(written')
        /\ Placed' = Elements(written') \cup Elements(queue) \cup discarded \cup {wmsg}
    BY <2>4 DEF Logged, Placed, Elements
  <2>6. Logged' \subseteq Placed' /\ fset' \subseteq Placed'
    BY <2>3, <2>4, <2>5 DEF Logged, Placed
  <2>7. FlushComplete'
    <3>1. fpc = "returned" => fset \subseteq Elements(written') \cup discarded \cup {wmsg}
      BY <2>3 DEF FlushComplete
    <3> QED
      BY <2>4, <3>1 DEF FlushComplete, Elements
  <2> QED
    BY <2>6, <2>7
<1>4. CASE WorkerPop
  <2>1. /\ Elements(queue) = {wmsg'} \cup Elements(queue')
        /\ UNCHANGED <<written, pushed, discarded, fset, fpc>>
    BY <1>0, <1>4, ElementsTail DEF WorkerPop
  <2>2. wmsg \notin Messages
    BY <1>0, <1>4, NoMessageIsNone DEF WorkerPop
  <2>3. Logged' = Logged
        /\ Placed' = Elements(written) \cup Elements(queue') \cup discarded \cup {wmsg'}
    BY <2>1 DEF Logged, Placed, Elements
  <2>4. Logged' \subseteq Placed' /\ fset' \subseteq Placed'
    BY <1>0, <2>1, <2>2, <2>3 DEF Placed
  <2>5. FlushComplete'
    <3>1. fpc = "returned" => fset \subseteq Elements(written) \cup discarded \cup {wmsg'}
      BY <1>0, <2>2 DEF FlushComplete
    <3> QED
      BY <2>1, <3>1 DEF FlushComplete, Elements
  <2> QED
    BY <2>4, <2>5
<1>5. CASE WorkerWrite
  <2>1. wmsg \in Messages
    BY <1>0, <1>5 DEF WorkerWrite
  <2>2. /\ Elements(written') = Elements(written) \cup {wmsg}
        /\ UNCHANGED <<queue, pushed, discarded, fset, fpc>>
    BY <1>0, <1>5, <2>1, ElementsAppend DEF WorkerWrite
  <2>3. Logged' = Elements(pushed) \cup Elements(written')
        /\ Placed' = Elements(written') \cup Elements(queue) \cup discarded \cup {wmsg'}
    BY <2>2 DEF Logged, Placed, Elements
  <2>4. Logged' \subseteq Placed' /\ fset' \subseteq Placed'
    BY <2>2, <2>3 DEF Logged, Placed
  <2>5. FlushComplete'
    <3>1. fpc = "returned" => fset \subseteq Elements(written') \cup discarded \cup {wmsg'}
      BY <2>2 DEF FlushComplete
    <3> QED
      BY <2>2, <3>1 DEF FlushComplete, Elements
  <2> QED
    BY <2>4, <2>5
<1>6. CASE FlushCall
  <2>1. UNCHANGED <<queue, wmsg, written, pushed, discarded>> /\ fset' = Logged /\ fpc' = "poll"
    BY <1>6 DEF FlushCall
  <2> QED
    BY <2>1 DEF Logged, Placed, FlushComplete, Elements
<1>7. CASE FlushReturn
  <2>1. UNCHANGED <<queue, wmsg, written, pushed, discarded, fset>> /\ queue = <<>>
    BY <1>7 DEF FlushReturn
  <2>2. Placed = Elements(written) \cup discarded \cup {wmsg}
    BY <2>1, ElementsEmpty DEF Placed
  <2>3. Placed' = Placed /\ Logged' = Logged /\ Elements(written)' = Elements(written)
    BY <2>1 DEF Placed, Logged, Elements
  <2> QED
    BY <2>1, <2>2, <2>3 DEF FlushComplete
<1>8. CASE StopJoined \/ Cleanup
  <2>1. /\ UNCHANGED <<wmsg, written, pushed, fset, fpc>> /\ queue' = <<>>
        /\ discarded' = discarded \cup Elements(queue)
    BY <1>8 DEF StopJoined, Cleanup
  <2>2. Logged' = Logged /\ Placed' = Placed
    BY <2>1, ElementsEmpty DEF Logged, Placed, Elements
  <2>3. FlushComplete'
    BY <2>1 DEF FlushComplete, Elements
  <2> QED
    BY <2>1, <2>2, <2>3
<1>9. CASE \E p \in Producers : LogCall(p) \/ PushFull(p)
  BY <1>1, <1>9 DEF LogCall, PushFull
<1>10. CASE WorkerCheck \/ WorkerPopEmpty \/ WorkerSleep \/ SpuriousWake
  BY <1>1, <1>10 DEF WorkerCheck, WorkerPopEmpty, WorkerSleep, SpuriousWake
<1>11. CASE ModuleInit \/ Start \/ StartFails \/ StopFlag \/ StopSignal
  BY <1>1, <1>11 DEF ModuleInit, Start, StartFails, StopFlag, StopSignal
<1>12. CASE \E n \in QueueSizes, b \in AsyncModes : SetConfig(n, b)
  BY <1>1, <1>12 DEF SetConfig
<1>13. CASE UNCHANGED vars
  BY <1>1, <1>13 DEF vars
<1> QED
  BY <1>2, <1>3, <1>4, <1>5, <1>6, <1>7, <1>8, <1>9, <1>10, <1>11, <1>12, <1>13
  DEF Next, WorkerStep

(* log_queue_push and log_queue_pop: the worker never sleeps beside a      *)
(* message.                                                                *)
THEOREM AwakeCorrect == Spec => []WorkerAwake
  BY InitTyped, StepAwake, PTL DEF Spec

(* logger_flush: when it returns, at most one message of those that were   *)
(* logged before is still on its way, in the hands of the worker; this     *)
(* holds beside any number of producers that log meanwhile.                *)
THEOREM FlushCorrect == Spec => []FlushComplete
<1>1. Init => FlushInv
  <2> SUFFICES ASSUME Init PROVE FlushInv
    OBVIOUS
  <2> QED
    BY ElementsEmpty DEF Init, FlushInv, Logged, Placed, FlushComplete
<1>2. FlushInv => FlushComplete
  BY DEF FlushInv
<1> QED
  BY <1>1, <1>2, InitTyped, StepTyped, StepLife, StepFlush, PTL DEF Spec

(* logger_module_stop and _cleanup: the worker is gone before the queue    *)
(* and its mutex are freed, whatever fails at start.                       *)
THEOREM JoinCorrect == Spec => []WorkerJoined
<1>1. Life => WorkerJoined
  BY DEF Life
<1> QED
  BY <1>1, InitTyped, StepLife, PTL DEF Spec
-----------------------------------------------------------------------------
(***************************************************************************)
(* Every message is in one place.  The places are sets that have nothing   *)
(* in common and together are the messages that were logged; a step moves  *)
(* messages from one to the next.                                          *)
(***************************************************************************)

Distinct(s) == \A i, j \in DOMAIN s : s[i] = s[j] => i = j
WithWorker == {wmsg} \cap Messages

(* Five sets without a common element, whose union is S.                   *)
Parts(Q, W, H, I, D, S) ==
    /\ Q \cap (W \cup H \cup I \cup D) = {} /\ W \cap (H \cup I \cup D) = {}
    /\ H \cap (I \cup D) = {} /\ I \cap D = {}
    /\ S = Q \cup W \cup H \cup I \cup D

PlaceInv ==
    /\ Distinct(queue) /\ Distinct(written)
    /\ Parts(Elements(queue), Elements(written), WithWorker, InHand, discarded, Sent)

LEMMA DistinctAppend ==
    ASSUME NEW s \in Seq(Messages), NEW m \in Messages, Distinct(s), m \notin Elements(s)
    PROVE  Distinct(Append(s, m))
<1>1. Len(s) \in Nat /\ DOMAIN s = 1..Len(s)
  BY LenProperties
<1>2. PICK r : r = Append(s, m)
  OBVIOUS
<1>3. /\ r \in Seq(Messages) /\ Len(r) = Len(s) + 1 /\ r[Len(s) + 1] = m
      /\ \A i \in 1..Len(s) : r[i] = s[i]
  BY <1>2, AppendProperties
<1>4. DOMAIN r = 1..Len(s) + 1
  BY <1>3, LenProperties
<1>5. \A i \in 1..Len(s) + 1 : i \in 1..Len(s) \/ i = Len(s) + 1
  BY <1>1
<1>6. \A i \in 1..Len(s) : r[i] \in Elements(s)
  BY <1>1, <1>3 DEF Elements
<1>7. ASSUME NEW i \in 1..Len(s) + 1, NEW j \in 1..Len(s) + 1, r[i] = r[j]
      PROVE  i = j
  <2>1. CASE i \in 1..Len(s) /\ j \in 1..Len(s)
    BY <1>1, <1>3, <1>7, <2>1 DEF Distinct
  <2>2. CASE i = Len(s) + 1 \/ j = Len(s) + 1
    BY <1>3, <1>5, <1>6, <1>7, <2>2
  <2> QED
    BY <1>5, <2>1, <2>2
<1> QED
  BY <1>2, <1>4, <1>7 DEF Distinct

LEMMA DistinctTail ==
    ASSUME NEW s \in Seq(Messages), s # <<>>, Distinct(s)
    PROVE  Distinct(Tail(s)) /\ Head(s) \notin Elements(Tail(s))
<1>1. Len(s) \in Nat \ {0} /\ DOMAIN s = 1..Len(s)
  BY LenProperties, EmptySeq
<1>2. PICK r : r = Tail(s)
  OBVIOUS
<1>3. /\ Head(s) = s[1] /\ r \in Seq(Messages) /\ Len(r) = Len(s) - 1
      /\ \A i \in 1..Len(s) - 1 : r[i] = s[i + 1]
  BY <1>1, <1>2, HeadTailProperties
<1>4. DOMAIN r = 1..Len(s) - 1
  BY <1>3, LenProperties
<1>5. \A i \in 1..Len(s) - 1 : i + 1 \in DOMAIN s /\ i + 1 # 1 /\ 1 \in DOMAIN s
  BY <1>1
<1>6. Distinct(r)
  BY <1>3, <1>4, <1>5, SMTT(40) DEF Distinct
<1>7. Head(s) \notin Elements(r)
  BY <1>3, <1>4, <1>5, SMTT(40) DEF Distinct, Elements
<1> QED
  BY <1>2, <1>6, <1>7

(* A producer's call: one more message was logged.                         *)
LEMMA CallMoves ==
    ASSUME Typed, NEW p \in Producers, LogCall(p), NEW m, m = <<p, sent[p] + 1>>
    PROVE  /\ m \in Messages /\ m \notin Sent /\ Sent' = Sent \cup {m}
           /\ \/ InHand' = InHand \cup {m} /\ discarded' = discarded
              \/ InHand' = InHand /\ discarded' = discarded \cup {m}
<1>1. /\ ppc \in [Producers -> {"idle", "push", "sync"}] /\ sent \in [Producers -> 0..MaxMessages]
      /\ MaxMessages \in Nat /\ ppc[p] = "idle" /\ sent[p] < MaxMessages
      /\ sent' = [sent EXCEPT ![p] = @ + 1]
  BY BoundAssumption DEF Typed, TypeOK, LogCall
<1>2. m \in Messages
  BY <1>1 DEF Messages
<1>3. sent'[p] = sent[p] + 1 /\ \A q \in Producers \ {p} : sent'[q] = sent[q]
  BY <1>1
<1>4. m \notin Sent
  <2>1. m[1] = p /\ m[2] = sent[p] + 1
    OBVIOUS
  <2> QED
    BY <1>1, <2>1 DEF Sent
<1>5. \A x \in Messages : x \in Sent' <=> x \in Sent \/ x = m
  <2> SUFFICES ASSUME NEW x \in Messages
               PROVE  x[2] <= sent'[x[1]] <=> (x[2] <= sent[x[1]] \/ x = m)
    BY DEF Sent
  <2>1. x[1] \in Producers /\ x[2] \in 1..MaxMessages /\ x = <<x[1], x[2]>>
    BY DEF Messages
  <2>2. CASE x[1] # p
    BY <1>3, <2>1, <2>2
  <2>3. CASE x[1] = p
    <3>1. x[2] <= sent[p] + 1 <=> (x[2] <= sent[p] \/ x[2] = sent[p] + 1)
      BY <1>1, <2>1
    <3>2. x = m <=> x[2] = sent[p] + 1
      BY <2>1, <2>3
    <3> QED
      BY <1>3, <2>3, <3>1, <3>2
  <2> QED
    BY <2>2, <2>3
<1>6. Sent' = Sent \cup {m}
  BY <1>2, <1>5 DEF Sent
<1>7. CASE ppc' = [ppc EXCEPT ![p] = "push"] /\ discarded' = discarded
  <2>1. ppc'[p] = "push" /\ \A q \in Producers \ {p} : ppc'[q] = ppc[q]
    BY <1>1, <1>7
  <2>2. (LastOf(p))' = m /\ \A q \in Producers \ {p} : (LastOf(q))' = LastOf(q)
    BY <1>3 DEF LastOf
  <2>3. InHand' = InHand \cup {m}
    BY <1>1, <2>1, <2>2 DEF InHand
  <2> QED
    BY <1>2, <1>4, <1>6, <1>7, <2>3
<1>8. CASE ppc' = ppc /\ discarded' = discarded \cup {m}
  <2>1. \A q \in Producers \ {p} : (LastOf(q))' = LastOf(q)
    BY <1>3 DEF LastOf
  <2>2. InHand' = InHand
    BY <1>1, <1>8, <2>1 DEF InHand
  <2> QED
    BY <1>2, <1>4, <1>6, <1>8, <2>2
<1> QED
  BY <1>7, <1>8 DEF LogCall

(* A producer lets go of its message.                                      *)
LEMMA HandMoves ==
    ASSUME Typed, NEW p \in Producers, ppc[p] # "idle", UNCHANGED sent,
           ppc' = [ppc EXCEPT ![p] = "idle"]
    PROVE  /\ LastOf(p) \in InHand /\ LastOf(p) \in Messages
           /\ InHand' = InHand \ {LastOf(p)} /\ Sent' = Sent
<1>1. ppc \in [Producers -> {"idle", "push", "sync"}]
  BY DEF Typed, TypeOK
<1>2. ppc'[p] = "idle" /\ \A q \in Producers \ {p} : ppc'[q] = ppc[q]
  BY <1>1
<1>3. \A q \in Producers : (LastOf(q))' = LastOf(q)
  BY DEF LastOf
<1>4. \A q \in Producers \ {p} : LastOf(q) # LastOf(p)
  BY DEF LastOf
<1>5. InHand' = InHand \ {LastOf(p)}
  BY <1>2, <1>3, <1>4 DEF InHand
<1>6. LastOf(p) \in InHand /\ LastOf(p) \in Messages
  BY HeldMessage DEF InHand
<1> QED
  BY <1>5, <1>6 DEF Sent

LEMMA StepPlaces == Typed /\ PlaceInv /\ [Next]_vars => PlaceInv'
<1> SUFFICES ASSUME Typed, PlaceInv, [Next]_vars PROVE PlaceInv'
  OBVIOUS
<1>0. /\ queue \in Seq(Messages) /\ written \in Seq(Messages)
      /\ wmsg \in Messages \cup {NoMessage} /\ (wpc = "write") = (wmsg # NoMessage)
      /\ Distinct(queue) /\ Distinct(written)
      /\ Parts(Elements(queue), Elements(written), WithWorker, InHand, discarded, Sent)
  BY DEF Typed, TypeOK, PlaceInv
<1>1. CASE UNCHANGED <<queue, written, wmsg, ppc, sent, discarded>>
  BY <1>0, <1>1 DEF PlaceInv, Distinct, Elements, WithWorker, InHand, LastOf, Sent
<1>2. CASE \E p \in Producers : LogCall(p)
  <2>1. PICK p \in Producers : LogCall(p)
    BY <1>2
  <2>2. PICK m : m = <<p, sent[p] + 1>>
    OBVIOUS
  <2>3. /\ m \notin Sent /\ Sent' = Sent \cup {m}
        /\ \/ InHand' = InHand \cup {m} /\ discarded' = discarded
           \/ InHand' = InHand /\ discarded' = discarded \cup {m}
    BY <2>1, <2>2, CallMoves
  <2>4. UNCHANGED <<queue, written, wmsg>>
    BY <2>1 DEF LogCall
  <2>5. /\ Elements(queue)' = Elements(queue) /\ Elements(written)' = Elements(written)
        /\ WithWorker' = WithWorker /\ Distinct(queue)' /\ Distinct(written)'
    BY <1>0, <2>4 DEF Elements, WithWorker, Distinct
  <2>6. Parts(Elements(queue), Elements(written), WithWorker, InHand, discarded, Sent)'
    BY <1>0, <2>3, <2>5 DEF Parts
  <2> QED
    BY <2>5, <2>6 DEF PlaceInv
<1>3. CASE \E p \in Producers : Push(p) \/ SyncWrite(p)
  <2>1. PICK p \in Producers : Push(p) \/ SyncWrite(p)
    BY <1>3
  <2>2. PICK m : m = LastOf(p)
    OBVIOUS
  <2>3. /\ m \in InHand /\ m \in Messages /\ InHand' = InHand \ {m} /\ Sent' = Sent
    <3>1. ppc[p] # "idle" /\ sent' = sent /\ ppc' = [ppc EXCEPT ![p] = "idle"]
      BY <2>1 DEF Push, SyncWrite
    <3> QED
      BY <2>2, <3>1, HandMoves
  <2>4. m \notin Elements(queue) /\ m \notin Elements(written)
    BY <1>0, <2>3 DEF Parts
  <2>5. UNCHANGED <<wmsg, discarded>> /\ WithWorker' = WithWorker
    BY <2>1 DEF Push, SyncWrite, WithWorker
  <2>6. CASE Push(p)
    <3>1. queue' = Append(queue, m) /\ written' = written
      BY <2>2, <2>6 DEF Push, Link
    <3>2. Distinct(queue') /\ Elements(queue') = Elements(queue) \cup {m}
      BY <1>0, <2>3, <2>4, <3>1, DistinctAppend, ElementsAppend
    <3>3. Parts(Elements(queue'), Elements(written), WithWorker, InHand', discarded, Sent)
      BY <1>0, <2>3, <3>2 DEF Parts
    <3> QED
      BY <1>0, <2>3, <2>5, <3>1, <3>2, <3>3 DEF PlaceInv
  <2>7. CASE SyncWrite(p)
    <3>1. written' = Append(written, m) /\ queue' = queue
      BY <2>2, <2>7 DEF SyncWrite
    <3>2. Distinct(written') /\ Elements(written') = Elements(written) \cup {m}
      BY <1>0, <2>3, <2>4, <3>1, DistinctAppend, ElementsAppend
    <3>3. Parts(Elements(queue), Elements(written'), WithWorker, InHand', discarded, Sent)
      BY <1>0, <2>3, <3>2 DEF Parts
    <3> QED
      BY <1>0, <2>3, <2>5, <3>1, <3>2, <3>3 DEF PlaceInv
  <2> QED
    BY <2>1, <2>6, <2>7
<1>4. CASE \E p \in Producers : PushFull(p)
  <2>1. PICK p \in Producers : PushFull(p)
    BY <1>4
  <2>2. /\ UNCHANGED <<queue, written, wmsg, sent, discarded>>
        /\ ppc' = [ppc EXCEPT ![p] = "sync"] /\ ppc[p] = "push"
    BY <2>1 DEF PushFull
  <2>3. \A q \in Producers : ppc'[q] # "idle" <=> ppc[q] # "idle"
    BY <2>2 DEF Typed, TypeOK
  <2>4. InHand' = InHand
    BY <2>2, <2>3 DEF InHand, LastOf
  <2> QED
    BY <1>0, <2>2, <2>4 DEF PlaceInv, Distinct, Elements, WithWorker, Sent
<1>5. CASE WorkerPop
  <2>1. /\ queue # <<>> /\ wmsg' = Head(queue) /\ queue' = Tail(queue) /\ wmsg = NoMessage
        /\ UNCHANGED <<written, ppc, sent, discarded>>
    BY <1>0, <1>5 DEF WorkerPop
  <2>2. /\ Distinct(queue') /\ wmsg' \notin Elements(queue')
        /\ Elements(queue) = {wmsg'} \cup Elements(queue') /\ wmsg' \in Messages
    BY <1>0, <2>1, DistinctTail, ElementsTail
  <2>3. WithWorker = {} /\ WithWorker' = {wmsg'}
    BY <2>1, <2>2, NoMessageIsNone DEF WithWorker
  <2>4. InHand' = InHand /\ Sent' = Sent
    BY <2>1 DEF InHand, LastOf, Sent
  <2>5. Parts(Elements(queue'), Elements(written), WithWorker', InHand, discarded, Sent)
    BY <1>0, <2>2, <2>3 DEF Parts
  <2> QED
    BY <1>0, <2>1, <2>2, <2>4, <2>5 DEF PlaceInv
<1>6. CASE WorkerWrite
  <2>1. PICK m : m = wmsg
    OBVIOUS
  <2>2. /\ m \in Messages /\ wmsg' = NoMessage /\ written' = Append(written, m)
        /\ UNCHANGED <<queue, ppc, sent, discarded>>
    BY <1>0, <1>6, <2>1 DEF WorkerWrite
  <2>3. WithWorker = {m} /\ WithWorker' = {}
    BY <2>1, <2>2, NoMessageIsNone DEF WithWorker
  <2>4. m \notin Elements(written)
    BY <1>0, <2>3 DEF Parts
  <2>5. Distinct(written') /\ Elements(written') = Elements(written) \cup {m}
    BY <1>0, <2>2, <2>4, DistinctAppend, ElementsAppend
  <2>6. InHand' = InHand /\ Sent' = Sent
    BY <2>2 DEF InHand, LastOf, Sent
  <2>7. Parts(Elements(queue), Elements(written'), WithWorker', InHand, discarded, Sent)
    BY <1>0, <2>3, <2>5 DEF Parts
  <2> QED
    BY <1>0, <2>2, <2>5, <2>6, <2>7 DEF PlaceInv
<1>7. CASE StopJoined \/ Cleanup
  <2>1. /\ queue' = <<>> /\ discarded' = discarded \cup Elements(queue)
        /\ UNCHANGED <<written, wmsg, ppc, sent>>
    BY <1>7 DEF StopJoined, Cleanup
  <2>2. Elements(queue') = {} /\ Distinct(queue')
    BY <2>1, ElementsEmpty DEF Distinct
  <2>3. InHand' = InHand /\ Sent' = Sent /\ WithWorker' = WithWorker
    BY <2>1 DEF InHand, LastOf, Sent, WithWorker
  <2>4. Parts(Elements(queue'), Elements(written), WithWorker, InHand, discarded', Sent)
    BY <1>0, <2>1, <2>2 DEF Parts
  <2> QED
    BY <1>0, <2>1, <2>2, <2>3, <2>4 DEF PlaceInv
<1>8. CASE WorkerCheck \/ WorkerPopEmpty \/ WorkerSleep \/ SpuriousWake \/ FlushCall \/ FlushReturn
  BY <1>1, <1>8 DEF WorkerCheck, WorkerPopEmpty, WorkerSleep, SpuriousWake, FlushCall, FlushReturn
<1>9. CASE ModuleInit \/ Start \/ StartFails \/ StopFlag \/ StopSignal
  BY <1>1, <1>9 DEF ModuleInit, Start, StartFails, StopFlag, StopSignal
<1>10. CASE \E n \in QueueSizes, b \in AsyncModes : SetConfig(n, b)
  BY <1>1, <1>10 DEF SetConfig
<1>11. CASE UNCHANGED vars
  BY <1>1, <1>11 DEF vars
<1> QED
  BY <1>2, <1>3, <1>4, <1>5, <1>6, <1>7, <1>8, <1>9, <1>10, <1>11 DEF Next, WorkerStep

LEMMA InitPlaces == Init => PlaceInv
<1> SUFFICES ASSUME Init PROVE PlaceInv
  OBVIOUS
<1>1. /\ Elements(queue) = {} /\ Elements(written) = {} /\ Distinct(queue) /\ Distinct(written)
      /\ discarded = {}
  BY ElementsEmpty DEF Init, Distinct
<1>2. WithWorker = {} /\ InHand = {}
  BY NoMessageIsNone DEF Init, WithWorker, InHand
<1>3. Sent = {}
  <2> SUFFICES ASSUME NEW m \in Messages PROVE ~(m[2] <= sent[m[1]])
    BY DEF Sent
  <2>1. m[1] \in Producers /\ m[2] \in 1..MaxMessages
    BY DEF Messages
  <2> QED
    BY <2>1, BoundAssumption DEF Init
<1> QED
  BY <1>1, <1>2, <1>3 DEF PlaceInv, Parts

(* How often a message is in a sequence.                                   *)
LEMMA CountOf ==
    ASSUME NEW s, Distinct(s), NEW m
    PROVE  Cardinality({n \in DOMAIN s : s[n] = m}) = IF m \in Elements(s) THEN 1 ELSE 0
<1>1. CASE m \in Elements(s)
  <2>1. PICK k \in DOMAIN s : s[k] = m
    BY <1>1 DEF Elements
  <2>2. {n \in DOMAIN s : s[n] = m} = {k}
    BY <2>1 DEF Distinct
  <2> QED
    BY <1>1, <2>2, FS_Singleton
<1>2. CASE m \notin Elements(s)
  <2>1. {n \in DOMAIN s : s[n] = m} = {}
    BY <1>2 DEF Elements
  <2> QED
    BY <1>2, <2>1, FS_EmptySet
<1> QED
  BY <1>1, <1>2

LEMMA CountIn ==
    ASSUME NEW m, NEW S
    PROVE  Cardinality({m} \cap S) = IF m \in S THEN 1 ELSE 0
<1>1. CASE m \in S
  <2>1. {m} \cap S = {m}
    BY <1>1
  <2> QED
    BY <1>1, <2>1, FS_Singleton
<1>2. CASE m \notin S
  <2>1. {m} \cap S = {}
    BY <1>2
  <2> QED
    BY <1>2, <2>1, FS_EmptySet
<1> QED
  BY <1>1, <1>2

LEMMA PlacesCounted == PlaceInv => NoneLostOrDoubled
<1> SUFFICES ASSUME PlaceInv, NEW m \in Messages
             PROVE  Cardinality({n \in DOMAIN queue : queue[n] = m})
                    + Cardinality({n \in DOMAIN written : written[n] = m})
                    + Cardinality({m} \cap {wmsg}) + Cardinality({m} \cap InHand)
                    + Cardinality({m} \cap discarded)
                    = IF m \in Sent THEN 1 ELSE 0
  BY DEF NoneLostOrDoubled
<1> DEFINE Q == m \in Elements(queue)
           W == m \in Elements(written)
           H == m \in {wmsg}
           I == m \in InHand
           D == m \in discarded
<1>1. /\ Cardinality({n \in DOMAIN queue : queue[n] = m}) = IF Q THEN 1 ELSE 0
      /\ Cardinality({n \in DOMAIN written : written[n] = m}) = IF W THEN 1 ELSE 0
  BY CountOf DEF PlaceInv
<1>2. /\ Cardinality({m} \cap {wmsg}) = IF H THEN 1 ELSE 0
      /\ Cardinality({m} \cap InHand) = IF I THEN 1 ELSE 0
      /\ Cardinality({m} \cap discarded) = IF D THEN 1 ELSE 0
  BY CountIn
<1>3. /\ ~(Q /\ W) /\ ~(Q /\ H) /\ ~(Q /\ I) /\ ~(Q /\ D) /\ ~(W /\ H) /\ ~(W /\ I)
      /\ ~(W /\ D) /\ ~(H /\ I) /\ ~(H /\ D) /\ ~(I /\ D)
      /\ m \in Sent <=> Q \/ W \/ H \/ I \/ D
  BY DEF PlaceInv, Parts, WithWorker
<1> HIDE DEF Q, W, H, I, D
<1> QED
  BY <1>1, <1>2, <1>3

-----------------------------------------------------------------------------
(***************************************************************************)
(* The order of the queue.  Before init nothing was pushed.                *)
(***************************************************************************)

FifoInv ==
    /\ data = "null" => pushed = <<>> /\ queue = <<>>
    /\ data = "live" /\ state # "STOPPED" => Done \in Nat
    /\ QueueFifo

(* What an element of a sequence is after Append.                          *)
LEMMA AppendIndices ==
    ASSUME NEW s \in Seq(Messages), NEW m \in Messages, NEW r, r = Append(s, m)
    PROVE  /\ Len(s) \in Nat /\ DOMAIN s = 1..Len(s) /\ Len(r) = Len(s) + 1
           /\ DOMAIN r = 1..(Len(s) + 1)
           /\ \A i \in 1..Len(s) : r[i] = s[i]
           /\ r[Len(s) + 1] = m
<1>1. Len(s) \in Nat /\ DOMAIN s = 1..Len(s)
  BY LenProperties
<1>2. /\ r \in Seq(Messages) /\ Len(r) = Len(s) + 1 /\ r[Len(s) + 1] = m
      /\ \A i \in 1..Len(s) : r[i] = s[i]
  BY AppendProperties
<1>3. DOMAIN r = 1..(Len(s) + 1)
  BY <1>2, LenProperties
<1> QED
  BY <1>1, <1>2, <1>3

(* A message is pushed.                                                    *)
LEMMA PushFifo ==
    ASSUME Typed, QueueFifo, data = "live", state # "STOPPED", Done \in Nat,
           NEW m \in Messages, queue' = Append(queue, m), pushed' = Append(pushed, m),
           UNCHANGED <<data, state, wmsg, written>>
    PROVE  QueueFifo' /\ Done' \in Nat
<1> DEFINE q == queue
           s == pushed
           h == IF wmsg = NoMessage THEN 0 ELSE 1
<1>1. q \in Seq(Messages) /\ s \in Seq(Messages)
  BY DEF Typed, TypeOK
<1>2. /\ Len(q) \in Nat /\ DOMAIN q = 1..Len(q) /\ Len(queue') = Len(q) + 1
      /\ DOMAIN queue' = 1..(Len(q) + 1) /\ queue'[Len(q) + 1] = m
      /\ \A i \in 1..Len(q) : queue'[i] = q[i]
  BY <1>1, AppendIndices
<1>3. /\ Len(s) \in Nat /\ Len(pushed') = Len(s) + 1 /\ pushed'[Len(s) + 1] = m
      /\ \A i \in 1..Len(s) : pushed'[i] = s[i]
  BY <1>1, AppendIndices
<1>4. h \in {0, 1} /\ Done = Len(s) - Len(q) - h /\ Done' = Len(pushed') - Len(queue') - h
  BY DEF Done
<1>5. Done' = Done
  BY <1>2, <1>3, <1>4
<1>6. \A i \in DOMAIN queue' : queue'[i] = pushed'[Len(pushed') - Len(queue') + i]
  <2>0. Len(pushed') - Len(queue') = Len(s) - Len(q)
    BY <1>2, <1>3
  <2>1. ASSUME NEW i \in 1..(Len(q) + 1)
        PROVE  queue'[i] = pushed'[Len(s) - Len(q) + i]
    <3>1. CASE i = Len(q) + 1
      BY <1>2, <1>3, <3>1
    <3>2. CASE i \in 1..Len(q)
      <4>1. q[i] = s[Len(s) - Len(q) + i]
        BY <1>2, <3>2 DEF QueueFifo
      <4>2. Len(s) - Len(q) + i \in 1..Len(s)
        BY <1>2, <1>3, <1>4, <3>2
      <4> QED
        BY <1>2, <1>3, <3>2, <4>1, <4>2
    <3>3. i = Len(q) + 1 \/ i \in 1..Len(q)
      BY ONLY <1>2, i \in 1..(Len(q) + 1)
    <3> QED
      BY ONLY <3>1, <3>2, <3>3
  <2>2. DOMAIN queue' = 1..(Len(q) + 1)
    BY <1>2
  <2>3. PICK k : k = Len(s) - Len(q)
    OBVIOUS
  <2>4. \A i \in DOMAIN queue' : queue'[i] = pushed'[k + i]
    BY ONLY <2>1, <2>2, <2>3
  <2> QED
    BY ONLY <2>0, <2>3, <2>4
<1>7. \A i \in 1..Done : i \in 1..Len(s)
  BY <1>2, <1>3, <1>4
<1>8. wmsg # NoMessage => wmsg = pushed'[Done + 1]
  <2>1. wmsg # NoMessage => Done + 1 \in 1..Len(s)
    BY <1>2, <1>3, <1>4
  <2> QED
    BY <1>3, <2>1 DEF QueueFifo
<1>9. /\ \A i \in 1..Done : pushed'[i] \in Elements(written)
      /\ \A i, j \in 1..Done : \A k, l \in DOMAIN written :
            i < j /\ pushed'[i] = written[k] /\ pushed'[j] = written[l] => k < l
  BY <1>3, <1>7 DEF QueueFifo
<1>10. Elements(written)' = Elements(written)
  BY DEF Elements
<1> QED
  BY <1>5, <1>6, <1>8, <1>9, <1>10 DEF QueueFifo

(* A line is written that is not one of the messages that left the queue.  *)
LEMMA SyncFifo ==
    ASSUME Typed, QueueFifo, data = "live", state # "STOPPED", Done \in Nat,
           NEW m \in Messages, m \notin Elements(written), written' = Append(written, m),
           UNCHANGED <<data, state, wmsg, queue, pushed>>
    PROVE  QueueFifo' /\ Done' \in Nat
<1>1. Done' = Done
  BY DEF Done
<1>2. written \in Seq(Messages)
  BY DEF Typed, TypeOK
<1>3. /\ Len(written) \in Nat /\ DOMAIN written = 1..Len(written)
      /\ DOMAIN written' = 1..(Len(written) + 1) /\ written'[Len(written) + 1] = m
      /\ \A i \in 1..Len(written) : written'[i] = written[i]
  BY <1>2, AppendIndices
<1>4. Elements(written') = Elements(written) \cup {m}
  BY <1>2, ElementsAppend
<1>5. \A i \in 1..Done : pushed[i] \in Elements(written) /\ pushed[i] # m
  BY DEF QueueFifo
<1>6. \A i \in 1..Done : \A k \in DOMAIN written' :
         pushed[i] = written'[k] => k \in DOMAIN written /\ pushed[i] = written[k]
  <2> SUFFICES ASSUME NEW i \in 1..Done, NEW k \in 1..(Len(written) + 1), pushed[i] = written'[k]
               PROVE  k \in DOMAIN written /\ pushed[i] = written[k]
    BY <1>3
  <2>1. k # Len(written) + 1
    BY <1>3, <1>5
  <2> QED
    BY <1>3, <2>1
<1>7. \A i, j \in 1..Done : \A k, l \in DOMAIN written' :
         i < j /\ pushed[i] = written'[k] /\ pushed[j] = written'[l] => k < l
  BY <1>6 DEF QueueFifo
<1> QED
  BY <1>1, <1>4, <1>5, <1>7 DEF QueueFifo

(* The worker takes the head of the queue.                                 *)
LEMMA PopFifo ==
    ASSUME Typed, QueueFifo, data = "live", state # "STOPPED", Done \in Nat,
           wmsg = NoMessage, queue # <<>>, wmsg' = Head(queue), queue' = Tail(queue),
           UNCHANGED <<data, state, written, pushed>>
    PROVE  QueueFifo' /\ Done' \in Nat
<1>1. queue \in Seq(Messages) /\ pushed \in Seq(Messages)
  BY DEF Typed, TypeOK
<1>2. wmsg' # NoMessage
  BY <1>1, ElementsTail, NoMessageIsNone
<1>3. /\ Len(queue) \in Nat \ {0} /\ DOMAIN queue = 1..Len(queue) /\ Len(pushed) \in Nat
      /\ Head(queue) = queue[1] /\ Len(queue') = Len(queue) - 1
      /\ DOMAIN queue' = 1..(Len(queue) - 1)
      /\ \A i \in 1..(Len(queue) - 1) : queue'[i] = queue[i + 1]
  BY <1>1, LenProperties, EmptySeq, HeadTailProperties
<1>4. Done = Len(pushed) - Len(queue) /\ Done' = Len(pushed) - Len(queue') - 1 /\ Done' = Done
  BY <1>2, <1>3 DEF Done
<1>5. \A i \in DOMAIN queue' : queue'[i] = pushed'[Len(pushed') - Len(queue') + i]
  <2> SUFFICES ASSUME NEW i \in 1..(Len(queue) - 1)
               PROVE  queue[i + 1] = pushed[Len(pushed) - (Len(queue) - 1) + i]
    BY <1>3
  <2>1. /\ i + 1 \in DOMAIN queue
        /\ Len(pushed) - Len(queue) + (i + 1) = Len(pushed) - (Len(queue) - 1) + i
    BY <1>3
  <2>2. queue[i + 1] = pushed[Len(pushed) - Len(queue) + (i + 1)]
    BY <2>1 DEF QueueFifo
  <2> QED
    BY <2>1, <2>2
<1>6. wmsg' = pushed[Done + 1]
  <2>1. 1 \in DOMAIN queue
    BY <1>3
  <2>2. queue[1] = pushed[Len(pushed) - Len(queue) + 1]
    BY <2>1 DEF QueueFifo
  <2> QED
    BY <1>3, <1>4, <2>2
<1>7. Elements(written)' = Elements(written)
  BY DEF Elements
<1> QED
  BY <1>4, <1>5, <1>6, <1>7 DEF QueueFifo

(* The worker writes what it has taken.                                    *)
LEMMA WriteFifo ==
    ASSUME Typed, QueueFifo, data = "live", state # "STOPPED", Done \in Nat,
           NEW m \in Messages, m = wmsg, m \notin Elements(written),
           written' = Append(written, m), wmsg' = NoMessage,
           UNCHANGED <<data, state, queue, pushed>>
    PROVE  QueueFifo' /\ Done' \in Nat
<1>1. queue \in Seq(Messages) /\ pushed \in Seq(Messages) /\ written \in Seq(Messages)
  BY DEF Typed, TypeOK
<1>2. Len(queue) \in Nat /\ Len(pushed) \in Nat /\ m # NoMessage
  BY <1>1, LenProperties, NoMessageIsNone
<1>3. Done = Len(pushed) - Len(queue) - 1 /\ Done' = Len(pushed) - Len(queue) - 0
  BY <1>2 DEF Done
<1>4. Done' = Done + 1
  BY <1>2, <1>3
<1>5. pushed[Done + 1] = m
  BY <1>2 DEF QueueFifo
<1>6. /\ Len(written) \in Nat /\ DOMAIN written = 1..Len(written)
      /\ DOMAIN written' = 1..(Len(written) + 1) /\ written'[Len(written) + 1] = m
      /\ \A i \in 1..Len(written) : written'[i] = written[i]
  BY <1>1, AppendIndices
<1>7. Elements(written') = Elements(written) \cup {m}
  BY <1>1, ElementsAppend
<1>8. \A i \in 1..(Done + 1) : i \in 1..Done \/ i = Done + 1
  OBVIOUS
<1>9. \A i \in 1..Done : pushed[i] \in Elements(written) /\ pushed[i] # m
  BY DEF QueueFifo
<1>10. \A i \in 1..Done : \A k \in DOMAIN written' :
          pushed[i] = written'[k] => k \in DOMAIN written /\ pushed[i] = written[k]
  <2> SUFFICES ASSUME NEW i \in 1..Done, NEW k \in 1..(Len(written) + 1), pushed[i] = written'[k]
               PROVE  k \in DOMAIN written /\ pushed[i] = written[k]
    BY <1>6
  <2>1. k # Len(written) + 1
    BY <1>6, <1>9
  <2> QED
    BY <1>6, <2>1
<1>11. \A k \in DOMAIN written' : written'[k] = m => k = Len(written) + 1
  <2> SUFFICES ASSUME NEW k \in 1..(Len(written) + 1), k # Len(written) + 1
               PROVE  written'[k] # m
    BY <1>6
  <2>1. k \in DOMAIN written /\ written'[k] = written[k]
    BY <1>6
  <2> QED
    BY <2>1 DEF Elements
<1>12. ASSUME NEW i \in 1..(Done + 1), NEW j \in 1..(Done + 1),
              NEW k \in DOMAIN written', NEW l \in DOMAIN written',
              i < j, pushed[i] = written'[k], pushed[j] = written'[l]
       PROVE  k < l
  <2>1. i \in 1..Done
    BY <1>12
  <2>2. k \in DOMAIN written /\ pushed[i] = written[k]
    BY <1>10, <1>12, <2>1
  <2>3. CASE j \in 1..Done
    <3>1. l \in DOMAIN written /\ pushed[j] = written[l]
      BY <1>10, <1>12, <2>3
    <3> QED
      BY <1>12, <2>1, <2>2, <2>3, <3>1 DEF QueueFifo
  <2>4. CASE j = Done + 1
    <3>1. l = Len(written) + 1
      BY <1>5, <1>11, <1>12, <2>4
    <3> QED
      BY <1>6, <2>2, <3>1
  <2> QED
    BY <1>8, <2>3, <2>4
<1>13. \A i \in 1..(Done + 1) : pushed[i] \in Elements(written')
  BY <1>5, <1>7, <1>8, <1>9
<1>14. \A i \in DOMAIN queue : queue[i] = pushed[Len(pushed) - Len(queue) + i]
  BY DEF QueueFifo
<1> QED
  BY <1>4, <1>12, <1>13, <1>14 DEF QueueFifo

LEMMA StepFifo == Typed /\ Life /\ PlaceInv /\ FifoInv /\ [Next]_vars => FifoInv'
<1> SUFFICES ASSUME Typed, Life, PlaceInv, FifoInv, [Next]_vars PROVE FifoInv'
  OBVIOUS
<1>0. /\ wmsg \in Messages \cup {NoMessage} /\ (wpc = "write") = (wmsg # NoMessage)
      /\ Parts(Elements(queue), Elements(written), WithWorker, InHand, discarded, Sent)
      /\ (data = "null" => pushed = <<>> /\ queue = <<>>)
      /\ (data = "live" /\ state # "STOPPED" => Done \in Nat) /\ QueueFifo
  BY DEF Typed, TypeOK, PlaceInv, FifoInv
<1>1. CASE /\ UNCHANGED <<queue, written, wmsg, pushed>>
           /\ data' = "live" /\ state' # "STOPPED" => data = "live" /\ state # "STOPPED"
           /\ data' = "null" => data = "null"
  BY <1>0, <1>1 DEF FifoInv, QueueFifo, Done, Elements
<1>2. CASE \E p \in Producers : Push(p)
  <2>1. PICK p \in Producers : Push(p)
    BY <1>2
  <2>2. PICK m \in Messages : m = LastOf(p)
    BY <2>1, HeldMessage DEF Push
  <2>3. /\ queue' = Append(queue, m) /\ pushed' = Append(pushed, m)
        /\ UNCHANGED <<data, state, wmsg, written>> /\ data = "live"
    BY <2>1, <2>2 DEF Push, Link
  <2>4. CASE state # "STOPPED"
    BY <1>0, <2>3, <2>4, PushFifo DEF FifoInv
  <2>5. CASE state = "STOPPED"
    BY <2>3, <2>5 DEF FifoInv, QueueFifo
  <2> QED
    BY <2>4, <2>5
<1>3. CASE \E p \in Producers : SyncWrite(p)
  <2>1. PICK p \in Producers : SyncWrite(p)
    BY <1>3
  <2>2. PICK m \in Messages : m = LastOf(p)
    BY <2>1, HeldMessage DEF SyncWrite
  <2>3. /\ written' = Append(written, m)
        /\ UNCHANGED <<data, state, wmsg, queue, pushed>>
    BY <2>1, <2>2 DEF SyncWrite
  <2>4. m \notin Elements(written)
    <3>1. m \in InHand
      BY <2>1, <2>2 DEF SyncWrite, InHand
    <3> QED
      BY <1>0, <3>1 DEF Parts
  <2>5. CASE data = "live" /\ state # "STOPPED"
    BY <1>0, <2>3, <2>4, <2>5, SyncFifo DEF FifoInv
  <2>6. CASE ~(data = "live" /\ state # "STOPPED")
    BY <1>0, <2>3, <2>6 DEF FifoInv, QueueFifo
  <2> QED
    BY <2>5, <2>6
<1>4. CASE WorkerPop
  <2>1. /\ queue # <<>> /\ wmsg' = Head(queue) /\ queue' = Tail(queue) /\ wmsg = NoMessage
        /\ UNCHANGED <<data, state, written, pushed>>
    BY <1>0, <1>4 DEF WorkerPop
  <2>2. CASE data = "live" /\ state # "STOPPED"
    BY <1>0, <2>1, <2>2, PopFifo DEF FifoInv
  <2>3. CASE ~(data = "live" /\ state # "STOPPED")
    BY <1>0, <2>1, <2>3 DEF FifoInv, QueueFifo
  <2> QED
    BY <2>2, <2>3
<1>5. CASE WorkerWrite
  <2>1. PICK m \in Messages : m = wmsg
    BY <1>0, <1>5 DEF WorkerWrite
  <2>2. /\ wmsg' = NoMessage /\ written' = Append(written, m)
        /\ UNCHANGED <<data, state, queue, pushed>>
    BY <1>5, <2>1 DEF WorkerWrite
  <2>3. m \notin Elements(written)
    BY <1>0, <2>1 DEF Parts, WithWorker
  <2>4. CASE data = "live" /\ state # "STOPPED"
    BY <1>0, <2>1, <2>2, <2>3, <2>4, WriteFifo DEF FifoInv
  <2>5. CASE ~(data = "live" /\ state # "STOPPED")
    BY <1>0, <2>2, <2>5 DEF FifoInv, QueueFifo
  <2> QED
    BY <2>4, <2>5
<1>6. CASE StopJoined \/ Cleanup
  <2>1. /\ queue' = <<>> /\ pushed' = pushed
        /\ \/ state' = "STOPPED" /\ data' = data
           \/ data' = "freed"
    BY <1>6 DEF StopJoined, Cleanup
  <2> QED
    BY <1>0, <2>1 DEF FifoInv, QueueFifo
<1>7. CASE ModuleInit
  <2>1. /\ pushed = <<>> /\ queue = <<>> /\ wmsg = NoMessage
        /\ UNCHANGED <<queue, written, wmsg, pushed>>
    BY <1>0, <1>7 DEF ModuleInit, Life
  <2>2. Len(pushed') = 0 /\ Len(queue') = 0 /\ DOMAIN queue' = {} /\ wmsg' = NoMessage
    BY <2>1
  <2>3. Done' = 0
    BY <2>2 DEF Done
  <2>4. 1..0 = {}
    OBVIOUS
  <2>5. QueueFifo'
    BY <2>2, <2>3, <2>4 DEF QueueFifo
  <2> QED
    BY <2>1, <2>3, <2>5 DEF FifoInv
<1>8. CASE \E p \in Producers : LogCall(p) \/ PushFull(p)
  BY <1>1, <1>8 DEF LogCall, PushFull
<1>9. CASE WorkerCheck \/ WorkerPopEmpty \/ WorkerSleep \/ SpuriousWake \/ FlushCall \/ FlushReturn
  BY <1>1, <1>9 DEF WorkerCheck, WorkerPopEmpty, WorkerSleep, SpuriousWake, FlushCall, FlushReturn
<1>10. CASE Start \/ StartFails \/ StopFlag \/ StopSignal
  BY <1>1, <1>10 DEF Start, StartFails, StopFlag, StopSignal
<1>11. CASE \E n \in QueueSizes, b \in AsyncModes : SetConfig(n, b)
  BY <1>1, <1>11 DEF SetConfig
<1>12. CASE UNCHANGED vars
  BY <1>1, <1>12 DEF vars
<1> QED
  BY <1>2, <1>3, <1>4, <1>5, <1>6, <1>7, <1>8, <1>9, <1>10, <1>11, <1>12 DEF Next, WorkerStep

(* log_internal_async, log_queue_push, log_queue_pop, log_internal_sync    *)
(* and stop: every message that was logged is in one place, and written at *)
(* most once, for any number of producers and queue sizes, whatever fails. *)
THEOREM PlacesCorrect == Spec => []NoneLostOrDoubled
<1>1. Spec => [](Typed /\ Life)
  BY InitTyped, StepTyped, StepLife, PTL DEF Spec
<1> QED
  BY <1>1, InitPlaces, StepPlaces, PlacesCounted, PTL DEF Spec

(* log_queue_push and log_queue_pop: what goes through the queue is        *)
(* written in the order it went in, with lines of full-queue callers in    *)
(* between.                                                                *)
THEOREM FifoCorrect == Spec => []QueueFifo
<1>1. Spec => [](Typed /\ Life)
  BY InitTyped, StepTyped, StepLife, PTL DEF Spec
<1>2. Spec => []PlaceInv
  BY <1>1, InitPlaces, StepPlaces, PTL DEF Spec
<1>3. Init => FifoInv
  BY DEF Init, FifoInv, QueueFifo
<1>4. FifoInv => QueueFifo
  BY DEF FifoInv
<1> QED
  BY <1>1, <1>2, <1>3, <1>4, StepFifo, PTL DEF Spec

(* The types of the module's state; the worker has a message in hand       *)
(* exactly while it writes one.                                            *)
THEOREM TypeCorrect == Spec => []TypeOK
<1>1. Typed => TypeOK
  BY DEF Typed
<1> QED
  BY <1>1, InitTyped, StepTyped, StepLife, PTL DEF Spec
=============================================================================
