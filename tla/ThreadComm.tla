----------------------------- MODULE ThreadComm -----------------------------
(***************************************************************************)
(* The messages between threads of src/src/thread/thread_comm_module.c:    *)
(* the table of registered threads, one priority queue per thread, and     *)
(* the receivers that wait for a message with global_mutex released.       *)
(*                                                                         *)
(* A function that takes global_mutex once and gives it back is one step.  *)
(* cleanup, broadcast and get_all_threads call, with the mutex held, a     *)
(* function that locks it again: the caller then sleeps for ever and owns  *)
(* the mutex.  clear, create_message_queue and destroy_message_queue take  *)
(* no lock: every test and every change they make is a step.  What the     *)
(* code leaves undefined (a NULL or freed queue, a destroyed condition     *)
(* variable somebody waits on, freed tables, an uninitialised pointer that *)
(* is freed) is a fault, after which nothing is said.  The statistics are  *)
(* left out.                                                               *)
(***************************************************************************)
EXTENDS Integers, Sequences, FiniteSets

CONSTANTS
    Callers, NoCaller,   \* threads of the program that call the module
    MaxThreads,          \* config.max_threads, the length of threads[]
    MaxQueueSize,        \* config.max_queue_size
    QueueSizes,          \* the sizes that callers ask create_message_queue for
    Priorities,          \* thread_priority_t
    MaxRegistrations,    \* bound: calls of generate_thread_id
    MaxSends,            \* bound: messages accepted
    AllocMayFail         \* environment: malloc may return NULL

ASSUME CallersAssumption == NoCaller \notin Callers /\ IsFiniteSet(Callers)
ASSUME SizesAssumption ==
    /\ MaxThreads \in Nat \ {0} /\ MaxQueueSize \in Nat \ {0}
    /\ MaxRegistrations \in Nat /\ MaxSends \in Nat
ASSUME QueueSizesAssumption == QueueSizes \subseteq Nat
ASSUME PrioritiesAssumption == Priorities \subseteq Nat /\ AllocMayFail \in BOOLEAN

Slots == 1..MaxThreads
Ids == 1..MaxRegistrations
Messages == [seq : 1..MaxSends, to : Ids, priority : Priorities]

VARIABLES
    initialized,
    owner,                \* of global_mutex, while it sleeps in a second lock
    counter,              \* static counter of generate_thread_id
    thread_id,            \* threads[i].thread_id, 0 when it is not registered
    has_queue,            \* threads[i].msg_queue is not NULL
    queue,                \* the list from its head; its length is queue->size
    max_size,             \* queue->max_size
    stale,                \* the nodes of the queue are freed, the queue is not yet
    active_thread_count,
    pc,                   \* per caller: what it is doing
    slot,                 \* per caller: the table entry it points to
    asked,                \* per caller: the id it receives for
    fault,                \* undefined behaviour reached
    sent,                 \* history: number of messages accepted
    received,             \* history: [msg, by] that receive handed out
    discarded,            \* history: messages freed with their queue
    exposed,              \* history: accepted while somebody replaced the queue
    leaked                \* history: left in a queue that was freed

table == <<initialized, owner, counter, thread_id, has_queue, active_thread_count>>
queues == <<queue, max_size, stale>>
calls == <<pc, slot, asked>>
history == <<sent, received, discarded, exposed, leaked>>
vars == <<initialized, owner, counter, thread_id, has_queue, active_thread_count, queue,
          max_size, stale, pc, slot, asked, fault, sent, received, discarded, exposed,
          leaked>>

Init ==
    /\ initialized = FALSE /\ owner = NoCaller /\ counter = 0
    /\ thread_id = [s \in Slots |-> 0] /\ has_queue = [s \in Slots |-> FALSE]
    /\ queue = [s \in Slots |-> <<>>] /\ active_thread_count = 0
    /\ max_size = [s \in Slots |-> MaxQueueSize] /\ stale = [s \in Slots |-> FALSE]
    /\ pc = [c \in Callers |-> "idle"] /\ slot = [c \in Callers |-> 1]
    /\ asked = [c \in Callers |-> 0]
    /\ fault = "none" /\ sent = 0 /\ received = {} /\ discarded = {}
    /\ exposed = {} /\ leaked = {}

-----------------------------------------------------------------------------
(* Helpers.                                                                *)

Registered == {s \in Slots : thread_id[s] # 0}

(* Mutant: the id is not compared, the first registered entry is taken.    *)
FindThread_First(id) == {s \in Registered : \A t \in Registered : s <= t}

(* find_thread_by_id: the entries with this id, at most one.               *)
FindThread(id) == {s \in Registered : thread_id[s] = id}

(* register scans the table from its start.                                *)
FreeSlot == {s \in Slots : thread_id[s] = 0 /\ \A t \in 1..s-1 : thread_id[t] # 0}

WaitingAt(s) == {c \in Callers : pc[c] = "waiting" /\ slot[c] = s}
WokenAt(s) == {c \in Callers : pc[c] = "woken" /\ slot[c] = s}
Replacing == {"create_free", "create_new", "destroy_free"}
ReplacingAt(s) == {c \in Callers : pc[c] \in Replacing /\ slot[c] = s}

Idle(c) == pc[c] = "idle" /\ fault = "none"

(* The call returns and its local variables are gone.                      *)
Return(c) ==
    /\ pc' = [pc EXCEPT ![c] = "idle"] /\ slot' = [slot EXCEPT ![c] = 1]
    /\ asked' = [asked EXCEPT ![c] = 0]

CanLock == owner = NoCaller

Elements(s) == {queue[s][i] : i \in DOMAIN queue[s]}

(* Mutant: a message goes in front of those of its own priority.           *)
InsertPosition_Equal(q, p) ==
    CHOOSE k \in 1..Len(q) + 1 :
        /\ \A i \in 1..k-1 : q[i].priority > p
        /\ k <= Len(q) => q[k].priority <= p

(* enqueue_message walks past every message whose priority is not lower.   *)
InsertPosition(q, p) ==
    CHOOSE k \in 1..Len(q) + 1 :
        /\ \A i \in 1..k-1 : q[i].priority >= p
        /\ k <= Len(q) => q[k].priority < p

InsertAt(q, k, m) ==
    [j \in 1..Len(q) + 1 |-> IF j < k THEN q[j] ELSE IF j = k THEN m ELSE q[j - 1]]

(* Mutant: the condition is signalled for the first message only.          *)
SignalNotEmpty_WhenEmpty(s) ==
    IF queue[s] = <<>> /\ WaitingAt(s) # {}
    THEN \E c \in WaitingAt(s) : pc' = [pc EXCEPT ![c] = "woken"]
    ELSE pc' = pc

SignalNotEmpty(s) ==
    IF WaitingAt(s) # {}
    THEN \E c \in WaitingAt(s) : pc' = [pc EXCEPT ![c] = "woken"]
    ELSE pc' = pc

Faults(f) ==
    /\ fault' = f
    /\ UNCHANGED <<table, queues, calls, history>>

(* msg_queue is used: it has to lead to a queue, and that to its nodes.    *)
Sound(s) == has_queue[s] /\ ~stale[s]
Misuse(s) ==
    \/ ~has_queue[s] /\ Faults("null_queue")
    \/ has_queue[s] /\ stale[s] /\ Faults("freed_queue")

-----------------------------------------------------------------------------
(* Life cycle.                                                             *)

(* thread_comm_init; when an allocation fails everything is given back.    *)
InitModule(c) ==
    /\ Idle(c) /\ ~initialized
    /\ initialized' = TRUE
    /\ thread_id' = [s \in Slots |-> 0] /\ has_queue' = [s \in Slots |-> FALSE]
    /\ queue' = [s \in Slots |-> <<>>]
    /\ UNCHANGED <<owner, counter, active_thread_count, max_size, stale, calls, fault, history>>

(* A call that locks global_mutex while its caller holds it.               *)
LockAgain(c) ==
    /\ owner' = c /\ pc' = [pc EXCEPT ![c] = "stuck"]
    /\ UNCHANGED <<initialized, counter, thread_id, has_queue, active_thread_count, queues,
                   slot, asked, fault, history>>

(* thread_comm_cleanup unregisters the threads that are left with the      *)
(* mutex held.                                                             *)
CleanupModule(c) ==
    /\ Idle(c) /\ initialized /\ CanLock
    /\ \/ Registered # {} /\ LockAgain(c)
       \/ /\ Registered = {}
          /\ initialized' = FALSE
          /\ UNCHANGED <<owner, counter, thread_id, has_queue, active_thread_count, queues,
                         calls, fault, history>>

(* When create_message_queue fails the id is used up all the same.         *)
RegisterThread(c) ==
    /\ Idle(c) /\ initialized /\ CanLock
    /\ counter < MaxRegistrations
    /\ \E s \in FreeSlot :
          /\ counter' = counter + 1
          /\ \/ /\ thread_id' = [thread_id EXCEPT ![s] = counter + 1]
                /\ has_queue' = [has_queue EXCEPT ![s] = TRUE]
                /\ queue' = [queue EXCEPT ![s] = <<>>]
                /\ max_size' = [max_size EXCEPT ![s] = MaxQueueSize]
                /\ active_thread_count' = active_thread_count + 1
             \/ /\ AllocMayFail
                /\ UNCHANGED <<thread_id, has_queue, queue, max_size, active_thread_count>>
    /\ UNCHANGED <<initialized, owner, stale, calls, fault, history>>

(* Mutant: the messages of the queue are not freed with it.                *)
FreeNodes_Keeps(s) ==
    /\ queue' = [queue EXCEPT ![s] = <<>>]
    /\ UNCHANGED discarded

(* destroy_message_queue, the walk over the list.                          *)
FreeNodes(s) ==
    /\ queue' = [queue EXCEPT ![s] = <<>>]
    /\ discarded' = discarded \cup Elements(s)

(* unregister holds global_mutex: only the functions that do not take it   *)
(* can tell the steps of destroy_message_queue apart, and what they do     *)
(* with the queue in between is undefined, as it is afterwards.  A queue   *)
(* that somebody is replacing is freed twice, or created for an entry that *)
(* is free: the fault stands for either.                                   *)
UnregisterThread(c, id) ==
    /\ Idle(c) /\ initialized /\ CanLock
    /\ \E s \in FindThread(id) :
          \/ ReplacingAt(s) # {} /\ Faults("replaced_twice")
          \/ has_queue[s] /\ WaitingAt(s) # {} /\ Faults("destroyed_condition")
          \/ /\ ReplacingAt(s) = {} /\ (has_queue[s] => WaitingAt(s) = {})
             /\ FreeNodes(s)
             /\ has_queue' = [has_queue EXCEPT ![s] = FALSE]
             /\ thread_id' = [thread_id EXCEPT ![s] = 0]
             /\ active_thread_count' = active_thread_count - 1
             /\ UNCHANGED <<initialized, owner, counter, max_size, stale, calls, fault, sent,
                            received, exposed, leaked>>

-----------------------------------------------------------------------------
(* Messages.                                                               *)

(* A full queue or a failed allocation refuses the message.                *)
SendMessage(c, id, p) ==
    /\ Idle(c) /\ initialized /\ CanLock
    /\ sent < MaxSends
    /\ \E s \in FindThread(id) :
          \/ Misuse(s)
          \/ /\ Sound(s) /\ Len(queue[s]) < max_size[s]
             /\ LET m == [seq |-> sent + 1, to |-> id, priority |-> p]
                IN  /\ queue' = [queue EXCEPT ![s] = InsertAt(@, InsertPosition(@, p), m)]
                    /\ exposed' = IF ReplacingAt(s) # {} THEN exposed \cup {m} ELSE exposed
             /\ SignalNotEmpty(s)
             /\ sent' = sent + 1
             /\ UNCHANGED <<table, max_size, stale, slot, asked, fault, received,
                            discarded, leaked>>

(* thread_comm_broadcast_message calls send_message for every other thread *)
(* with the mutex held; get_all_threads calls get_thread_info.             *)
BroadcastMessage(c, id) ==
    /\ Idle(c) /\ initialized /\ CanLock
    /\ \E s \in Registered : thread_id[s] # id
    /\ LockAgain(c)

GetAllThreads(c) ==
    /\ Idle(c) /\ initialized /\ CanLock
    /\ active_thread_count > 0
    /\ LockAgain(c)

(* dequeue_message on entry s for the id that the caller asked for.        *)
Take(c, s, id) ==
    /\ queue[s] # <<>>
    /\ received' = received \cup {[msg |-> Head(queue[s]), by |-> id]}
    /\ queue' = [queue EXCEPT ![s] = Tail(@)]
    /\ Return(c)
    /\ UNCHANGED <<table, max_size, stale, fault, sent, discarded, exposed, leaked>>

(* The time is looked at after a failed dequeue and before the wait.  It   *)
(* may or may not have passed: a call with timeout 0 never returns here.   *)
TimeOut(c, s) ==
    /\ queue[s] = <<>>
    /\ Return(c)
    /\ UNCHANGED <<table, queues, fault, history>>

WaitForMessage(c, s, id) ==
    /\ queue[s] = <<>>
    /\ pc' = [pc EXCEPT ![c] = "waiting"] /\ slot' = [slot EXCEPT ![c] = s]
    /\ asked' = [asked EXCEPT ![c] = id]
    /\ UNCHANGED <<table, queues, fault, history>>

(* thread_comm_receive_message; receive_message_async passes timeout 0,    *)
(* which waits like any other untimed call.                                *)
ReceiveMessage(c, id) ==
    /\ Idle(c) /\ initialized /\ CanLock
    /\ \E s \in FindThread(id) :
          \/ Misuse(s)
          \/ Sound(s) /\ (\/ Take(c, s, id) \/ TimeOut(c, s) \/ WaitForMessage(c, s, id))

(* pthread_cond_wait returns: the caller still uses the table entry it     *)
(* found before, whoever is registered there now.                          *)
ReceiverReturns(c) ==
    /\ pc[c] = "woken" /\ fault = "none" /\ CanLock
    /\ \/ ~initialized /\ Faults("freed_table")
       \/ initialized /\ Misuse(slot[c])
       \/ /\ initialized /\ Sound(slot[c])
          /\ \/ Take(c, slot[c], asked[c]) \/ TimeOut(c, slot[c])
             \/ WaitForMessage(c, slot[c], asked[c])

SpuriousWake(c) ==
    /\ pc[c] = "waiting" /\ fault = "none"
    /\ pc' = [pc EXCEPT ![c] = "woken"]
    /\ UNCHANGED <<table, queues, slot, asked, fault, history>>

-----------------------------------------------------------------------------
(* Functions that work on a queue without global_mutex.                    *)

GoesTo(c, p) == pc' = [pc EXCEPT ![c] = p] /\ UNCHANGED <<slot, asked>>

(* thread_comm_clear_message_queue: size is tested without queue->mutex,   *)
(* which dequeue_message then takes.                                       *)
ClearQueue(c, id) ==
    /\ Idle(c) /\ initialized
    /\ \E s \in FindThread(id) :
          /\ has_queue[s]
          /\ pc' = [pc EXCEPT ![c] = "clear_test"] /\ slot' = [slot EXCEPT ![c] = s]
    /\ UNCHANGED <<table, queues, asked, fault, history>>

ClearTest(c) ==
    /\ pc[c] = "clear_test" /\ fault = "none"
    /\ \/ ~initialized /\ Faults("freed_table")
       \/ initialized /\ ~has_queue[slot[c]] /\ Faults("null_queue")
       \/ /\ initialized /\ has_queue[slot[c]]
          /\ IF queue[slot[c]] # <<>> \/ stale[slot[c]] THEN GoesTo(c, "clear_take") ELSE Return(c)
          /\ UNCHANGED <<table, queues, fault, history>>

(* When a receiver was faster, dequeue_message fails and leaves dummy_msg  *)
(* as it is, uninitialised: its data pointer is null or freed.             *)
ClearTake(c) ==
    /\ pc[c] = "clear_take" /\ fault = "none"
    /\ \/ ~initialized /\ Faults("freed_table")
       \/ initialized /\ Misuse(slot[c])
       \/ /\ initialized /\ Sound(slot[c]) /\ queue[slot[c]] # <<>>
          /\ discarded' = discarded \cup {Head(queue[slot[c]])}
          /\ queue' = [queue EXCEPT ![slot[c]] = Tail(@)]
          /\ GoesTo(c, "clear_test")
          /\ UNCHANGED <<table, max_size, stale, fault, sent, received, exposed, leaked>>
       \/ /\ initialized /\ Sound(slot[c]) /\ queue[slot[c]] = <<>>
          /\ \/ Faults("stale_pointer")
             \/ GoesTo(c, "clear_test") /\ UNCHANGED <<table, queues, fault, history>>

(* thread_comm_create_message_queue and ..._destroy_message_queue find the *)
(* entry and walk over the list of its queue: whoever looks at a node      *)
(* after that uses freed memory; an empty list can still be used.  Two     *)
(* callers that do so at once free a queue twice, or lose one.             *)
ReplaceQueue(c, id, op) ==
    /\ Idle(c) /\ initialized
    /\ \E s \in FindThread(id) :
          \/ ReplacingAt(s) # {} /\ Faults("replaced_twice")
          \/ /\ ReplacingAt(s) = {} /\ has_queue[s]
             /\ FreeNodes(s)
             /\ stale' = [stale EXCEPT ![s] = queue[s] # <<>>]
             /\ pc' = [pc EXCEPT ![c] = IF op = "create" THEN "create_free" ELSE "destroy_free"]
             /\ slot' = [slot EXCEPT ![c] = s]
             /\ UNCHANGED <<table, max_size, asked, fault, sent, received, exposed, leaked>>
          \/ /\ ReplacingAt(s) = {} /\ ~has_queue[s] /\ op = "create"
             /\ pc' = [pc EXCEPT ![c] = "create_new"] /\ slot' = [slot EXCEPT ![c] = s]
             /\ UNCHANGED <<table, queues, asked, fault, history>>

(* The conditions and the mutex are destroyed, the queue is freed with the *)
(* messages that came after the walk, and msg_queue becomes NULL.  (What   *)
(* is done to the queue between the last two is undefined.)                *)
ReplaceFree(c) ==
    /\ pc[c] \in {"create_free", "destroy_free"} /\ fault = "none"
    /\ LET s == slot[c]
       IN  \/ WaitingAt(s) # {} /\ Faults("destroyed_condition")
           \/ /\ WaitingAt(s) = {}
              /\ has_queue' = [has_queue EXCEPT ![s] = FALSE]
              /\ stale' = [stale EXCEPT ![s] = FALSE]
              /\ queue' = [queue EXCEPT ![s] = <<>>]
              /\ leaked' = leaked \cup Elements(s)
              /\ IF pc[c] = "create_free" THEN GoesTo(c, "create_new") ELSE Return(c)
              /\ UNCHANGED <<initialized, owner, counter, thread_id, active_thread_count,
                             max_size, fault, sent, received, discarded, exposed>>

(* create_message_queue.                                                   *)
CreateQueue(c, n) ==
    /\ pc[c] = "create_new" /\ fault = "none"
    /\ \/ /\ has_queue' = [has_queue EXCEPT ![slot[c]] = TRUE]
          /\ max_size' = [max_size EXCEPT ![slot[c]] = n]
       \/ AllocMayFail /\ UNCHANGED <<has_queue, max_size>>
    /\ Return(c)
    /\ UNCHANGED <<initialized, owner, counter, thread_id, active_thread_count, queue, stale,
                   fault, history>>

-----------------------------------------------------------------------------
Next ==
    \E c \in Callers :
        \/ InitModule(c) \/ CleanupModule(c) \/ RegisterThread(c) \/ GetAllThreads(c)
        \/ ReceiverReturns(c) \/ SpuriousWake(c) \/ ClearTest(c) \/ ClearTake(c)
        \/ ReplaceFree(c) \/ \E n \in QueueSizes : CreateQueue(c, n)
        \/ \E id \in Ids :
              \/ UnregisterThread(c, id) \/ BroadcastMessage(c, id)
              \/ \E p \in Priorities : SendMessage(c, id, p)
              \/ ReceiveMessage(c, id) \/ ClearQueue(c, id)
              \/ \E op \in {"create", "destroy"} : ReplaceQueue(c, id, op)

Spec == Init /\ [][Next]_vars

-----------------------------------------------------------------------------
(* Properties.                                                             *)

TypeOK ==
    /\ initialized \in BOOLEAN /\ owner \in Callers \cup {NoCaller}
    /\ counter \in 0..MaxRegistrations
    /\ thread_id \in [Slots -> 0..MaxRegistrations]
    /\ has_queue \in [Slots -> BOOLEAN] /\ queue \in [Slots -> Seq(Messages)]
    /\ max_size \in [Slots -> Nat] /\ stale \in [Slots -> BOOLEAN]
    /\ active_thread_count \in Int
    /\ pc \in [Callers -> {"idle", "waiting", "woken", "clear_test", "clear_take", "stuck"}
                             \cup Replacing]
    /\ slot \in [Callers -> Slots] /\ asked \in [Callers -> 0..MaxRegistrations]
    /\ fault \in {"none", "null_queue", "freed_queue", "replaced_twice", "destroyed_condition",
                 "freed_table", "stale_pointer"}
    /\ sent \in 0..MaxSends
    /\ received \subseteq [msg : Messages, by : Ids] /\ discarded \subseteq Messages
    /\ exposed \subseteq Messages /\ leaked \subseteq Messages

(* A queue hands out higher priorities first and, within one priority, the *)
(* messages in the order in which send_message accepted them.              *)
PriorityOrder ==
    \A s \in Slots : \A i, j \in DOMAIN queue[s] :
        i < j => \/ queue[s][i].priority > queue[s][j].priority
                 \/ /\ queue[s][i].priority = queue[s][j].priority
                    /\ queue[s][i].seq < queue[s][j].seq

(* A message that send_message accepted is in one queue, or was received   *)
(* once, or was freed with its queue or by clear, through unregistering,   *)
(* replaced queues and a clear that runs beside senders and receivers; it  *)
(* can only be lost, in a queue that is freed, when somebody was replacing *)
(* the queue as it was accepted.                                           *)
Places(n) ==
    {<<"queue", s, i>> : s \in {t \in Slots : n \in {m.seq : m \in Elements(t)}},
                         i \in {j \in UNION {DOMAIN queue[t] : t \in Slots} : \E t \in Slots :
                                   j <= Len(queue[t]) /\ queue[t][j].seq = n}}
    \cup {<<"received", r.by, 0>> : r \in {x \in received : x.msg.seq = n}}
    \cup {<<"discarded", 0, 0>> : m \in {x \in discarded : x.seq = n}}
    \cup {<<"leaked", 0, 0>> : m \in {x \in leaked : x.seq = n}}

NoneLostOrDoubled ==
    /\ \A n \in 1..sent : Cardinality(Places(n)) = 1
    /\ leaked \subseteq exposed

(* While somebody waits at an entry, at least as many receivers have been  *)
(* woken for it as it holds messages: no message stays behind beside a     *)
(* sleeping receiver, also when newcomers take messages first.             *)
ReceiverAwake ==
    \A s \in Slots :
        WaitingAt(s) # {} => Len(queue[s]) <= Cardinality(WokenAt(s))

(* Receive keeps a pointer to a table entry over its wait.  It hands out   *)
(* another thread's message only if the id it was called for has been      *)
(* unregistered meanwhile: ids are never given twice.                      *)
DeliveredToAddressee ==
    \A r \in received :
        r.msg.to = r.by \/ \A s \in Slots : thread_id[s] # r.by
=============================================================================
