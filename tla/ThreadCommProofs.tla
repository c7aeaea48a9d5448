-------------------------- MODULE ThreadCommProofs --------------------------
(***************************************************************************)
(* Proofs about ThreadComm, for every number of callers, table entries and *)
(* messages, every queue limit and every set of priorities.                *)
(***************************************************************************)
EXTENDS ThreadComm, SequenceTheorems, FiniteSetTheorems, WellFoundedInduction, TLAPS

USE DEF table, queues, calls, history, Replacing

(* What a caller may be doing, and the faults.                             *)
Doing == {"idle", "waiting", "woken", "clear_test", "clear_take", "stuck"} \cup Replacing
FaultKinds == {"null_queue", "freed_queue", "replaced_twice", "destroyed_condition",
               "freed_table", "stale_pointer"}

(* The assumptions on the constants that the steps below need.             *)
LEMMA Constants ==
    /\ NoCaller \notin Callers /\ MaxThreads \in Nat \ {0} /\ MaxQueueSize \in Nat \ {0}
    /\ MaxRegistrations \in Nat /\ MaxSends \in Nat /\ Priorities \subseteq Nat
    /\ QueueSizes \subseteq Nat
  BY CallersAssumption, SizesAssumption, PrioritiesAssumption, QueueSizesAssumption

(* The fields of a message.                                                *)
LEMMA MessageFields ==
    \A x \in Messages : /\ x.priority \in Nat /\ x.priority \in Priorities
                        /\ x.seq \in Nat /\ x.seq <= MaxSends /\ x.to \in Ids
<1> SUFFICES ASSUME NEW x \in Messages
             PROVE  /\ x.priority \in Nat /\ x.priority \in Priorities
                    /\ x.seq \in Nat /\ x.seq <= MaxSends /\ x.to \in Ids
  OBVIOUS
<1>1. x.seq \in 1..MaxSends /\ x.to \in Ids /\ x.priority \in Priorities
  BY DEF Messages
<1>2. x.priority \in Nat
  BY <1>1, Constants, Zenon
<1>3. x.seq \in Nat /\ x.seq <= MaxSends
  BY <1>1, Constants
<1> QED
  BY <1>1, <1>2, <1>3

-----------------------------------------------------------------------------
(***************************************************************************)
(* The insertion of enqueue_message.                                       *)
(***************************************************************************)

(* A non-empty set of natural numbers has a least element.                 *)
LEMMA LeastNatural ==
    ASSUME NEW T \in SUBSET Nat, T # {}
    PROVE  \E x \in T : \A y \in T : x <= y
<1>1. PICK x \in T : \A y \in T : ~(<<y, x>> \in OpToRel(<, Nat))
  BY NatLessThanWellFounded, WFMin
<1>2. \A y \in T : ~(y < x)
  BY <1>1 DEF OpToRel
<1> QED
  BY <1>2

(* The walk of enqueue_message ends at a place in front of the first       *)
(* message of lower priority.                                              *)
LEMMA PositionExists ==
    ASSUME NEW q \in Seq(Messages), NEW p \in Priorities
    PROVE  LET k == InsertPosition(q, p)
           IN  /\ k \in 1..Len(q) + 1
               /\ \A i \in 1..k-1 : q[i].priority >= p
               /\ k <= Len(q) => q[k].priority < p
<1> DEFINE T == {k \in 1..Len(q) + 1 : k = Len(q) + 1 \/ q[k].priority < p}
<1>1. Len(q) \in Nat /\ \A i \in 1..Len(q) : q[i] \in Messages
  BY LenProperties, ElementOfSeq
<1>2. T \in SUBSET Nat /\ Len(q) + 1 \in T
  BY <1>1
<1>3. PICK x \in T : \A y \in T : x <= y
  BY <1>2, LeastNatural
<1>4. \A i \in 1..x-1 : q[i].priority >= p
  <2> SUFFICES ASSUME NEW i \in 1..x-1 PROVE q[i].priority >= p
    OBVIOUS
  <2>1. i \in 1..Len(q) /\ i \notin T
    BY <1>1, <1>3
  <2>2. q[i].priority \in Nat /\ p \in Nat
    BY <1>1, <2>1, Constants DEF Messages
  <2> QED
    BY <1>1, <2>1, <2>2
<1>5. x <= Len(q) => q[x].priority < p
  BY <1>1
<1>6. \E k \in 1..Len(q) + 1 :
        /\ \A i \in 1..k-1 : q[i].priority >= p
        /\ k <= Len(q) => q[k].priority < p
  BY <1>4, <1>5
<1> QED
  BY <1>6 DEF InsertPosition

(* Higher priorities come first, equal ones in the order of acceptance.    *)
Goes(m, n) ==
    m.priority > n.priority \/ (m.priority = n.priority /\ m.seq < n.seq)

Ordered(q) == \A i, j \in DOMAIN q : i < j => Goes(q[i], q[j])

(* What a queue is after the insertion of a message newer than all of it.  *)
LEMMA InsertKeepsOrder ==
    ASSUME NEW q \in Seq(Messages), NEW m \in Messages, Ordered(q),
           \A i \in DOMAIN q : q[i].seq < m.seq
    PROVE  LET r == InsertAt(q, InsertPosition(q, m.priority), m)
           IN  /\ r \in Seq(Messages) /\ Ordered(r)
               /\ \A j \in DOMAIN r : r[j] = m \/ \E i \in DOMAIN q : r[j] = q[i]
<1> DEFINE k == InsertPosition(q, m.priority)
           r == InsertAt(q, k, m)
<1>1. Len(q) \in Nat /\ DOMAIN q = 1..Len(q) /\ \A i \in 1..Len(q) : q[i] \in Messages
  BY LenProperties, ElementOfSeq
<1>2. m.priority \in Priorities
  BY DEF Messages
<1>3. /\ k \in 1..Len(q) + 1
      /\ \A i \in 1..k-1 : q[i].priority >= m.priority
      /\ k <= Len(q) => q[k].priority < m.priority
  BY <1>2, PositionExists
<1> HIDE DEF k
<1>4. /\ DOMAIN r = 1..Len(q) + 1
      /\ \A j \in 1..Len(q) + 1 :
            r[j] = IF j < k THEN q[j] ELSE IF j = k THEN m ELSE q[j - 1]
  BY DEF InsertAt
<1>5. \A j \in 1..Len(q) + 1 : r[j] = m \/ \E i \in DOMAIN q : r[j] = q[i]
  BY <1>1, <1>3, <1>4
<1>6. r \in Seq(Messages)
  <2>1. \A j \in 1..Len(q) + 1 :
           (IF j < k THEN q[j] ELSE IF j = k THEN m ELSE q[j - 1]) \in Messages
    BY <1>1, <1>3
  <2> QED
    BY <1>1, <2>1, IsASeq DEF InsertAt
<1>7. Ordered(r)
  <2> SUFFICES ASSUME NEW i \in 1..Len(q) + 1, NEW j \in 1..Len(q) + 1, i < j
               PROVE  Goes(r[i], r[j])
    BY <1>4 DEF Ordered
  <2>0. /\ \A a, b \in 1..Len(q) : a < b => Goes(q[a], q[b])
        /\ \A a \in 1..Len(q) : q[a].priority \in Nat /\ q[a].seq \in Nat
        /\ m.priority \in Nat /\ m.seq \in Nat
    <3>1. \A a, b \in 1..Len(q) : a < b => Goes(q[a], q[b])
      BY <1>1 DEF Ordered
    <3>2. \A x \in Messages : x.priority \in Nat /\ x.seq \in Nat
      BY MessageFields
    <3> QED
      BY <1>1, <3>1, <3>2
  <2>1. CASE j < k
    BY <1>1, <1>3, <1>4, <2>0, <2>1
  <2>2. CASE j = k
    <3>1. r[i] = q[i] /\ r[j] = m /\ i \in 1..Len(q) /\ q[i].priority >= m.priority
      BY <1>1, <1>3, <1>4, <2>2
    <3> QED
      BY <1>1, <2>0, <3>1 DEF Goes
  <2>3. CASE j > k
    <3>1. r[j] = q[j - 1] /\ j - 1 \in 1..Len(q) /\ k \in 1..Len(q)
      BY <1>1, <1>3, <1>4, <2>3
    <3>2. CASE i = k
      <4>1. r[i] = m /\ q[k].priority < m.priority
        BY <1>1, <1>3, <1>4, <3>1, <3>2
      <4>2. q[j - 1].priority < m.priority
        <5>1. k < j - 1 => Goes(q[k], q[j - 1])
          BY <2>0, <3>1
        <5> QED
          BY <1>3, <2>0, <2>3, <3>1, <4>1, <5>1 DEF Goes
      <4> QED
        BY <2>0, <3>1, <4>1, <4>2 DEF Goes
    <3>3. CASE i < k
      <4>1. r[i] = q[i] /\ i \in 1..Len(q) /\ i < j - 1
        BY <1>1, <1>3, <1>4, <2>3, <3>1, <3>3
      <4> QED
        BY <2>0, <3>1, <4>1
    <3>4. CASE i > k
      <4>1. r[i] = q[i - 1] /\ i - 1 \in 1..Len(q) /\ i - 1 < j - 1
        BY <1>1, <1>3, <1>4, <3>1, <3>4
      <4> QED
        BY <2>0, <3>1, <4>1
    <3> QED
      BY <1>3, <3>2, <3>3, <3>4
  <2> QED
    BY <1>3, <2>1, <2>2, <2>3
<1> QED
  BY <1>4, <1>5, <1>6, <1>7 DEF k

-----------------------------------------------------------------------------
(***************************************************************************)
(* The inductive invariant.  Ids are never given twice, a queue holds      *)
(* messages for the thread that is registered at its entry now, and a      *)
(* receiver that still points to an entry of somebody else was called for  *)
(* an id that is gone.                                                     *)
(***************************************************************************)

IdsOnce ==
    /\ \A s \in Slots : thread_id[s] <= counter
    /\ \A s, t \in Slots : thread_id[s] = thread_id[t] /\ thread_id[s] # 0 => s = t

Addressed ==
    \A s \in Slots : \A i \in DOMAIN queue[s] :
        queue[s][i].to = thread_id[s] /\ queue[s][i].seq <= sent

(* No entry of a table f has this id.                                      *)
Gone(f, id) == \A s \in Slots : f[s] # id

Pointers ==
    \A c \in Callers : pc[c] \in {"waiting", "woken"} =>
        /\ asked[c] \in Ids /\ asked[c] <= counter
        /\ thread_id[slot[c]] = asked[c] \/ Gone(thread_id, asked[c])

Handed ==
    \A r \in received : r.by <= counter /\ (r.msg.to = r.by \/ Gone(thread_id, r.by))

QueuesOrdered == \A s \in Slots : Ordered(queue[s])

IInv == TypeOK /\ IdsOnce /\ Addressed /\ Pointers /\ Handed /\ QueuesOrdered

(* The table is empty and nobody has called yet.                           *)
LEMMA InitIInv == Init => IInv
<1> SUFFICES ASSUME Init PROVE IInv
  OBVIOUS
<1>1. <<>> \in Seq(Messages) /\ 1 \in Slots /\ DOMAIN <<>> = {}
  BY Constants DEF Slots
<1>2. TypeOK
  <2>1. /\ thread_id \in [Slots -> 0..MaxRegistrations] /\ has_queue \in [Slots -> BOOLEAN]
        /\ queue \in [Slots -> Seq(Messages)]
    BY <1>1, Constants DEF Init
  <2>2. /\ pc \in [Callers -> Doing]
        /\ slot \in [Callers -> Slots] /\ asked \in [Callers -> 0..MaxRegistrations]
        /\ max_size \in [Slots -> Nat] /\ stale \in [Slots -> BOOLEAN]
    BY <1>1, Constants DEF Init, Doing
  <2>3. counter \in 0..MaxRegistrations /\ active_thread_count \in Int /\ sent \in 0..MaxSends
    BY Constants DEF Init
  <2>5. initialized \in BOOLEAN /\ owner \in Callers \cup {NoCaller}
    BY DEF Init
  <2>4. /\ received \subseteq [msg : Messages, by : Ids] /\ discarded \subseteq Messages
        /\ exposed \subseteq Messages /\ leaked \subseteq Messages
        /\ fault \in FaultKinds \cup {"none"}
    BY DEF Init
  <2> QED
    BY <2>1, <2>2, <2>3, <2>4, <2>5 DEF TypeOK, Doing, FaultKinds
<1>3. IdsOnce /\ Pointers /\ Handed
  BY DEF Init, IdsOnce, Pointers, Handed
<1>4. \A s \in Slots : DOMAIN queue[s] = {}
  BY <1>1 DEF Init
<1>5. Addressed /\ QueuesOrdered
  BY <1>4 DEF Addressed, QueuesOrdered, Ordered
<1> QED
  BY <1>2, <1>3, <1>5 DEF IInv

(* Steps that leave ids, queues and histories alone: only the callers'     *)
(* places change, and who begins to wait at an entry asks for its id.      *)
LEMMA CallerMovesIInv ==
    ASSUME IInv, TypeOK',
           UNCHANGED <<counter, thread_id, queue, sent, received>>,
           \A c \in Callers : pc'[c] \in {"waiting", "woken"} =>
               \/ /\ pc[c] \in {"waiting", "woken"}
                  /\ asked'[c] = asked[c] /\ slot'[c] = slot[c]
               \/ /\ asked'[c] \in Ids
                  /\ slot'[c] \in Slots /\ thread_id[slot'[c]] = asked'[c]
    PROVE  IInv'
<1>1. IdsOnce' /\ Addressed' /\ Handed' /\ QueuesOrdered'
  BY DEF IInv, IdsOnce, Addressed, Handed, Gone, QueuesOrdered
<1>2. Pointers'
  BY DEF IInv, IdsOnce, Pointers, Gone
<1> QED
  BY <1>1, <1>2 DEF IInv

(* Removing messages from queues, and nothing else, keeps their order.     *)
LEMMA TailKeeps ==
    ASSUME NEW q \in Seq(Messages), q # <<>>, Ordered(q)
    PROVE  /\ Head(q) \in Messages /\ Head(q) = q[1] /\ 1 \in DOMAIN q
           /\ Tail(q) \in Seq(Messages) /\ Ordered(Tail(q))
           /\ \A i \in DOMAIN Tail(q) : i + 1 \in DOMAIN q /\ Tail(q)[i] = q[i + 1]
<1>1. /\ Head(q) \in Messages /\ Tail(q) \in Seq(Messages)
      /\ Len(Tail(q)) = Len(q) - 1 /\ \A i \in 1..Len(Tail(q)) : Tail(q)[i] = q[i + 1]
      /\ Len(q) \in Nat /\ Len(q) # 0
  BY HeadTailProperties, LenProperties, EmptySeq
<1>2. DOMAIN q = 1..Len(q) /\ DOMAIN Tail(q) = 1..Len(Tail(q))
  BY <1>1, LenProperties
<1>3. \A i \in DOMAIN Tail(q) : i + 1 \in DOMAIN q /\ Tail(q)[i] = q[i + 1]
  BY <1>1, <1>2
<1>4. Ordered(Tail(q))
  <2> SUFFICES ASSUME NEW i \in DOMAIN Tail(q), NEW j \in DOMAIN Tail(q), i < j
               PROVE  Goes(Tail(q)[i], Tail(q)[j])
    BY DEF Ordered
  <2>1. i + 1 < j + 1
    BY <1>1, <1>2
  <2> QED
    BY <1>3, <2>1 DEF Ordered
<1> QED
  BY <1>1, <1>2, <1>3, <1>4

(* dequeue_message for a receiver: entry s belongs to the id it asked for, *)
(* or that id is gone.                                                     *)
LEMMA TakeIInv ==
    ASSUME IInv, NEW c \in Callers, NEW s \in Slots, NEW id \in Ids, id <= counter,
           thread_id[s] = id \/ Gone(thread_id, id), Take(c, s, id)
    PROVE  IInv'
<1>1. queue[s] \in Seq(Messages) /\ queue[s] # <<>> /\ Ordered(queue[s])
  BY DEF IInv, TypeOK, Take, QueuesOrdered
<1>2. /\ Head(queue[s]) \in Messages /\ Head(queue[s]) = queue[s][1] /\ 1 \in DOMAIN queue[s]
      /\ Tail(queue[s]) \in Seq(Messages) /\ Ordered(Tail(queue[s]))
      /\ \A i \in DOMAIN Tail(queue[s]) :
            i + 1 \in DOMAIN queue[s] /\ Tail(queue[s])[i] = queue[s][i + 1]
  BY <1>1, TailKeeps
<1>3. queue' = [queue EXCEPT ![s] = Tail(queue[s])]
      /\ received' = received \cup {[msg |-> Head(queue[s]), by |-> id]}
  BY DEF Take
<1>4. 1 \in Slots
  BY Constants DEF Slots
<1>5. TypeOK'
  <2>1. [msg |-> Head(queue[s]), by |-> id] \in [msg : Messages, by : Ids]
    BY <1>2
  <2>2. received' \subseteq [msg : Messages, by : Ids]
    BY <1>3, <2>1 DEF IInv, TypeOK
  <2>3. queue' \in [Slots -> Seq(Messages)]
    BY <1>2, <1>3 DEF IInv, TypeOK
  <2>4. /\ pc' \in [Callers -> Doing]
        /\ slot' \in [Callers -> Slots]
    BY <1>4 DEF IInv, TypeOK, Take, Return, Doing
  <2>5. asked' \in [Callers -> 0..MaxRegistrations]
    BY Constants DEF IInv, TypeOK, Take, Return
  <2>6. UNCHANGED <<table, max_size, stale, fault, sent, discarded, exposed, leaked>>
    BY DEF Take
  <2>7. TypeOK
    BY DEF IInv
  <2> QED
    BY ONLY <2>2, <2>3, <2>4, <2>5, <2>6, <2>7 DEF TypeOK, Doing, table
<1>6. IdsOnce' /\ Pointers'
  BY DEF IInv, TypeOK, Take, Return, IdsOnce, Pointers, Gone
<1>7. Addressed' /\ QueuesOrdered'
  <2>1. thread_id' = thread_id /\ sent' = sent
    BY DEF Take, table
  <2>2. queue'[s] = Tail(queue[s]) /\ \A t \in Slots \ {s} : queue'[t] = queue[t]
    BY <1>3 DEF IInv, TypeOK
  <2>3. ASSUME NEW t \in Slots, NEW i \in DOMAIN queue'[t]
        PROVE  queue'[t][i].to = thread_id[t] /\ queue'[t][i].seq <= sent
    <3>1. CASE t = s
      <4>1. i + 1 \in DOMAIN queue[s] /\ queue'[t][i] = queue[s][i + 1]
        BY <1>2, <2>2, <3>1
      <4>2. queue[s][i + 1].to = thread_id[s] /\ queue[s][i + 1].seq <= sent
        BY <4>1 DEF IInv, Addressed
      <4> QED
        BY <3>1, <4>1, <4>2
    <3>2. CASE t # s
      BY <2>2, <3>2 DEF IInv, Addressed
    <3> QED
      BY <3>1, <3>2
  <2>4. Addressed'
    BY ONLY <2>1, <2>3 DEF Addressed
  <2>5. \A t \in Slots : Ordered(queue'[t])
    BY <1>2, <2>2 DEF IInv, QueuesOrdered
  <2> QED
    BY ONLY <2>4, <2>5 DEF QueuesOrdered, Ordered
<1>8. Handed'
  <2>1. Head(queue[s]).to = thread_id[s]
    BY <1>2 DEF IInv, Addressed
  <2> QED
    BY <1>3, <2>1 DEF IInv, Take, Handed, Gone
<1> QED
  BY <1>5, <1>6, <1>7, <1>8 DEF IInv

(* Steps that take messages out of queues, or ids out of the table, and    *)
(* hand out nothing.                                                       *)
LEMMA RemovalIInv ==
    ASSUME IInv, TypeOK', UNCHANGED <<counter, sent, received>>,
           \A s \in Slots : thread_id'[s] \in {thread_id[s], 0},
           \A s \in Slots : \A i \in DOMAIN queue'[s] :
               /\ thread_id'[s] = thread_id[s]
               /\ \E j \in DOMAIN queue[s] : queue'[s][i] = queue[s][j],
           \A s \in Slots : Ordered(queue'[s]),
           \A c \in Callers : pc'[c] \in {"waiting", "woken"} =>
               /\ pc[c] \in {"waiting", "woken"}
               /\ asked'[c] = asked[c] /\ slot'[c] = slot[c]
    PROVE  IInv'
<1>0. counter \in Nat /\ \A s \in Slots : thread_id[s] \in Nat
  BY DEF IInv, TypeOK
<1>1. IdsOnce'
  BY <1>0 DEF IInv, IdsOnce
<1>2. Addressed'
  <2> SUFFICES ASSUME NEW s \in Slots, NEW i \in DOMAIN queue'[s]
               PROVE  queue'[s][i].to = thread_id'[s] /\ queue'[s][i].seq <= sent'
    BY DEF Addressed
  <2>1. PICK j \in DOMAIN queue[s] : queue'[s][i] = queue[s][j]
    OBVIOUS
  <2>2. queue[s][j].to = thread_id[s] /\ queue[s][j].seq <= sent
    BY DEF IInv, Addressed
  <2>3. sent' = sent /\ thread_id'[s] = thread_id[s]
    OBVIOUS
  <2> QED
    BY <2>1, <2>2, <2>3
<1>3. \A id \in Ids : Gone(thread_id, id) => Gone(thread_id', id)
  BY DEF IInv, TypeOK, Gone, Ids
<1>4. \A c \in Callers : slot[c] \in Slots
  BY DEF IInv, TypeOK
<1>5. Pointers'
  <2> SUFFICES ASSUME NEW c \in Callers, pc'[c] \in {"waiting", "woken"}
               PROVE  /\ asked'[c] \in Ids /\ asked'[c] <= counter'
                      /\ thread_id'[slot'[c]] = asked'[c] \/ Gone(thread_id', asked'[c])
    BY DEF Pointers
  <2>1. /\ asked[c] \in Ids /\ asked[c] <= counter
        /\ thread_id[slot[c]] = asked[c] \/ Gone(thread_id, asked[c])
        /\ asked'[c] = asked[c] /\ slot'[c] = slot[c]
    BY DEF IInv, Pointers
  <2>2. CASE Gone(thread_id, asked[c])
    BY <1>3, <2>1, <2>2 DEF Gone
  <2>3. CASE thread_id[slot[c]] = asked[c] /\ thread_id'[slot[c]] = thread_id[slot[c]]
    BY <2>1, <2>3
  <2>4. CASE thread_id[slot[c]] = asked[c] /\ thread_id'[slot[c]] # thread_id[slot[c]]
    <3>1. \A t \in Slots : t # slot[c] => thread_id[t] # asked[c]
      BY <1>4, <2>1, <2>4 DEF IInv, IdsOnce, Ids
    <3>2. asked[c] # 0
      BY <2>1 DEF Ids
    <3>3. \A t \in Slots : thread_id'[t] # asked[c]
      BY <1>4, <2>4, <3>1, <3>2
    <3> QED
      BY <2>1, <3>3 DEF Gone
  <2> QED
    BY <2>1, <2>2, <2>3, <2>4
<1>6. Handed'
  <2>1. \A r \in received : r.by \in Ids
    BY DEF IInv, TypeOK
  <2> QED
    BY <1>3, <2>1 DEF IInv, Handed, Gone
<1> QED
  BY <1>1, <1>2, <1>5, <1>6 DEF IInv, QueuesOrdered

(* A fault stops everything and changes nothing.                           *)
LEMMA FaultsIInv ==
    ASSUME IInv, NEW f \in FaultKinds, Faults(f)
    PROVE  IInv'
<1>1. TypeOK'
  BY DEF IInv, TypeOK, Faults, FaultKinds
<1> QED
  BY <1>1, CallerMovesIInv DEF Faults

(* thread_comm_init empties the table.                                     *)
LEMMA InitModuleIInv ==
    ASSUME IInv, NEW c \in Callers, InitModule(c)
    PROVE  IInv'
<1>1. <<>> \in Seq(Messages) /\ DOMAIN <<>> = {}
  OBVIOUS
<1>2. \A s \in Slots : thread_id'[s] = 0 /\ queue'[s] = <<>>
  BY DEF InitModule
<1>3. TypeOK'
  <2>1. thread_id' \in [Slots -> 0..MaxRegistrations] /\ has_queue' \in [Slots -> BOOLEAN]
        /\ queue' \in [Slots -> Seq(Messages)] /\ initialized' \in BOOLEAN
    BY <1>1, Constants DEF InitModule
  <2> QED
    BY <2>1 DEF InitModule, IInv, TypeOK
<1>4. \A s \in Slots : DOMAIN queue'[s] = {} /\ Ordered(queue'[s])
  BY <1>1, <1>2 DEF Ordered
<1> QED
  BY <1>2, <1>3, <1>4, RemovalIInv DEF InitModule

(* cleanup, broadcast and get_all_threads end in a second lock, or free    *)
(* the table.                                                              *)
LEMMA LockAgainIInv ==
    ASSUME IInv, NEW c \in Callers,
           CleanupModule(c) \/ GetAllThreads(c) \/ \E id \in Ids : BroadcastMessage(c, id)
    PROVE  IInv'
<1>1. CASE LockAgain(c)
  <2>1. TypeOK'
    BY <1>1 DEF LockAgain, IInv, TypeOK
  <2> QED
    BY <1>1, <2>1, CallerMovesIInv DEF LockAgain, IInv, TypeOK
<1>2. CASE CleanupModule(c) /\ ~LockAgain(c)
  <2>1. TypeOK'
    BY <1>2 DEF CleanupModule, IInv, TypeOK
  <2> QED
    BY <1>2, <2>1, CallerMovesIInv DEF CleanupModule
<1> QED
  BY <1>1, <1>2 DEF CleanupModule, GetAllThreads, BroadcastMessage

(* A new id is above all that were given before.                           *)
LEMMA RegisterThreadIInv ==
    ASSUME IInv, NEW c \in Callers, RegisterThread(c)
    PROVE  IInv'
<1>1. counter \in Nat /\ counter < MaxRegistrations /\ counter' = counter + 1
  BY DEF RegisterThread, IInv, TypeOK
<1>2. PICK s \in FreeSlot :
        \/ /\ thread_id' = [thread_id EXCEPT ![s] = counter + 1]
           /\ has_queue' = [has_queue EXCEPT ![s] = TRUE]
           /\ queue' = [queue EXCEPT ![s] = <<>>]
           /\ max_size' = [max_size EXCEPT ![s] = MaxQueueSize]
           /\ active_thread_count' = active_thread_count + 1
        \/ UNCHANGED <<thread_id, has_queue, queue, max_size, active_thread_count>>
  BY DEF RegisterThread
<1>3. s \in Slots /\ thread_id[s] = 0
  BY DEF FreeSlot
<1>4. <<>> \in Seq(Messages) /\ DOMAIN <<>> = {}
  OBVIOUS
<1>5. TypeOK'
  <2>0. /\ thread_id \in [Slots -> 0..MaxRegistrations] /\ has_queue \in [Slots -> BOOLEAN]
        /\ queue \in [Slots -> Seq(Messages)] /\ active_thread_count \in Int
        /\ max_size \in [Slots -> Nat]
    BY DEF IInv, TypeOK
  <2>1. counter' \in 0..MaxRegistrations /\ counter + 1 \in 0..MaxRegistrations
    BY <1>1, Constants
  <2>2. CASE UNCHANGED <<thread_id, has_queue, queue, max_size, active_thread_count>>
    BY <2>0, <2>1, <2>2 DEF RegisterThread, IInv, TypeOK
  <2>3. CASE ~UNCHANGED <<thread_id, has_queue, queue, max_size, active_thread_count>>
    <3>1. /\ thread_id' \in [Slots -> 0..MaxRegistrations]
          /\ queue' \in [Slots -> Seq(Messages)] /\ has_queue' \in [Slots -> BOOLEAN]
      BY <1>2, <1>3, <1>4, <2>0, <2>1, <2>3, ZenonT(60)
    <3>2. active_thread_count' \in Int
      BY <1>2, <2>0, <2>3
    <3>3. max_size' \in [Slots -> Nat]
      BY <1>2, <2>0, <2>3, Constants
    <3> QED
      BY <2>1, <3>1, <3>2, <3>3 DEF RegisterThread, IInv, TypeOK
  <2> QED
    BY <2>2, <2>3
<1>6. \A t \in Slots : thread_id[t] \in Nat /\ thread_id[t] <= counter
  BY DEF IInv, TypeOK, IdsOnce
<1>7. \A t \in Slots : thread_id'[t] = thread_id[t] \/ (t = s /\ thread_id'[t] = counter + 1)
  BY <1>2, <1>3 DEF IInv, TypeOK
<1>8. IdsOnce'
  BY <1>1, <1>3, <1>6, <1>7 DEF IInv, IdsOnce
<1>9. \A t \in Slots : \/ queue'[t] = queue[t] /\ thread_id'[t] = thread_id[t]
                       \/ DOMAIN queue'[t] = {}
  BY <1>2, <1>3, <1>4 DEF IInv, TypeOK
<1>10. Addressed' /\ QueuesOrdered'
  <2>1. UNCHANGED sent
    BY DEF RegisterThread
  <2> QED
    BY <1>9, <2>1 DEF IInv, Addressed, QueuesOrdered, Ordered
<1>11. \A id \in Nat : id <= counter /\ Gone(thread_id, id) => Gone(thread_id', id)
  BY <1>1, <1>7 DEF Gone
<1>12. Pointers'
  <2>1. UNCHANGED <<pc, slot, asked>>
    BY DEF RegisterThread
  <2>2. \A d \in Callers : asked[d] \in Ids /\ thread_id[slot[d]] = asked[d] => slot[d] # s
    BY <1>3 DEF Ids
  <2>3. \A d \in Callers : slot[d] \in Slots
    BY DEF IInv, TypeOK
  <2>4. \A id \in Ids : id \in Nat
    BY DEF Ids
  <2> SUFFICES ASSUME NEW d \in Callers, pc[d] \in {"waiting", "woken"}
               PROVE  /\ asked[d] \in Ids /\ asked[d] <= counter'
                      /\ thread_id'[slot[d]] = asked[d] \/ Gone(thread_id', asked[d])
    BY <2>1 DEF Pointers, Gone
  <2>5. /\ asked[d] \in Ids /\ asked[d] <= counter
        /\ thread_id[slot[d]] = asked[d] \/ Gone(thread_id, asked[d])
    BY DEF IInv, Pointers
  <2>6. Gone(thread_id, asked[d]) => Gone(thread_id', asked[d])
    BY <1>1, <1>7, <2>1, <2>4, <2>5 DEF Gone
  <2> QED
    BY <1>1, <1>7, <2>2, <2>3, <2>4, <2>5, <2>6
<1>13. Handed'
  <2>1. UNCHANGED received /\ \A r \in received : r.by \in Nat
    BY DEF RegisterThread, IInv, TypeOK, Ids
  <2> QED
    BY <1>1, <1>11, <2>1 DEF IInv, Handed, Gone
<1> QED
  BY <1>5, <1>8, <1>10, <1>12, <1>13 DEF IInv

(* Queue s is emptied, and its entry given up or not.                      *)
LEMMA EmptiedIInv ==
    ASSUME IInv, TypeOK', NEW s \in Slots,
           queue' = [queue EXCEPT ![s] = <<>>],
           thread_id' = [thread_id EXCEPT ![s] = 0] \/ thread_id' = thread_id,
           UNCHANGED <<counter, sent, received>>,
           \A d \in Callers : pc'[d] \in {"waiting", "woken"} =>
               pc[d] \in {"waiting", "woken"} /\ asked'[d] = asked[d] /\ slot'[d] = slot[d]
    PROVE  IInv'
<1>1. thread_id \in [Slots -> 0..MaxRegistrations] /\ queue \in [Slots -> Seq(Messages)]
  BY DEF IInv, TypeOK
<1>2. DOMAIN <<>> = {}
  OBVIOUS
<1>3. \A t \in Slots : thread_id'[t] \in {thread_id[t], 0} /\ (t # s => thread_id'[t] = thread_id[t])
  BY <1>1
<1>4. \A t \in Slots : (t # s => queue'[t] = queue[t]) /\ (t = s => DOMAIN queue'[t] = {})
  BY <1>1, <1>2
<1>5. \A t \in Slots : Ordered(queue'[t])
  BY <1>4 DEF IInv, QueuesOrdered, Ordered
<1> QED
  BY <1>3, <1>4, <1>5, RemovalIInv

(* The types that the emptying of queue s touches.                         *)
LEMMA EmptiedTypes ==
    ASSUME IInv, NEW s \in Slots
    PROVE  /\ [queue EXCEPT ![s] = <<>>] \in [Slots -> Seq(Messages)]
           /\ [thread_id EXCEPT ![s] = 0] \in [Slots -> 0..MaxRegistrations]
           /\ Elements(s) \subseteq Messages
<1>1. thread_id \in [Slots -> 0..MaxRegistrations] /\ queue \in [Slots -> Seq(Messages)]
  BY DEF IInv, TypeOK
<1>2. <<>> \in Seq(Messages) /\ 0 \in 0..MaxRegistrations
  BY Constants
<1>3. Elements(s) \subseteq Messages
  BY <1>1, LenProperties, ElementOfSeq DEF Elements
<1> QED
  BY <1>1, <1>2, <1>3

(* unregister empties the queue and frees the entry.                       *)
LEMMA UnregisterIInv ==
    ASSUME IInv, NEW c \in Callers, NEW id \in Ids, UnregisterThread(c, id)
    PROVE  IInv'
<1>1. CASE \E f \in FaultKinds : Faults(f)
  BY <1>1, FaultsIInv
<1>2. CASE ~\E f \in FaultKinds : Faults(f)
  <2>1. PICK s \in Slots :
          /\ FreeNodes(s)
          /\ has_queue' = [has_queue EXCEPT ![s] = FALSE]
          /\ thread_id' = [thread_id EXCEPT ![s] = 0]
          /\ active_thread_count' = active_thread_count - 1
          /\ UNCHANGED <<initialized, owner, counter, max_size, stale, calls, fault, sent,
                         received, exposed, leaked>>
    BY <1>2 DEF UnregisterThread, FindThread, Registered, FaultKinds
  <2>2. /\ queue' \in [Slots -> Seq(Messages)] /\ thread_id' \in [Slots -> 0..MaxRegistrations]
        /\ discarded' \subseteq Messages
    BY <2>1, EmptiedTypes DEF FreeNodes, IInv, TypeOK
  <2>3. has_queue' \in [Slots -> BOOLEAN] /\ active_thread_count' \in Int
    BY <2>1 DEF IInv, TypeOK
  <2>4. TypeOK'
    BY <2>1, <2>2, <2>3 DEF IInv, TypeOK
  <2> QED
    BY <2>1, <2>4, EmptiedIInv DEF FreeNodes
<1> QED
  BY <1>1, <1>2

(* The steps of create_message_queue and destroy_message_queue.            *)
LEMMA ReplaceIInv ==
    ASSUME IInv, NEW c \in Callers,
           \/ \E id \in Ids : \E op \in {"create", "destroy"} : ReplaceQueue(c, id, op)
           \/ ReplaceFree(c)
           \/ \E n \in QueueSizes : CreateQueue(c, n)
    PROVE  IInv'
<1>0. TypeOK /\ 1 \in Slots /\ 0 \in 0..MaxRegistrations /\ slot[c] \in Slots
  <2>1. 1 \in Slots /\ 0 \in 0..MaxRegistrations
    BY Constants DEF Slots
  <2>2. TypeOK
    BY DEF IInv
  <2>3. slot[c] \in Slots
    BY <2>2 DEF TypeOK
  <2> QED
    BY <2>1, <2>2, <2>3
<1>1. CASE \E f \in FaultKinds : Faults(f)
  BY <1>1, FaultsIInv
<1>2. CASE /\ ~\E f \in FaultKinds : Faults(f)
           /\ \E id \in Ids : \E op \in {"create", "destroy"} : ReplaceQueue(c, id, op)
  <2>0. PICK id \in Ids, op \in {"create", "destroy"} : ReplaceQueue(c, id, op)
    BY <1>2
  <2>1. PICK s \in Slots :
          /\ slot' = [slot EXCEPT ![c] = s]
          /\ UNCHANGED <<table, max_size, asked, fault, sent, received, exposed, leaked>>
          /\ \E d \in {"create_free", "destroy_free", "create_new"} : pc' = [pc EXCEPT ![c] = d]
          /\ \/ FreeNodes(s) /\ stale' = [stale EXCEPT ![s] = queue[s] # <<>>]
             \/ UNCHANGED <<queues, history>>
    BY <1>2, <2>0 DEF ReplaceQueue, FindThread, Registered, FaultKinds
  <2>2. \A d \in Callers : pc'[d] \in {"waiting", "woken"} =>
               pc[d] \in {"waiting", "woken"} /\ asked'[d] = asked[d] /\ slot'[d] = slot[d]
    BY <1>0, <2>1 DEF TypeOK
  <2>3. pc' \in [Callers -> Doing] /\ slot' \in [Callers -> Slots]
    BY <1>0, <2>1 DEF TypeOK, Doing
  <2>4. CASE FreeNodes(s) /\ stale' = [stale EXCEPT ![s] = queue[s] # <<>>]
    <3>1. /\ queue' \in [Slots -> Seq(Messages)] /\ discarded' \subseteq Messages
          /\ stale' \in [Slots -> BOOLEAN]
      BY <1>0, <2>4, EmptiedTypes DEF FreeNodes, TypeOK
    <3>2. TypeOK'
      BY <1>0, <2>1, <2>3, <3>1 DEF TypeOK, Doing
    <3> QED
      BY <2>1, <2>2, <2>4, <3>2, EmptiedIInv DEF FreeNodes
  <2>5. CASE UNCHANGED <<queues, history>>
    <3>1. TypeOK'
      BY <1>0, <2>1, <2>3, <2>5 DEF TypeOK, Doing
    <3> QED
      BY <2>1, <2>2, <2>5, <3>1, CallerMovesIInv
  <2> QED
    BY <2>1, <2>4, <2>5
<1>3. CASE ~(\E f \in FaultKinds : Faults(f)) /\ ReplaceFree(c)
  <2>1. PICK s \in Slots : s = slot[c]
    BY <1>0
  <2>2. /\ pc[c] \in {"create_free", "destroy_free"}
        /\ has_queue' = [has_queue EXCEPT ![s] = FALSE] /\ stale' = [stale EXCEPT ![s] = FALSE]
        /\ queue' = [queue EXCEPT ![s] = <<>>] /\ leaked' = leaked \cup Elements(s)
        /\ GoesTo(c, "create_new") \/ Return(c)
        /\ UNCHANGED <<initialized, owner, counter, thread_id, active_thread_count, max_size,
                       fault, sent, received, discarded, exposed>>
    BY <1>3, <2>1 DEF ReplaceFree, FaultKinds
  <2>3. /\ pc' \in [Callers -> Doing] /\ slot' \in [Callers -> Slots]
        /\ asked' \in [Callers -> 0..MaxRegistrations]
    BY <1>0, <2>2 DEF GoesTo, Return, TypeOK, Doing
  <2>4. \A d \in Callers : pc'[d] \in {"waiting", "woken"} =>
               pc[d] \in {"waiting", "woken"} /\ asked'[d] = asked[d] /\ slot'[d] = slot[d]
    BY <1>0, <2>2 DEF GoesTo, Return, TypeOK
  <2>5. /\ queue' \in [Slots -> Seq(Messages)] /\ leaked' \subseteq Messages
        /\ stale' \in [Slots -> BOOLEAN] /\ has_queue' \in [Slots -> BOOLEAN]
    BY <1>0, <2>2, EmptiedTypes DEF TypeOK
  <2>6. TypeOK'
    BY <1>0, <2>2, <2>3, <2>5 DEF TypeOK, Doing
  <2> QED
    BY <2>2, <2>4, <2>6, EmptiedIInv
<1>4. CASE \E n \in QueueSizes : CreateQueue(c, n)
  <2>1. PICK n \in QueueSizes : CreateQueue(c, n)
    BY <1>4
  <2>2. n \in Nat /\ has_queue \in [Slots -> BOOLEAN] /\ max_size \in [Slots -> Nat]
    BY <1>0, Constants DEF TypeOK
  <2>3. has_queue' \in [Slots -> BOOLEAN] /\ max_size' \in [Slots -> Nat]
    <3>1. \/ /\ has_queue' = [has_queue EXCEPT ![slot[c]] = TRUE]
             /\ max_size' = [max_size EXCEPT ![slot[c]] = n]
          \/ UNCHANGED <<has_queue, max_size>>
      BY <2>1 DEF CreateQueue
    <3> QED
      BY <2>2, <3>1
  <2>4. TypeOK'
    BY <1>0, <2>1, <2>3 DEF CreateQueue, Return, TypeOK
  <2> QED
    BY <1>0, <2>1, <2>4, CallerMovesIInv DEF CreateQueue, Return, TypeOK
<1> QED
  BY <1>1, <1>2, <1>3, <1>4

(* A message is accepted.                                                  *)
LEMMA SendMessageIInv ==
    ASSUME IInv, NEW c \in Callers, NEW id \in Ids, NEW p \in Priorities, SendMessage(c, id, p)
    PROVE  IInv'
<1>1. CASE \E f \in FaultKinds : Faults(f)
  BY <1>1, FaultsIInv
<1>2. CASE ~\E f \in FaultKinds : Faults(f)
  <2> DEFINE m == [seq |-> sent + 1, to |-> id, priority |-> p]
  <2>1. PICK s \in FindThread(id) :
          /\ queue' = [queue EXCEPT ![s] = InsertAt(queue[s], InsertPosition(queue[s], p), m)]
          /\ SignalNotEmpty(s) /\ sent' = sent + 1
          /\ exposed' = exposed \/ exposed' = exposed \cup {m}
          /\ UNCHANGED <<table, max_size, stale, slot, asked, fault, received, discarded,
                         leaked>>
    BY <1>2 DEF SendMessage, Misuse, FaultKinds
  <2>2. s \in Slots /\ thread_id[s] = id
    BY DEF FindThread, Registered
  <2>3. sent \in Nat /\ sent < MaxSends /\ queue[s] \in Seq(Messages) /\ MaxSends \in Nat
    BY <2>2, Constants DEF SendMessage, IInv, TypeOK
  <2>4. m \in Messages /\ m.seq = sent + 1 /\ m.priority = p /\ m.to = id
    BY <2>3 DEF Messages
  <2>5. \A t \in Slots : \A i \in DOMAIN queue[t] : queue[t][i].seq \in Nat
    <3>1. \A t \in Slots : \A i \in DOMAIN queue[t] : queue[t][i] \in Messages
      BY LenProperties, ElementOfSeq DEF IInv, TypeOK
    <3> QED
      BY <3>1, MessageFields
  <2>6. \A i \in DOMAIN queue[s] : queue[s][i].seq < m.seq
    BY <2>2, <2>3, <2>4, <2>5 DEF IInv, Addressed
  <2>7. Ordered(queue[s])
    BY <2>2 DEF IInv, QueuesOrdered
  <2> DEFINE r == InsertAt(queue[s], InsertPosition(queue[s], p), m)
  <2>8. /\ r \in Seq(Messages) /\ Ordered(r)
        /\ \A j \in DOMAIN r : r[j] = m \/ \E i \in DOMAIN queue[s] : r[j] = queue[s][i]
    BY <2>3, <2>4, <2>6, <2>7, InsertKeepsOrder
  <2> HIDE DEF m, r
  <2>9. \A t \in Slots : queue'[t] = IF t = s THEN r ELSE queue[t]
    BY <2>1, <2>2 DEF IInv, TypeOK, r
  <2>10. /\ pc' \in [Callers -> Doing]
         /\ \A d \in Callers : pc'[d] \in {"waiting", "woken"} => pc[d] \in {"waiting", "woken"}
    BY <2>1 DEF SignalNotEmpty, WaitingAt, IInv, TypeOK, Doing
  <2>11. TypeOK'
    <3>1. queue' \in [Slots -> Seq(Messages)]
      BY <2>1, <2>8, <2>9 DEF IInv, TypeOK, r
    <3>2. sent' \in 0..MaxSends
      BY <2>1, <2>3
    <3>3. exposed' \subseteq Messages
      BY <2>1, <2>4 DEF IInv, TypeOK
    <3> QED
      BY <2>1, <2>10, <3>1, <3>2, <3>3 DEF IInv, TypeOK, Doing
  <2>12. IdsOnce' /\ Handed'
    BY <2>1 DEF IInv, IdsOnce, Handed, Gone
  <2>13. Pointers'
    BY <2>1, <2>10 DEF IInv, Pointers, Gone
  <2>14. Addressed'
    <3> SUFFICES ASSUME NEW t \in Slots, NEW i \in DOMAIN queue'[t]
                 PROVE  queue'[t][i].to = thread_id[t] /\ queue'[t][i].seq <= sent + 1
      BY <2>1 DEF Addressed
    <3>1. CASE queue'[t][i] = m
      <4>1. t = s
        <5> SUFFICES ASSUME t # s PROVE FALSE
          OBVIOUS
        <5>1. i \in DOMAIN queue[t] /\ queue[t][i] = m
          BY <2>9, <3>1
        <5>2. m.seq <= sent
          BY <5>1 DEF IInv, Addressed
        <5> QED
          BY <2>3, <2>4, <5>2
      <4> QED
        BY <2>2, <2>3, <2>4, <3>1, <4>1
    <3>2. CASE queue'[t][i] # m
      <4>1. PICK j \in DOMAIN queue[t] : queue'[t][i] = queue[t][j]
        BY <2>8, <2>9, <3>2
      <4>2. queue[t][j].to = thread_id[t] /\ queue[t][j].seq <= sent
        BY DEF IInv, Addressed
      <4> QED
        BY <2>3, <2>5, <4>1, <4>2
    <3> QED
      BY <3>1, <3>2
  <2>15. QueuesOrdered'
    BY <2>8, <2>9 DEF IInv, QueuesOrdered
  <2> QED
    BY <2>11, <2>12, <2>13, <2>14, <2>15 DEF IInv
<1> QED
  BY <1>1, <1>2

(* The three ends of a look at the queue of entry s: a message, the end of *)
(* the time, or a wait.                                                    *)
LEMMA LookIInv ==
    ASSUME IInv, NEW c \in Callers, NEW s \in Slots, NEW id \in Ids,
           id <= counter,
           \/ thread_id[s] = id
           \/ Gone(thread_id, id) /\ pc[c] = "woken" /\ slot[c] = s /\ asked[c] = id,
           Take(c, s, id) \/ TimeOut(c, s) \/ WaitForMessage(c, s, id)
    PROVE  IInv'
<1>1. CASE Take(c, s, id)
  BY <1>1, TakeIInv
<1>2. CASE TimeOut(c, s)
  <2>1. 1 \in Slots /\ 0 \in 0..MaxRegistrations
    BY Constants DEF Slots
  <2>2. TypeOK'
    BY <1>2, <2>1 DEF TimeOut, Return, IInv, TypeOK
  <2> QED
    BY <1>2, <2>2, CallerMovesIInv DEF TimeOut, Return, IInv, TypeOK
<1>3. CASE WaitForMessage(c, s, id)
  <2>1. id \in 0..MaxRegistrations
    BY DEF Ids
  <2>2. TypeOK'
    BY <1>3, <2>1 DEF WaitForMessage, IInv, TypeOK
  <2> QED
    BY <1>3, <2>2, CallerMovesIInv DEF WaitForMessage, IInv, TypeOK
<1> QED
  BY <1>1, <1>2, <1>3

(* thread_comm_receive_message, before and after its waits.                *)
LEMMA ReceiveIInv ==
    ASSUME IInv, NEW c \in Callers,
           ReceiverReturns(c) \/ \E id \in Ids : ReceiveMessage(c, id)
    PROVE  IInv'
<1>1. CASE \E f \in FaultKinds : Faults(f)
  BY <1>1, FaultsIInv
<1>2. CASE /\ ~\E f \in FaultKinds : Faults(f)
           /\ ReceiverReturns(c)
  <2>1. /\ pc[c] = "woken"
        /\ \/ Take(c, slot[c], asked[c]) \/ TimeOut(c, slot[c])
           \/ WaitForMessage(c, slot[c], asked[c])
    BY <1>2 DEF ReceiverReturns, Misuse, FaultKinds
  <2>2. /\ slot[c] \in Slots
        /\ asked[c] \in Ids /\ asked[c] <= counter
        /\ thread_id[slot[c]] = asked[c] \/ Gone(thread_id, asked[c])
    BY <2>1 DEF IInv, TypeOK, Pointers
  <2> QED
    BY <2>1, <2>2, LookIInv
<1>3. CASE /\ ~\E f \in FaultKinds : Faults(f)
           /\ \E id \in Ids : ReceiveMessage(c, id)
  <2>0. PICK id \in Ids : ReceiveMessage(c, id)
    BY <1>3
  <2>1. PICK s \in FindThread(id) :
          Take(c, s, id) \/ TimeOut(c, s) \/ WaitForMessage(c, s, id)
    BY <1>3, <2>0 DEF ReceiveMessage, Misuse, FaultKinds
  <2>2. s \in Slots /\ thread_id[s] = id /\ id <= counter
    BY DEF FindThread, Registered, IInv, IdsOnce
  <2> QED
    BY <2>1, <2>2, LookIInv
<1> QED
  BY <1>1, <1>2, <1>3

(* clear_message_queue, and a wakeup.                                      *)
LEMMA ClearIInv ==
    ASSUME IInv, NEW c \in Callers,
           SpuriousWake(c) \/ ClearTest(c) \/ ClearTake(c) \/ \E id \in Ids : ClearQueue(c, id)
    PROVE  IInv'
<1>0. 1 \in Slots /\ 0 \in 0..MaxRegistrations
  BY Constants DEF Slots
<1>1. CASE \E f \in FaultKinds : Faults(f)
  BY <1>1, FaultsIInv
<1>2. CASE SpuriousWake(c)
  <2>1. TypeOK'
    BY <1>2 DEF SpuriousWake, IInv, TypeOK
  <2> QED
    BY <1>2, <2>1, CallerMovesIInv DEF SpuriousWake, IInv, TypeOK
<1>3. CASE \E id \in Ids : ClearQueue(c, id)
  <2>1. TypeOK'
    BY <1>3, SMTT(40) DEF ClearQueue, FindThread, Registered, IInv, TypeOK
  <2> QED
    BY <1>3, <2>1, CallerMovesIInv, ZenonT(60) DEF ClearQueue, IInv, TypeOK
<1>4. CASE /\ \E d \in {"clear_test", "clear_take"} : GoesTo(c, d) \/ Return(c)
           /\ UNCHANGED <<table, queues, fault, history>>
  <2>1. TypeOK'
    BY <1>0, <1>4, ZenonT(60) DEF Return, GoesTo, IInv, TypeOK
  <2> QED
    BY <1>4, <2>1, CallerMovesIInv DEF Return, GoesTo, IInv, TypeOK
<1>5. CASE ~(\E f \in FaultKinds : Faults(f)) /\ ClearTest(c)
  BY <1>4, <1>5 DEF ClearTest, FaultKinds
<1>6. CASE ~(\E f \in FaultKinds : Faults(f)) /\ ClearTake(c)
  <2> DEFINE s == slot[c]
  <2>1. s \in Slots /\ queue[s] \in Seq(Messages) /\ queue \in [Slots -> Seq(Messages)]
        /\ Ordered(queue[s]) /\ discarded \subseteq Messages
    BY DEF IInv, TypeOK, QueuesOrdered
  <2>2. CASE queue[s] = <<>>
    BY <1>4, <1>6, <2>2 DEF ClearTake, Misuse, FaultKinds
  <2>3. CASE queue[s] # <<>>
    <3>1. /\ discarded' = discarded \cup {Head(queue[s])}
          /\ queue' = [queue EXCEPT ![s] = Tail(queue[s])]
          /\ GoesTo(c, "clear_test")
          /\ UNCHANGED <<table, max_size, stale, fault, sent, received, exposed, leaked>>
      BY <1>6, <2>3 DEF ClearTake, Misuse, FaultKinds
    <3>2. /\ Head(queue[s]) \in Messages
          /\ Tail(queue[s]) \in Seq(Messages) /\ Ordered(Tail(queue[s]))
          /\ \A i \in DOMAIN Tail(queue[s]) :
                i + 1 \in DOMAIN queue[s] /\ Tail(queue[s])[i] = queue[s][i + 1]
      BY <2>1, <2>3, TailKeeps
    <3> HIDE DEF s
    <3>3. queue' \in [Slots -> Seq(Messages)] /\ discarded' \subseteq Messages
      BY <2>1, <3>1, <3>2
    <3>8. /\ pc' \in [Callers -> Doing]
          /\ \A d \in Callers : pc'[d] \in {"waiting", "woken"} => pc[d] \in {"waiting", "woken"}
      BY <3>1 DEF GoesTo, IInv, TypeOK, Doing
    <3>4. TypeOK'
      BY <3>1, <3>3, <3>8 DEF GoesTo, IInv, TypeOK, Doing
    <3>5. \A t \in Slots : queue'[t] = IF t = s THEN Tail(queue[s]) ELSE queue[t]
      BY <2>1, <3>1
    <3>6. \A t \in Slots : \A i \in DOMAIN queue'[t] :
             \E j \in DOMAIN queue[t] : queue'[t][i] = queue[t][j]
      BY <3>2, <3>5
    <3>7. \A t \in Slots : Ordered(queue'[t])
      BY <3>2, <3>5 DEF IInv, QueuesOrdered
    <3> QED
      BY <3>1, <3>4, <3>6, <3>7, <3>8, RemovalIInv DEF GoesTo
  <2> QED
    BY <2>2, <2>3
<1> QED
  BY <1>1, <1>2, <1>3, <1>5, <1>6

(* The invariant holds in every reachable state.                           *)
LEMMA InvariantHolds == Spec => []IInv
<1>1. IInv /\ [Next]_vars => IInv'
  <2> SUFFICES ASSUME IInv, [Next]_vars PROVE IInv'
    OBVIOUS
  <2>1. CASE UNCHANGED vars
    <3>1. TypeOK'
      BY <2>1 DEF vars, IInv, TypeOK
    <3> QED
      BY <2>1, <3>1, CallerMovesIInv DEF vars
  <2>2. CASE Next
    BY <2>2, InitModuleIInv, LockAgainIInv, RegisterThreadIInv, UnregisterIInv,
       ReplaceIInv, SendMessageIInv, ReceiveIInv, ClearIInv DEF Next
  <2> QED
    BY <2>1, <2>2
<1> QED
  BY <1>1, InitIInv, PTL DEF Spec

-----------------------------------------------------------------------------
(* thread_comm_send_message and thread_comm_receive_message: every queue   *)
(* is ordered by priority and, within a priority, by acceptance.           *)
THEOREM PriorityCorrect == Spec => []PriorityOrder
<1>1. IInv => PriorityOrder
  BY DEF IInv, QueuesOrdered, Ordered, Goes, PriorityOrder
<1> QED
  BY <1>1, InvariantHolds, PTL

(* The pointer that thread_comm_receive_message keeps over its wait leads  *)
(* it to another thread's message only after its own id was unregistered.  *)
THEOREM DeliveryCorrect == Spec => []DeliveredToAddressee
<1>1. IInv => DeliveredToAddressee
  BY DEF IInv, Handed, Gone, DeliveredToAddressee
<1> QED
  BY <1>1, InvariantHolds, PTL
-----------------------------------------------------------------------------
(***************************************************************************)
(* Nobody sleeps beside a message.  The property is inductive as it        *)
(* stands: every step is looked at entry by entry, with the receivers that *)
(* wait and that were woken there.                                         *)
(***************************************************************************)

(* What ReceiverAwake says of one entry.                                   *)
AwakeAt(s) == WaitingAt(s) # {} => Len(queue[s]) <= Cardinality(WokenAt(s))

(* The callers are finitely many, so sets of them can be counted.          *)
LEMMA CallersCounted ==
    \A T \in SUBSET Callers : IsFiniteSet(T) /\ Cardinality(T) \in Nat
  BY CallersAssumption, FS_Subset, FS_CardinalityType

LEMMA CountMonotone ==
    ASSUME NEW T \in SUBSET Callers, NEW U \in SUBSET Callers, T \subseteq U
    PROVE  Cardinality(T) <= Cardinality(U)
  BY CallersCounted, FS_Subset

LEMMA CountAdded ==
    ASSUME NEW T \in SUBSET Callers, NEW c \in Callers, c \notin T
    PROVE  Cardinality(T \cup {c}) = Cardinality(T) + 1
  BY CallersCounted, FS_AddElement

LEMMA CountRemoved ==
    ASSUME NEW T \in SUBSET Callers, NEW c \in T
    PROVE  Cardinality(T \ {c}) = Cardinality(T) - 1
  BY CallersCounted, FS_RemoveElement

(* Nobody new waits at the entry, nobody woken there left, and its queue   *)
(* did not grow.                                                           *)
LEMMA QuietAwake ==
    ASSUME TypeOK, TypeOK', NEW s \in Slots, AwakeAt(s),
           WaitingAt(s)' \subseteq WaitingAt(s), WokenAt(s) \subseteq WokenAt(s)',
           Len(queue'[s]) <= Len(queue[s])
    PROVE  AwakeAt(s)'
<1>1. PICK T, U : T = WokenAt(s) /\ U = WokenAt(s)'
  OBVIOUS
<1>2. T \in SUBSET Callers /\ U \in SUBSET Callers /\ T \subseteq U
  BY <1>1 DEF WokenAt
<1>3. Cardinality(T) \in Nat /\ Cardinality(U) \in Nat /\ Cardinality(T) <= Cardinality(U)
  BY ONLY <1>2, CallersCounted, CountMonotone
<1>4. Len(queue'[s]) \in Nat /\ Len(queue[s]) \in Nat
  BY LenProperties DEF TypeOK
<1>5. WaitingAt(s)' # {} => Len(queue[s]) <= Cardinality(T)
  BY <1>1 DEF AwakeAt
<1>6. WaitingAt(s)' # {} => Len(queue'[s]) <= Cardinality(U)
  BY <1>3, <1>4, <1>5
<1>7. Cardinality(U) = Cardinality(WokenAt(s))'
  BY <1>1
<1> QED
  BY <1>6, <1>7 DEF AwakeAt

(* An empty queue leaves nothing to wake for.                              *)
LEMMA EmptyAwake ==
    ASSUME NEW s \in Slots, queue'[s] = <<>>
    PROVE  AwakeAt(s)'
<1>1. PICK U : U = WokenAt(s)'
  OBVIOUS
<1>2. U \in SUBSET Callers
  BY <1>1 DEF WokenAt
<1>3. Cardinality(U) \in Nat
  BY <1>2, CallersCounted
<1>4. Len(queue'[s]) = 0
  OBVIOUS
<1>5. Len(queue'[s]) <= Cardinality(U)
  BY <1>3, <1>4
<1>6. Cardinality(U) = Cardinality(WokenAt(s))'
  BY <1>1
<1> QED
  BY <1>5, <1>6 DEF AwakeAt

(* Nobody waits at the entry.                                              *)
LEMMA NobodyAwake ==
    ASSUME NEW s \in Slots, WaitingAt(s)' = {}
    PROVE  AwakeAt(s)'
  BY DEF AwakeAt

(* The callers' places and the queues stay as they are for entry s.        *)
LEMMA UntouchedAwake ==
    ASSUME TypeOK, TypeOK', NEW s \in Slots, AwakeAt(s), queue'[s] = queue[s],
           \A c \in Callers : pc'[c] \in {"waiting", "woken"} \/ pc[c] \in {"waiting", "woken"} =>
               \/ pc'[c] = pc[c] /\ slot'[c] = slot[c]
               \/ slot[c] # s /\ slot'[c] # s
    PROVE  AwakeAt(s)'
<1>1. WaitingAt(s)' \subseteq WaitingAt(s) /\ WokenAt(s) \subseteq WokenAt(s)'
  BY DEF WaitingAt, WokenAt
<1>2. Len(queue'[s]) <= Len(queue[s])
  <2>1. Len(queue[s]) \in Nat
    BY LenProperties DEF TypeOK
  <2> QED
    BY <2>1
<1> QED
  BY <1>1, <1>2, QuietAwake

(* send_message wakes one of the receivers that wait, if any does.         *)
LEMMA SendAwake ==
    ASSUME IInv, TypeOK', ReceiverAwake, NEW c \in Callers, NEW id \in Ids, NEW p \in Priorities,
           SendMessage(c, id, p), fault' = fault
    PROVE  ReceiverAwake'
<1>0. TypeOK /\ fault = "none"
  BY DEF IInv, SendMessage, Idle
<1> SUFFICES ASSUME NEW t \in Slots PROVE AwakeAt(t)'
  BY DEF ReceiverAwake, AwakeAt
<1> DEFINE m == [seq |-> sent + 1, to |-> id, priority |-> p]
<1>1. PICK s \in FindThread(id) :
        /\ queue' = [queue EXCEPT ![s] = InsertAt(queue[s], InsertPosition(queue[s], p), m)]
        /\ SignalNotEmpty(s) /\ UNCHANGED slot
  BY <1>0 DEF SendMessage, Misuse, Faults
<1>2. s \in Slots
  BY DEF FindThread, Registered
<1>3. AwakeAt(t) /\ AwakeAt(s)
  BY <1>2 DEF ReceiverAwake, AwakeAt
<1>4. CASE WaitingAt(s) = {} /\ t = s
  <2>1. pc' = pc
    BY <1>1, <1>4 DEF SignalNotEmpty
  <2>2. WaitingAt(s)' = {}
    BY <1>1, <1>4, <2>1 DEF WaitingAt
  <2> QED
    BY <1>4, <2>2, NobodyAwake
<1>5. CASE WaitingAt(s) # {} /\ t = s
  <2>1. PICK d \in WaitingAt(s) : pc' = [pc EXCEPT ![d] = "woken"]
    BY <1>1, <1>5 DEF SignalNotEmpty
  <2>2. d \in Callers /\ pc[d] = "waiting" /\ slot[d] = s
    BY DEF WaitingAt
  <2>3. PICK T, U : T = WokenAt(s) /\ U = WokenAt(s)'
    OBVIOUS
  <2>4. T \in SUBSET Callers /\ d \notin T
    BY <2>2, <2>3 DEF WokenAt
  <2>5. U = T \cup {d}
    <3>1. \A e \in Callers : pc'[e] = IF e = d THEN "woken" ELSE pc[e]
      BY <1>0, <2>1, <2>2 DEF TypeOK
    <3> QED
      BY <1>1, <2>2, <2>3, <3>1 DEF WokenAt
  <2>6. Cardinality(U) = Cardinality(T) + 1 /\ Cardinality(T) \in Nat
    BY ONLY <2>2, <2>4, <2>5, CountAdded, CallersCounted
  <2>7. Len(queue[s]) <= Cardinality(T)
    BY <1>3, <1>5, <2>3 DEF AwakeAt
  <2>8. Len(queue'[s]) = Len(queue[s]) + 1 /\ Len(queue[s]) \in Nat
    <3>1. queue[s] \in Seq(Messages) /\ Len(queue[s]) \in Nat
      BY <1>0, <1>2, LenProperties DEF TypeOK
    <3>2. queue'[s] = InsertAt(queue[s], InsertPosition(queue[s], p), m)
      BY <1>0, <1>1, <1>2 DEF TypeOK
    <3>3. queue'[s] \in Seq(Messages)
      BY <1>2 DEF TypeOK
    <3>4. DOMAIN queue'[s] = 1..Len(queue[s]) + 1
      BY <3>2 DEF InsertAt
    <3>5. DOMAIN queue'[s] = 1..Len(queue'[s]) /\ Len(queue'[s]) \in Nat
      BY <3>3, LenProperties
    <3> QED
      BY <3>1, <3>4, <3>5
  <2>9. Len(queue'[s]) <= Cardinality(U)
    BY <2>6, <2>7, <2>8
  <2>10. Cardinality(U) = Cardinality(WokenAt(s))'
    BY <2>3
  <2> QED
    BY <1>5, <2>9, <2>10 DEF AwakeAt
<1>6. CASE t # s
  <2>1. queue'[t] = queue[t]
    BY <1>0, <1>1, <1>2, <1>6 DEF TypeOK
  <2>2. \A e \in Callers : pc'[e] = pc[e] \/ slot[e] = s
    BY <1>0, <1>1 DEF SignalNotEmpty, WaitingAt, TypeOK
  <2> QED
    BY <1>0, <1>1, <1>3, <1>6, <2>1, <2>2, UntouchedAwake
<1> QED
  BY <1>4, <1>5, <1>6

(* A look at the queue of entry s, by a caller that comes or by one that   *)
(* was woken there.                                                        *)
LEMMA LookAwake ==
    ASSUME IInv, TypeOK', ReceiverAwake, NEW c \in Callers, NEW s \in Slots, NEW id,
           pc[c] = "idle" \/ (pc[c] = "woken" /\ slot[c] = s),
           Take(c, s, id) \/ TimeOut(c, s) \/ WaitForMessage(c, s, id)
    PROVE  ReceiverAwake'
<1>0. TypeOK
  BY DEF IInv
<1> SUFFICES ASSUME NEW u \in Slots PROVE AwakeAt(u)'
  BY DEF ReceiverAwake, AwakeAt
<1>1. AwakeAt(u) /\ AwakeAt(s)
  BY DEF ReceiverAwake, AwakeAt
<1>2. \A e \in Callers \ {c} : pc'[e] = pc[e] /\ slot'[e] = slot[e]
  BY <1>0 DEF Take, TimeOut, WaitForMessage, Return, TypeOK
<1>3. pc'[c] = "idle" \/ (pc'[c] = "waiting" /\ slot'[c] = s)
  <2>1. CASE Take(c, s, id) \/ TimeOut(c, s)
    BY <1>0, <2>1 DEF Take, TimeOut, Return, TypeOK
  <2>2. CASE WaitForMessage(c, s, id)
    BY <1>0, <2>2 DEF WaitForMessage, TypeOK
  <2> QED
    BY <2>1, <2>2
<1>4. CASE u # s
  <2>1. queue'[u] = queue[u]
    BY <1>0, <1>4 DEF Take, TimeOut, WaitForMessage, TypeOK
  <2>2. Len(queue'[u]) <= Len(queue[u])
    <3>1. Len(queue[u]) \in Nat
      BY <1>0, LenProperties DEF TypeOK
    <3> QED
      BY <2>1, <3>1
  <2>3. WaitingAt(u)' \subseteq WaitingAt(u) /\ WokenAt(u) \subseteq WokenAt(u)'
    BY <1>2, <1>3, <1>4 DEF WaitingAt, WokenAt
  <2> QED
    BY <1>0, <1>1, <2>2, <2>3, QuietAwake
<1>5. CASE u = s /\ ~Take(c, s, id)
  <2>1. queue'[s] = <<>>
    BY <1>5 DEF TimeOut, WaitForMessage
  <2> QED
    BY <1>5, <2>1, EmptyAwake
<1>6. CASE u = s /\ Take(c, s, id)
  <2>1. pc'[c] = "idle"
    BY <1>0, <1>6 DEF Take, Return, TypeOK
  <2>2. queue[s] \in Seq(Messages) /\ queue[s] # <<>> /\ queue'[s] = Tail(queue[s])
    BY <1>0, <1>6 DEF Take, TypeOK
  <2>3. /\ Len(queue[s]) \in Nat /\ Len(queue'[s]) = Len(queue[s]) - 1
        /\ Len(queue'[s]) \in Nat
    <3>1. Len(Tail(queue[s])) = Len(queue[s]) - 1 /\ Tail(queue[s]) \in Seq(Messages)
      BY <2>2, HeadTailProperties
    <3> QED
      BY <2>2, <3>1, LenProperties
  <2>4. WaitingAt(s)' \subseteq WaitingAt(s)
    BY <1>2, <2>1 DEF WaitingAt
  <2>5. CASE pc[c] = "idle"
    <3>1. WokenAt(s) \subseteq WokenAt(s)'
      BY <1>2, <2>5 DEF WokenAt
    <3>2. Len(queue'[s]) <= Len(queue[s])
      BY <2>3
    <3> QED
      BY <1>0, <1>1, <1>6, <2>4, <3>1, <3>2, QuietAwake
  <2>6. CASE pc[c] = "woken" /\ slot[c] = s
    <3>1. PICK T, U : T = WokenAt(s) /\ U = WokenAt(s)'
      OBVIOUS
    <3>2. T \in SUBSET Callers /\ c \in T
      BY <2>6, <3>1 DEF WokenAt
    <3>3. U = T \ {c}
      BY <1>2, <2>1, <3>1 DEF WokenAt
    <3>4. Cardinality(U) = Cardinality(T) - 1 /\ Cardinality(T) \in Nat
      BY ONLY <3>2, <3>3, CountRemoved, CallersCounted
    <3>5. WaitingAt(s)' # {} => Len(queue[s]) <= Cardinality(T)
      BY <1>1, <2>4, <3>1 DEF AwakeAt
    <3>6. WaitingAt(s)' # {} => Len(queue'[s]) <= Cardinality(U)
      BY <2>3, <3>4, <3>5
    <3>7. Cardinality(U) = Cardinality(WokenAt(s))'
      BY <3>1
    <3> QED
      BY <1>6, <3>6, <3>7 DEF AwakeAt
  <2> QED
    BY <2>5, <2>6
<1> QED
  BY <1>4, <1>5, <1>6

(* Steps that leave the receivers alone and shorten queues at most.        *)
Shortened ==
    \A s \in Slots : \/ queue'[s] = queue[s]
                     \/ queue'[s] = <<>>
                     \/ queue[s] # <<>> /\ queue'[s] = Tail(queue[s])

Undisturbed ==
    \A c \in Callers :
        pc'[c] \in {"waiting", "woken"} \/ pc[c] \in {"waiting", "woken"} =>
            pc'[c] = pc[c] /\ slot'[c] = slot[c]

LEMMA ShorterAwake ==
    ASSUME TypeOK, TypeOK', ReceiverAwake, Shortened, Undisturbed
    PROVE  ReceiverAwake'
<1> SUFFICES ASSUME NEW s \in Slots PROVE AwakeAt(s)'
  BY DEF ReceiverAwake, AwakeAt
<1>1. AwakeAt(s)
  BY DEF ReceiverAwake, AwakeAt
<1>2. CASE queue'[s] = queue[s]
  BY <1>1, <1>2, UntouchedAwake DEF Undisturbed
<1>3. CASE queue'[s] = <<>>
  BY <1>3, EmptyAwake
<1>4. CASE queue[s] # <<>> /\ queue'[s] = Tail(queue[s])
  <2>1. queue[s] \in Seq(Messages)
    BY DEF TypeOK
  <2>2. Len(Tail(queue[s])) = Len(queue[s]) - 1 /\ Len(queue[s]) \in Nat
    BY <1>4, <2>1, HeadTailProperties, LenProperties
  <2>3. Len(queue'[s]) <= Len(queue[s])
    BY <1>4, <2>2
  <2>4. WaitingAt(s)' \subseteq WaitingAt(s) /\ WokenAt(s) \subseteq WokenAt(s)'
    BY DEF WaitingAt, WokenAt, Undisturbed
  <2> QED
    BY <1>1, <2>3, <2>4, QuietAwake
<1> QED
  BY <1>2, <1>3, <1>4 DEF Shortened

LEMMA WakeAwake ==
    ASSUME TypeOK, TypeOK', ReceiverAwake, NEW c \in Callers, SpuriousWake(c)
    PROVE  ReceiverAwake'
<1> SUFFICES ASSUME NEW s \in Slots PROVE AwakeAt(s)'
  BY DEF ReceiverAwake, AwakeAt
<1>1. AwakeAt(s)
  BY DEF ReceiverAwake, AwakeAt
<1>2. \A e \in Callers : pc'[e] = IF e = c THEN "woken" ELSE pc[e]
  BY DEF SpuriousWake, TypeOK
<1>3. WaitingAt(s)' \subseteq WaitingAt(s) /\ WokenAt(s) \subseteq WokenAt(s)'
  BY <1>2 DEF SpuriousWake, WaitingAt, WokenAt
<1>4. Len(queue'[s]) <= Len(queue[s])
  <2>1. Len(queue[s]) \in Nat
    BY LenProperties DEF TypeOK
  <2> QED
    BY <2>1 DEF SpuriousWake
<1> QED
  BY <1>1, <1>3, <1>4, QuietAwake

(* Every step keeps a receiver awake for every message.                    *)
LEMMA StepAwake ==
    ASSUME IInv, IInv', ReceiverAwake, [Next]_vars
    PROVE  ReceiverAwake'
<1>0. TypeOK /\ TypeOK'
  BY DEF IInv
<1>1. CASE UNCHANGED <<queue, pc, slot>>
  <2>1. Shortened /\ Undisturbed
    BY <1>1 DEF Shortened, Undisturbed
  <2> QED
    BY ONLY ReceiverAwake, <1>0, <2>1, ShorterAwake
<1>2. CASE Next /\ ~UNCHANGED <<queue, pc, slot>>
  <2>0. \A f : ~Faults(f)
    BY <1>2 DEF Faults
  <2>1. PICK c \in Callers :
          \/ InitModule(c) \/ CleanupModule(c) \/ RegisterThread(c) \/ GetAllThreads(c)
          \/ ReceiverReturns(c) \/ SpuriousWake(c) \/ ClearTest(c) \/ ClearTake(c)
          \/ ReplaceFree(c) \/ \E n \in QueueSizes : CreateQueue(c, n)
          \/ \E id \in Ids :
                \/ UnregisterThread(c, id) \/ BroadcastMessage(c, id)
                \/ \E p \in Priorities : SendMessage(c, id, p)
                \/ ReceiveMessage(c, id) \/ ClearQueue(c, id)
                \/ \E op \in {"create", "destroy"} : ReplaceQueue(c, id, op)
    BY <1>2 DEF Next
  <2>2. CASE InitModule(c)
    <3>1. \A s \in Slots : queue'[s] = <<>>
      BY <2>2 DEF InitModule
    <3>2. UNCHANGED <<pc, slot>>
      BY <2>2 DEF InitModule
    <3>8. Shortened /\ Undisturbed
      BY <3>1, <3>2 DEF Shortened, Undisturbed
    <3> QED
      BY ONLY ReceiverAwake, <1>0, <3>8, ShorterAwake
  <2>3. CASE CleanupModule(c) \/ GetAllThreads(c) \/ \E id \in Ids : BroadcastMessage(c, id)
    <3>1. pc[c] = "idle" /\ LockAgain(c)
      BY <1>2, <2>3 DEF CleanupModule, GetAllThreads, BroadcastMessage, Idle
    <3>2. UNCHANGED <<queue, slot>> /\ \A e \in Callers : pc'[e] = IF e = c THEN "stuck" ELSE pc[e]
      BY <1>0, <3>1 DEF LockAgain, TypeOK
    <3>8. Shortened /\ Undisturbed
      BY <3>1, <3>2 DEF Shortened, Undisturbed
    <3> QED
      BY ONLY ReceiverAwake, <1>0, <3>8, ShorterAwake
  <2>4. CASE RegisterThread(c)
    <3>1. UNCHANGED <<pc, slot>>
      BY <2>4 DEF RegisterThread
    <3>2. PICK s \in FreeSlot : queue' = [queue EXCEPT ![s] = <<>>]
      BY <1>2, <2>4, <3>1 DEF RegisterThread
    <3>3. \A t \in Slots : queue'[t] = queue[t] \/ queue'[t] = <<>>
      BY <1>0, <3>2 DEF TypeOK
    <3>8. Shortened /\ Undisturbed
      BY <3>1, <3>3 DEF Shortened, Undisturbed
    <3> QED
      BY ONLY ReceiverAwake, <1>0, <3>8, ShorterAwake
  <2>5. CASE SpuriousWake(c)
    BY <1>0, <2>5, WakeAwake
  <2>6. CASE ReceiverReturns(c)
    <3>1. /\ pc[c] = "woken"
          /\ \/ Take(c, slot[c], asked[c]) \/ TimeOut(c, slot[c])
             \/ WaitForMessage(c, slot[c], asked[c])
      BY <2>0, <2>6 DEF ReceiverReturns, Misuse, FaultKinds
    <3>2. slot[c] \in Slots
      BY <1>0 DEF TypeOK
    <3> QED
      BY <1>0, <3>1, <3>2, LookAwake
  <2>7. CASE \E id \in Ids : ReceiveMessage(c, id)
    <3>0. PICK id \in Ids : ReceiveMessage(c, id)
      BY <2>7
    <3>1. pc[c] = "idle"
      BY <3>0 DEF ReceiveMessage, Idle
    <3>2. PICK s \in FindThread(id) :
            Take(c, s, id) \/ TimeOut(c, s) \/ WaitForMessage(c, s, id)
      BY <2>0, <3>0 DEF ReceiveMessage, Misuse, FaultKinds
    <3>3. s \in Slots
      BY DEF FindThread, Registered
    <3> QED
      BY <1>0, <3>1, <3>2, <3>3, LookAwake
  <2>8. CASE \E id \in Ids : \E p \in Priorities : SendMessage(c, id, p)
    <3>1. PICK id \in Ids, p \in Priorities : SendMessage(c, id, p)
      BY <2>8
    <3>2. fault' = fault
      BY <2>0, <3>1 DEF SendMessage, Misuse
    <3> QED
      BY <1>0, <3>1, <3>2, SendAwake
  <2>9. CASE \/ ClearTest(c) \/ ClearTake(c) \/ ReplaceFree(c)
             \/ \E n \in QueueSizes : CreateQueue(c, n)
             \/ \E id \in Ids : \/ ClearQueue(c, id)
                                \/ \E op \in {"create", "destroy"} : ReplaceQueue(c, id, op)
    <3>0. \E d \in Doing \ {"waiting", "woken"}, t \in Slots :
             pc' = [pc EXCEPT ![c] = d] /\ (slot' = slot \/ slot' = [slot EXCEPT ![c] = t])
      <4>0. 1 \in Slots
        BY Constants DEF Slots
      <4>1. CASE ClearTest(c) \/ ClearTake(c)
        BY <2>0, <4>0, <4>1 DEF ClearTest, ClearTake, Misuse, GoesTo, Return, Doing
      <4>2. CASE ReplaceFree(c)
        BY <2>0, <4>0, <4>2 DEF ReplaceFree, GoesTo, Return, Doing
      <4>3. CASE \E n \in QueueSizes : CreateQueue(c, n)
        BY <4>0, <4>3 DEF CreateQueue, Return, Doing
      <4>4. CASE \E id \in Ids : ClearQueue(c, id)
        BY <4>4 DEF ClearQueue, FindThread, Registered, Doing
      <4>5. CASE \E id \in Ids : \E op \in {"create", "destroy"} : ReplaceQueue(c, id, op)
        BY <2>0, <4>5 DEF ReplaceQueue, FindThread, Registered, Doing
      <4> QED
        BY <2>9, <4>1, <4>2, <4>3, <4>4, <4>5
    <3>1. \A e \in Callers : e # c => pc'[e] = pc[e] /\ slot'[e] = slot[e]
      BY <1>0, <3>0 DEF TypeOK
    <3>2. pc[c] \notin {"waiting", "woken"}
      BY <2>9 DEF ClearQueue, ClearTest, ClearTake, ReplaceQueue, ReplaceFree, CreateQueue, Idle
    <3>3. pc'[c] \notin {"waiting", "woken"}
      BY <1>0, <3>0 DEF TypeOK
    <3>4. PICK s \in Slots : \/ queue' = queue
                             \/ queue' = [queue EXCEPT ![s] = <<>>]
                             \/ queue[s] # <<>> /\ queue' = [queue EXCEPT ![s] = Tail(queue[s])]
      <4>1. slot[c] \in Slots
        BY <1>0 DEF TypeOK
      <4>2. CASE ClearTest(c) \/ (\E id \in Ids : ClearQueue(c, id))
                 \/ \E n \in QueueSizes : CreateQueue(c, n)
        BY <2>0, <4>1, <4>2 DEF ClearTest, ClearQueue, CreateQueue
      <4>3. CASE ClearTake(c)
        BY <2>0, <4>1, <4>3 DEF ClearTake, Misuse
      <4>4. CASE ReplaceFree(c)
        BY <2>0, <4>1, <4>4 DEF ReplaceFree
      <4>5. CASE \E id \in Ids : \E op \in {"create", "destroy"} : ReplaceQueue(c, id, op)
        BY <2>0, <4>5 DEF ReplaceQueue, FreeNodes, FindThread, Registered
      <4> QED
        BY <2>9, <4>2, <4>3, <4>4, <4>5
    <3>5. \A t \in Slots : queue'[t] = queue[t] \/ queue'[t] = <<>>
                           \/ (queue[t] # <<>> /\ queue'[t] = Tail(queue[t]))
      BY <1>0, <3>4 DEF TypeOK
    <3>8. Shortened /\ Undisturbed
      BY <3>1, <3>2, <3>3, <3>5 DEF Shortened, Undisturbed
    <3> QED
      BY ONLY ReceiverAwake, <1>0, <3>8, ShorterAwake
  <2>10. CASE \E id \in Ids : UnregisterThread(c, id)
    <3>1. PICK s \in Slots : queue' = [queue EXCEPT ![s] = <<>>] /\ UNCHANGED <<pc, slot>>
      BY <2>0, <2>10 DEF UnregisterThread, FreeNodes, FindThread, Registered
    <3>2. \A t \in Slots : queue'[t] = queue[t] \/ queue'[t] = <<>>
      BY <1>0, <3>1 DEF TypeOK
    <3>8. Shortened /\ Undisturbed
      BY <3>1, <3>2 DEF Shortened, Undisturbed
    <3> QED
      BY ONLY ReceiverAwake, <1>0, <3>8, ShorterAwake
  <2> QED
    BY <2>1, <2>2, <2>3, <2>4, <2>5, <2>6, <2>7, <2>8, <2>9, <2>10
<1> QED
  BY <1>1, <1>2 DEF vars

LEMMA InitAwake == Init => ReceiverAwake
<1> SUFFICES ASSUME Init PROVE ReceiverAwake
  OBVIOUS
<1>1. \A s \in Slots : WaitingAt(s) = {}
  BY DEF Init, WaitingAt
<1> QED
  BY <1>1 DEF ReceiverAwake

(* pthread_cond_signal of enqueue_message and the waits of                 *)
(* thread_comm_receive_message: while a receiver sleeps at an entry, as    *)
(* many others were woken there as it holds messages.                      *)
THEOREM AwakeCorrect == Spec => []ReceiverAwake
<1>1. Init => ReceiverAwake
  BY InitAwake
<1>2. IInv /\ IInv' /\ ReceiverAwake /\ [Next]_vars => ReceiverAwake'
  BY StepAwake
<1> QED
  BY <1>1, <1>2, InvariantHolds, PTL DEF Spec

-----------------------------------------------------------------------------
(***************************************************************************)
(* The places of the accepted messages.  A number is in one place of one   *)
(* queue, or was handed out to one receiver, or was freed, or lies in a    *)
(* freed queue.  An entry without a thread, and every entry before init    *)
(* and after cleanup, has an empty queue, so nothing is lost when init, or *)
(* the next thread that is registered there, starts with a new one.        *)
(***************************************************************************)

EmptyUnused ==
    /\ \A s \in Slots : thread_id[s] = 0 => queue[s] = <<>>
    /\ ~initialized => \A s \in Slots : thread_id[s] = 0

(* Message number n is the i-th of queue s.                                *)
QueuedAt(n, s, i) == i \in DOMAIN queue[s] /\ queue[s][i].seq = n
HandedOut(n) == \E r \in received : r.msg.seq = n
Freed(n) == \E m \in discarded \cup leaked : m.seq = n

OnePlace ==
    /\ \A n \in 1..sent :
          (\E s \in Slots : \E i \in DOMAIN queue[s] : QueuedAt(n, s, i)) \/ HandedOut(n) \/ Freed(n)
    /\ \A s, t \in Slots : \A i \in DOMAIN queue[s], j \in DOMAIN queue[t] :
          queue[s][i].seq = queue[t][j].seq => s = t /\ i = j
    /\ \A x, y \in received : x.msg.seq = y.msg.seq => x.by = y.by
    /\ \A n \in Nat : ~(HandedOut(n) /\ Freed(n))
    /\ \A s \in Slots : \A i \in DOMAIN queue[s] :
          ~HandedOut(queue[s][i].seq) /\ ~Freed(queue[s][i].seq)
    /\ \A n \in Nat : HandedOut(n) \/ Freed(n) => n <= sent

(* A message that is freed and one that is lost are two, and who is about  *)
(* to free a queue frees it with exposed messages only.                    *)
LeakInv ==
    /\ leaked \subseteq exposed
    /\ \A m \in discarded, x \in leaked : m.seq # x.seq
    /\ \A c \in Callers : pc[c] \in {"create_free", "destroy_free"} =>
          \A i \in DOMAIN queue[slot[c]] : queue[slot[c]][i] \in exposed

PlaceInv == EmptyUnused /\ OnePlace /\ LeakInv

(* The messages of a queue and their numbers.                              *)
LEMMA QueueFacts ==
    ASSUME TypeOK, NEW s \in Slots
    PROVE  /\ queue[s] \in Seq(Messages) /\ Len(queue[s]) \in Nat
           /\ DOMAIN queue[s] = 1..Len(queue[s])
           /\ \A i \in DOMAIN queue[s] : queue[s][i] \in Messages /\ queue[s][i].seq \in Nat
<1>1. queue[s] \in Seq(Messages)
  BY DEF TypeOK
<1>2. Len(queue[s]) \in Nat /\ DOMAIN queue[s] = 1..Len(queue[s])
  BY <1>1, LenProperties
<1>3. \A i \in DOMAIN queue[s] : queue[s][i] \in Messages
  BY <1>1, <1>2, ElementOfSeq
<1> QED
  BY <1>1, <1>2, <1>3, MessageFields

(* Nothing moves.                                                          *)
LEMMA SamePlaces ==
    ASSUME OnePlace, UNCHANGED <<sent, received, discarded, leaked>>,
           \A s \in Slots : queue'[s] = queue[s]
    PROVE  OnePlace'
<1>1. /\ \A n : HandedOut(n)' <=> HandedOut(n)
      /\ \A n : Freed(n)' <=> Freed(n)
  BY DEF HandedOut, Freed
<1>2. \A n : \A s \in Slots : \A i : QueuedAt(n, s, i)' <=> QueuedAt(n, s, i)
  BY DEF QueuedAt
<1>3. \A n \in 1..sent' :
         (\E s \in Slots : \E i \in DOMAIN queue'[s] : QueuedAt(n, s, i)')
            \/ HandedOut(n)' \/ Freed(n)'
  BY <1>1, <1>2 DEF OnePlace
<1>4. \A s, t \in Slots : \A i \in DOMAIN queue'[s], j \in DOMAIN queue'[t] :
         queue'[s][i].seq = queue'[t][j].seq => s = t /\ i = j
  BY DEF OnePlace
<1>5. \A x, y \in received' : x.msg.seq = y.msg.seq => x.by = y.by
  BY DEF OnePlace
<1>6. \A s \in Slots : \A i \in DOMAIN queue'[s] :
         ~HandedOut(queue[s][i].seq)' /\ ~Freed(queue[s][i].seq)'
  BY DEF OnePlace, HandedOut, Freed
<1>7. \A n \in Nat : ~(HandedOut(n)' /\ Freed(n)') /\ (HandedOut(n)' \/ Freed(n)' => n <= sent')
  BY <1>1 DEF OnePlace
<1> QED
  BY ONLY <1>3, <1>4, <1>5, <1>6, <1>7 DEF OnePlace, QueuedAt, HandedOut, Freed

(* The first message of queue s is taken out, by a receiver or by clear.   *)
LEMMA HeadPlaces ==
    ASSUME IInv, OnePlace, NEW s \in Slots, queue[s] # <<>>,
           queue' = [queue EXCEPT ![s] = Tail(queue[s])], sent' = sent, leaked' = leaked,
           \/ /\ \E id : received' = received \cup {[msg |-> Head(queue[s]), by |-> id]}
              /\ discarded' = discarded
           \/ received' = received /\ discarded' = discarded \cup {Head(queue[s])}
    PROVE  OnePlace'
<1> DEFINE q == queue[s]
<1>0. TypeOK
  BY DEF IInv
<1>1. /\ Head(q) = q[1] /\ 1 \in DOMAIN q /\ q[1].seq \in Nat
      /\ Len(Tail(q)) = Len(q) - 1 /\ Len(q) \in Nat
      /\ DOMAIN q = 1..Len(q) /\ DOMAIN Tail(q) = 1..(Len(q) - 1)
      /\ \A i \in DOMAIN Tail(q) : i + 1 \in DOMAIN q /\ Tail(q)[i] = q[i + 1]
  <2>1. q \in Seq(Messages) /\ q # <<>> /\ Ordered(q)
    BY <1>0 DEF TypeOK, IInv, QueuesOrdered
  <2>2. /\ Head(q) = q[1] /\ 1 \in DOMAIN q /\ Tail(q) \in Seq(Messages)
        /\ \A i \in DOMAIN Tail(q) : i + 1 \in DOMAIN q /\ Tail(q)[i] = q[i + 1]
    BY <2>1, TailKeeps
  <2>3. Len(Tail(q)) = Len(q) - 1
    BY <2>1, HeadTailProperties
  <2>4. DOMAIN Tail(q) = 1..Len(Tail(q))
    BY <2>2, LenProperties
  <2> QED
    BY <1>0, <2>2, <2>3, <2>4, QueueFacts
<1>2. PICK h : h = Head(q)
  OBVIOUS
<1>3. \A t \in Slots : queue'[t] = IF t = s THEN Tail(q) ELSE queue[t]
  BY <1>0 DEF TypeOK
<1>5. \A n : /\ HandedOut(n)' \/ Freed(n)' <=> HandedOut(n) \/ Freed(n) \/ n = h.seq
             /\ HandedOut(n) => HandedOut(n)'
             /\ Freed(n) => Freed(n)'
             /\ ~(HandedOut(n)' /\ Freed(n)') \/ (HandedOut(n) /\ (Freed(n) \/ n = h.seq))
                                              \/ (Freed(n) /\ n = h.seq)
  <2>1. CASE received' = received /\ discarded' = discarded \cup {h}
    BY <2>1 DEF HandedOut, Freed
  <2>2. CASE (\E id : received' = received \cup {[msg |-> h, by |-> id]}) /\ discarded' = discarded
    <3>1. PICK id : received' = received \cup {[msg |-> h, by |-> id]}
      BY <2>2
    <3>4. PICK r : r = [msg |-> h, by |-> id]
      OBVIOUS
    <3>5. r.msg = h /\ received' = received \cup {r}
      BY <3>1, <3>4
    <3>6. (\A x \in received' : x \in received \/ x = r) /\ r \in received'
          /\ \A x \in received : x \in received'
      BY <3>5
    <3>2. \A n : HandedOut(n)' <=> HandedOut(n) \/ n = h.seq
      BY ONLY <3>5, <3>6 DEF HandedOut
    <3>3. \A n : Freed(n)' <=> Freed(n)
      BY <2>2 DEF Freed
    <3> QED
      BY ONLY <3>2, <3>3
  <2> QED
    BY <1>2, <2>1, <2>2
<1>6. ~HandedOut(h.seq) /\ ~Freed(h.seq) /\ h.seq \in Nat /\ h.seq <= sent
  BY <1>1, <1>2 DEF OnePlace, IInv, Addressed
<1>7. \A t \in Slots : \A i \in DOMAIN queue'[t] :
         \E j \in DOMAIN queue[t] : /\ queue'[t][i] = queue[t][j] /\ queue[t][j].seq # h.seq
                                    /\ j = IF t = s THEN i + 1 ELSE i
  <2> SUFFICES ASSUME NEW t \in Slots, NEW i \in DOMAIN queue'[t]
               PROVE  \E j \in DOMAIN queue[t] : /\ queue'[t][i] = queue[t][j]
                                                 /\ queue[t][j].seq # h.seq
                                                 /\ j = IF t = s THEN i + 1 ELSE i
    OBVIOUS
  <2>1. CASE t = s
    <3>1. i \in DOMAIN Tail(q) /\ queue'[t][i] = Tail(q)[i]
      BY <1>3, <2>1
    <3>2. i + 1 \in DOMAIN q /\ queue'[t][i] = q[i + 1] /\ i + 1 # 1
      BY <1>1, <3>1
    <3>3. q[i + 1].seq # q[1].seq
      BY <1>1, <3>2 DEF OnePlace
    <3> QED
      BY <1>1, <1>2, <2>1, <3>2, <3>3
  <2>2. CASE t # s
    <3>1. i \in DOMAIN queue[t] /\ queue'[t][i] = queue[t][i]
      BY <1>3, <2>2
    <3>2. queue[t][i].seq # q[1].seq
      BY <1>1, <2>2, <3>1 DEF OnePlace
    <3> QED
      BY <1>1, <1>2, <2>2, <3>1, <3>2
  <2> QED
    BY <2>1, <2>2
<1>8. ASSUME NEW n \in 1..sent
      PROVE  \/ \E t \in Slots : \E i \in DOMAIN queue'[t] : queue'[t][i].seq = n
             \/ HandedOut(n)' \/ Freed(n)'
  <2>1. CASE HandedOut(n) \/ Freed(n) \/ n = h.seq
    BY <1>5, <2>1
  <2>2. CASE n # h.seq /\ \E t \in Slots : \E i \in DOMAIN queue[t] : QueuedAt(n, t, i)
    <3>0. PICK t \in Slots : \E i \in DOMAIN queue[t] : QueuedAt(n, t, i)
      BY <2>2
    <3>1. PICK i \in DOMAIN queue[t] : queue[t][i].seq = n
      BY <3>0 DEF QueuedAt
    <3>2. CASE t # s
      BY <1>3, <3>1, <3>2
    <3>3. CASE t = s
      <4>1. i # 1 /\ i \in 1..Len(q)
        BY <1>1, <1>2, <2>2, <3>1, <3>3
      <4>2. i - 1 \in DOMAIN Tail(q) /\ (i - 1) + 1 = i
        BY <1>1, <4>1
      <4>4. PICK k : k = i - 1
        OBVIOUS
      <4>5. k \in DOMAIN Tail(q) /\ Tail(q)[k] = q[i]
        BY <1>1, <4>2, <4>4
      <4>3. queue'[t][k].seq = n /\ k \in DOMAIN queue'[t]
        BY ONLY <1>3, <3>1, <3>3, <4>5, t \in Slots
      <4> QED
        BY <4>3
    <3> QED
      BY <3>2, <3>3
  <2> QED
    BY <2>1, <2>2 DEF OnePlace
<1>9. \A t, u \in Slots : \A i \in DOMAIN queue'[t], j \in DOMAIN queue'[u] :
         queue'[t][i].seq = queue'[u][j].seq => t = u /\ i = j
  <2> SUFFICES ASSUME NEW t \in Slots, NEW u \in Slots,
                      NEW i \in DOMAIN queue'[t], NEW j \in DOMAIN queue'[u],
                      queue'[t][i].seq = queue'[u][j].seq
               PROVE  t = u /\ i = j
    OBVIOUS
  <2>1. PICK a \in DOMAIN queue[t] : queue'[t][i] = queue[t][a] /\ a = IF t = s THEN i + 1 ELSE i
    BY <1>7
  <2>2. PICK b \in DOMAIN queue[u] : queue'[u][j] = queue[u][b] /\ b = IF u = s THEN j + 1 ELSE j
    BY <1>7
  <2>3. t = u /\ a = b
    BY <2>1, <2>2 DEF OnePlace
  <2>4. CASE t = s
    <3>1. i \in Nat /\ j \in Nat
      BY <1>1, <1>3, <2>3, <2>4
    <3> QED
      BY <2>1, <2>2, <2>3, <2>4, <3>1
  <2> QED
    BY <2>1, <2>2, <2>3, <2>4
<1>10. \A x, y \in received' : x.msg.seq = y.msg.seq => x.by = y.by
  <2>1. CASE received' = received
    BY <2>1 DEF OnePlace
  <2>2. CASE \E id : received' = received \cup {[msg |-> h, by |-> id]}
    <3>1. PICK id : received' = received \cup {[msg |-> h, by |-> id]}
      BY <2>2
    <3>2. \A x \in received : x.msg.seq # h.seq
      BY <1>6 DEF HandedOut
    <3>3. \A x \in received' : x \in received \/ (x.msg.seq = h.seq /\ x.by = id)
      BY <3>1
    <3> QED
      BY <3>2, <3>3 DEF OnePlace
  <2> QED
    BY <1>2, <2>1, <2>2
<1>11. \A n \in Nat : ~(HandedOut(n)' /\ Freed(n)')
  BY <1>5, <1>6 DEF OnePlace
<1>12. \A t \in Slots : \A i \in DOMAIN queue'[t] :
          ~HandedOut(queue[t][i].seq)' /\ ~Freed(queue[t][i].seq)'
  <2> SUFFICES ASSUME NEW t \in Slots, NEW i \in DOMAIN queue'[t]
               PROVE  ~HandedOut(queue[t][i].seq)' /\ ~Freed(queue[t][i].seq)'
    OBVIOUS
  <2>1. PICK j \in DOMAIN queue[t] : queue'[t][i] = queue[t][j] /\ queue[t][j].seq # h.seq
    BY <1>7
  <2>2. PICK n : n = queue[t][j].seq
    OBVIOUS
  <2>3. ~HandedOut(n) /\ ~Freed(n) /\ n # h.seq
    BY <2>1, <2>2 DEF OnePlace
  <2>4. ~HandedOut(n)' /\ ~Freed(n)'
    BY <1>5, <2>3
  <2> QED
    BY <2>1, <2>2, <2>4 DEF HandedOut, Freed
<1>13. \A n \in Nat : HandedOut(n)' \/ Freed(n)' => n <= sent
  BY <1>5, <1>6 DEF OnePlace
<1> QED
  BY <1>8, <1>9, <1>10, <1>11, <1>12, <1>13 DEF OnePlace, QueuedAt, HandedOut, Freed

(* All messages of queue s are freed with it, or lost.                     *)
LEMMA EmptiedPlaces ==
    ASSUME IInv, OnePlace, NEW s \in Slots, queue' = [queue EXCEPT ![s] = <<>>],
           \/ discarded' = discarded \cup Elements(s) /\ leaked' = leaked
           \/ leaked' = leaked \cup Elements(s) /\ discarded' = discarded,
           UNCHANGED <<sent, received>>
    PROVE  OnePlace'
<1>0. TypeOK
  BY DEF IInv
<1>1. \A t \in Slots : queue'[t] = IF t = s THEN <<>> ELSE queue[t]
  BY <1>0 DEF TypeOK
<1>2. \A t \in Slots : \A i \in DOMAIN queue'[t] :
         t # s /\ i \in DOMAIN queue[t] /\ queue'[t][i] = queue[t][i]
  <2>1. DOMAIN <<>> = {}
    OBVIOUS
  <2> QED
    BY <1>1, <2>1
<1>4. \A n : HandedOut(n)' <=> HandedOut(n)
  BY DEF HandedOut
<1>5. \A n : Freed(n)' <=> Freed(n) \/ \E i \in DOMAIN queue[s] : queue[s][i].seq = n
  BY DEF Freed, Elements
<1>6. \A i \in DOMAIN queue[s] : queue[s][i].seq \in Nat /\ queue[s][i].seq <= sent
  BY <1>0, QueueFacts DEF IInv, Addressed
<1>7. \A n \in 1..sent : \/ \E t \in Slots : \E i \in DOMAIN queue'[t] : queue'[t][i].seq = n
                         \/ HandedOut(n)' \/ Freed(n)'
  <2> SUFFICES ASSUME NEW n \in 1..sent, ~HandedOut(n)', ~Freed(n)'
               PROVE  \E t \in Slots : \E i \in DOMAIN queue'[t] : queue'[t][i].seq = n
    OBVIOUS
  <2>1. ~HandedOut(n) /\ ~Freed(n)
    BY <1>4, <1>5
  <2>2. PICK t \in Slots : \E i \in DOMAIN queue[t] : QueuedAt(n, t, i)
    BY <2>1 DEF OnePlace
  <2>3. PICK i \in DOMAIN queue[t] : queue[t][i].seq = n
    BY <2>2 DEF QueuedAt
  <2>4. t # s
    BY <1>5, <2>3
  <2> QED
    BY <1>1, <2>3, <2>4
<1>8. \A t, u \in Slots : \A i \in DOMAIN queue'[t], j \in DOMAIN queue'[u] :
         queue'[t][i].seq = queue'[u][j].seq => t = u /\ i = j
  BY <1>2 DEF OnePlace
<1>9. \A n \in Nat : ~(HandedOut(n)' /\ Freed(n)')
  BY <1>4, <1>5 DEF OnePlace
<1>10. \A t \in Slots : \A i \in DOMAIN queue'[t] :
          ~HandedOut(queue[t][i].seq)' /\ ~Freed(queue[t][i].seq)'
  <2> SUFFICES ASSUME NEW t \in Slots, NEW i \in DOMAIN queue'[t]
               PROVE  ~HandedOut(queue[t][i].seq)' /\ ~Freed(queue[t][i].seq)'
    OBVIOUS
  <2>1. t # s /\ i \in DOMAIN queue[t] /\ queue'[t][i] = queue[t][i]
    BY <1>2
  <2>2. PICK n : n = queue[t][i].seq
    OBVIOUS
  <2>3. ~HandedOut(n) /\ ~Freed(n)
    BY <2>1, <2>2 DEF OnePlace
  <2>4. \A j \in DOMAIN queue[s] : queue[s][j].seq # n
    BY <2>1, <2>2 DEF OnePlace
  <2>5. ~HandedOut(n)' /\ ~Freed(n)'
    BY <1>4, <1>5, <2>3, <2>4
  <2> QED
    BY <2>1, <2>2, <2>5 DEF HandedOut, Freed
<1>11. \A n \in Nat : HandedOut(n)' \/ Freed(n)' => n <= sent
  BY <1>4, <1>5, <1>6 DEF OnePlace
<1>12. \A x, y \in received' : x.msg.seq = y.msg.seq => x.by = y.by
  BY DEF OnePlace
<1> QED
  BY <1>7, <1>8, <1>9, <1>10, <1>11, <1>12 DEF OnePlace, QueuedAt, HandedOut, Freed

(* Where the messages of a queue go when one is inserted.                  *)
LEMMA InsertIndices ==
    ASSUME NEW q \in Seq(Messages), NEW m \in Messages, NEW k \in 1..Len(q) + 1,
           NEW r, r = InsertAt(q, k, m)
    PROVE  /\ DOMAIN r = 1..Len(q) + 1 /\ k \in DOMAIN r /\ r[k] = m
           /\ DOMAIN q = 1..Len(q) /\ Len(q) \in Nat
           /\ \A j \in DOMAIN r : j # k => \E i \in DOMAIN q :
                 r[j] = q[i] /\ i = IF j < k THEN j ELSE j - 1
           /\ \A i \in DOMAIN q : \E j \in DOMAIN r : r[j] = q[i]
<1>1. DOMAIN q = 1..Len(q) /\ Len(q) \in Nat
  BY LenProperties
<1>2. /\ DOMAIN r = 1..Len(q) + 1
      /\ \A j \in 1..Len(q) + 1 : r[j] = IF j < k THEN q[j] ELSE IF j = k THEN m ELSE q[j - 1]
  BY DEF InsertAt
<1>3. r[k] = m /\ k \in DOMAIN r
  BY <1>1, <1>2
<1>4. ASSUME NEW j \in 1..Len(q) + 1, j # k
      PROVE  \E i \in DOMAIN q : r[j] = q[i] /\ i = IF j < k THEN j ELSE j - 1
  <2>1. CASE j < k
    <3>1. j \in DOMAIN q /\ r[j] = q[j]
      BY <1>1, <1>2, <2>1
    <3> QED
      BY <2>1, <3>1
  <2>2. CASE ~(j < k)
    <3>1. PICK i : i = j - 1
      OBVIOUS
    <3>2. i \in DOMAIN q /\ r[j] = q[i]
      BY <1>1, <1>2, <1>4, <2>2, <3>1
    <3> QED
      BY <2>2, <3>1, <3>2
  <2> QED
    BY <2>1, <2>2
<1>5. ASSUME NEW i \in 1..Len(q)
      PROVE  \E j \in DOMAIN r : r[j] = q[i]
  <2>1. CASE i < k
    BY <1>1, <1>2, <2>1
  <2>2. CASE ~(i < k)
    <3>1. PICK j : j = i + 1
      OBVIOUS
    <3>2. j \in DOMAIN r /\ j - 1 = i /\ ~(j < k) /\ j # k
      BY <1>1, <1>2, <2>2, <3>1
    <3>3. r[j] = q[i]
      BY <1>2, <3>2
    <3> QED
      BY <3>2, <3>3
  <2> QED
    BY <2>1, <2>2
<1> QED
  BY <1>1, <1>2, <1>3, <1>4, <1>5

(* A message with the next number is accepted.                             *)
LEMMA AcceptedPlaces ==
    ASSUME IInv, TypeOK', OnePlace, NEW s \in Slots, NEW m \in Messages, m.seq = sent + 1,
           NEW k \in 1..Len(queue[s]) + 1,
           queue' = [queue EXCEPT ![s] = InsertAt(queue[s], k, m)],
           sent' = sent + 1, UNCHANGED <<received, discarded, leaked>>
    PROVE  OnePlace'
<1>0. TypeOK /\ sent \in Nat
  <2>1. TypeOK
    BY DEF IInv
  <2>2. sent \in Nat
    BY <2>1 DEF TypeOK
  <2> QED
    BY <2>1, <2>2
<1>1. PICK q, r : q = queue[s] /\ r = InsertAt(q, k, m)
  OBVIOUS
<1>2. \A t \in Slots : queue'[t] = IF t = s THEN r ELSE queue[t]
  BY <1>0, <1>1 DEF TypeOK
<1>3. q \in Seq(Messages) /\ k \in 1..Len(q) + 1
  BY <1>0, <1>1 DEF TypeOK
<1>4. /\ DOMAIN r = 1..Len(q) + 1 /\ k \in DOMAIN r /\ r[k] = m
      /\ DOMAIN q = 1..Len(q) /\ Len(q) \in Nat
      /\ \A j \in DOMAIN r : j # k => \E i \in DOMAIN q :
            r[j] = q[i] /\ i = IF j < k THEN j ELSE j - 1
      /\ \A i \in DOMAIN q : \E j \in DOMAIN r : r[j] = q[i]
  BY <1>1, <1>3, InsertIndices
<1>5. \A t \in Slots : \A i \in DOMAIN queue[t] : queue[t][i].seq \in Nat /\ queue[t][i].seq <= sent
  BY <1>0, QueueFacts DEF IInv, Addressed
<1>6. \A t \in Slots : \A j \in DOMAIN queue'[t] :
         \/ t = s /\ j = k /\ queue'[t][j].seq = sent + 1
         \/ ~(t = s /\ j = k) /\ \E i \in DOMAIN queue[t] :
               /\ queue'[t][j] = queue[t][i] /\ i = IF t = s /\ ~(j < k) THEN j - 1 ELSE j
  <2> SUFFICES ASSUME NEW t \in Slots, NEW j \in DOMAIN queue'[t]
               PROVE  \/ t = s /\ j = k /\ queue'[t][j].seq = sent + 1
                      \/ ~(t = s /\ j = k) /\ \E i \in DOMAIN queue[t] :
                            /\ queue'[t][j] = queue[t][i]
                            /\ i = IF t = s /\ ~(j < k) THEN j - 1 ELSE j
    OBVIOUS
  <2>1. CASE t # s
    BY <1>2, <2>1
  <2>2. CASE t = s /\ j = k
    BY <1>2, <1>4, <2>2
  <2>3. CASE t = s /\ j # k
    <3>1. j \in DOMAIN r /\ queue'[t][j] = r[j]
      BY <1>2, <2>3
    <3>2. PICK i \in DOMAIN q : r[j] = q[i] /\ i = IF j < k THEN j ELSE j - 1
      BY <1>4, <2>3, <3>1
    <3> QED
      BY <1>1, <2>3, <3>1, <3>2
  <2> QED
    BY <2>1, <2>2, <2>3
<1>8. \A n : (HandedOut(n)' <=> HandedOut(n)) /\ (Freed(n)' <=> Freed(n))
  BY DEF HandedOut, Freed
<1>9. ASSUME NEW n \in 1..sent + 1
      PROVE  \/ \E t \in Slots : \E i \in DOMAIN queue'[t] : queue'[t][i].seq = n
             \/ HandedOut(n)' \/ Freed(n)'
  <2>1. CASE n = sent + 1
    BY <1>2, <1>4, <2>1
  <2>2. CASE n # sent + 1 /\ ~HandedOut(n) /\ ~Freed(n)
    <3>1. n \in 1..sent
      BY <1>0, <2>2
    <3>2. PICK t \in Slots : \E i \in DOMAIN queue[t] : QueuedAt(n, t, i)
      BY <2>2, <3>1 DEF OnePlace
    <3>3. PICK i \in DOMAIN queue[t] : queue[t][i].seq = n
      BY <3>2 DEF QueuedAt
    <3>4. CASE t = s
      <4>1. PICK j \in DOMAIN r : r[j] = q[i]
        BY <1>1, <1>4, <3>4
      <4> QED
        BY <1>1, <1>2, <3>3, <3>4, <4>1
    <3>5. CASE t # s
      BY <1>2, <3>3, <3>5
    <3> QED
      BY <3>4, <3>5
  <2> QED
    BY <1>8, <2>1, <2>2
<1>10. \A t, u \in Slots : \A i \in DOMAIN queue'[t], j \in DOMAIN queue'[u] :
          queue'[t][i].seq = queue'[u][j].seq => t = u /\ i = j
  <2> SUFFICES ASSUME NEW t \in Slots, NEW u \in Slots,
                      NEW i \in DOMAIN queue'[t], NEW j \in DOMAIN queue'[u],
                      queue'[t][i].seq = queue'[u][j].seq
               PROVE  t = u /\ i = j
    OBVIOUS
  <2>1. CASE t = s /\ i = k /\ u = s /\ j = k
    BY <2>1
  <2>2. CASE (t = s /\ i = k) # (u = s /\ j = k)
    <3>1. ~(\E a \in DOMAIN queue[t] : queue[t][a].seq = sent + 1)
          /\ ~(\E a \in DOMAIN queue[u] : queue[u][a].seq = sent + 1)
      BY <1>0, <1>5
    <3> QED
      BY <1>6, <2>2, <3>1
  <2>3. CASE ~(t = s /\ i = k) /\ ~(u = s /\ j = k)
    <3>1. PICK a \in DOMAIN queue[t] :
            queue'[t][i] = queue[t][a] /\ a = IF t = s /\ ~(i < k) THEN i - 1 ELSE i
      BY <1>6, <2>3
    <3>2. PICK b \in DOMAIN queue[u] :
            queue'[u][j] = queue[u][b] /\ b = IF u = s /\ ~(j < k) THEN j - 1 ELSE j
      BY <1>6, <2>3
    <3>3. t = u /\ a = b
      BY <3>1, <3>2 DEF OnePlace
    <3>4. CASE t # s
      BY <3>1, <3>2, <3>3, <3>4
    <3>5. CASE t = s
      <4>1. i \in Nat /\ j \in Nat /\ k \in Nat
        BY <1>2, <1>4, <3>3, <3>5
      <4>2. i # k /\ j # k
        BY <2>3, <3>3, <3>5
      <4>3. /\ a = IF i < k THEN i ELSE i - 1
            /\ a = IF j < k THEN j ELSE j - 1
        BY <3>1, <3>2, <3>3, <3>5
      <4> QED
        BY ONLY <3>3, <4>1, <4>2, <4>3
    <3> QED
      BY <3>4, <3>5
  <2> QED
    BY <2>1, <2>2, <2>3
<1>11. \A t \in Slots : \A i \in DOMAIN queue'[t] :
          ~HandedOut(queue[t][i].seq)' /\ ~Freed(queue[t][i].seq)'
  <2> SUFFICES ASSUME NEW t \in Slots, NEW i \in DOMAIN queue'[t]
               PROVE  ~HandedOut(queue[t][i].seq)' /\ ~Freed(queue[t][i].seq)'
    OBVIOUS
  <2>1. PICK n : n = queue'[t][i].seq
    OBVIOUS
  <2>2. ~HandedOut(n) /\ ~Freed(n)
    <3>1. CASE n = sent + 1
      <4>1. n \in Nat /\ ~(n <= sent)
        BY <1>0, <3>1
      <4> QED
        BY <4>1 DEF OnePlace
    <3>2. CASE n # sent + 1
      <4>1. PICK j \in DOMAIN queue[t] : n = queue[t][j].seq
        BY <1>6, <2>1, <3>2
      <4> QED
        BY <4>1 DEF OnePlace
    <3> QED
      BY <3>1, <3>2
  <2>3. ~HandedOut(n)' /\ ~Freed(n)'
    BY <1>8, <2>2
  <2> QED
    BY <2>1, <2>3 DEF HandedOut, Freed
<1>12. \A n \in Nat : ~(HandedOut(n)' /\ Freed(n)') /\ (HandedOut(n)' \/ Freed(n)' => n <= sent + 1)
  BY <1>0, <1>8 DEF OnePlace
<1>13. \A x, y \in received' : x.msg.seq = y.msg.seq => x.by = y.by
  BY DEF OnePlace
<1> QED
  BY <1>9, <1>10, <1>11, <1>12, <1>13 DEF OnePlace, QueuedAt, HandedOut, Freed

(* Entries without a thread stay empty.                                    *)
LEMMA StepUnused ==
    ASSUME IInv, EmptyUnused, Next
    PROVE  EmptyUnused'
<1>0. /\ TypeOK
      /\ thread_id \in [Slots -> 0..MaxRegistrations] /\ queue \in [Slots -> Seq(Messages)]
      /\ slot \in [Callers -> Slots]
  BY DEF IInv, TypeOK
<1>1. PICK c \in Callers :
        \/ InitModule(c) \/ CleanupModule(c) \/ RegisterThread(c) \/ GetAllThreads(c)
        \/ ReceiverReturns(c) \/ SpuriousWake(c) \/ ClearTest(c) \/ ClearTake(c)
        \/ ReplaceFree(c) \/ \E n \in QueueSizes : CreateQueue(c, n)
        \/ \E id \in Ids :
              \/ UnregisterThread(c, id) \/ BroadcastMessage(c, id)
              \/ \E p \in Priorities : SendMessage(c, id, p)
              \/ ReceiveMessage(c, id) \/ ClearQueue(c, id)
              \/ \E op \in {"create", "destroy"} : ReplaceQueue(c, id, op)
  BY DEF Next
<1>2. CASE UNCHANGED <<initialized, thread_id, queue>>
  BY <1>2 DEF EmptyUnused
<1>3. CASE InitModule(c)
  BY <1>3 DEF InitModule, EmptyUnused
<1>4. CASE CleanupModule(c)
  <2>1. CASE LockAgain(c)
    BY <1>2, <2>1 DEF LockAgain
  <2>2. CASE Registered = {} /\ UNCHANGED <<thread_id, queue>>
    BY <2>2 DEF EmptyUnused, Registered
  <2> QED
    BY <1>4, <2>1, <2>2 DEF CleanupModule
<1>5. CASE RegisterThread(c)
  <2>1. initialized' = TRUE
    BY <1>5 DEF RegisterThread, EmptyUnused
  <2>2. CASE UNCHANGED <<thread_id, queue>>
    BY <2>1, <2>2 DEF EmptyUnused
  <2>3. CASE ~UNCHANGED <<thread_id, queue>>
    <3>1. PICK s \in Slots : /\ thread_id' = [thread_id EXCEPT ![s] = counter + 1]
                             /\ queue' = [queue EXCEPT ![s] = <<>>]
      BY <1>5, <2>3 DEF RegisterThread, FreeSlot
    <3>2. \A t \in Slots : /\ t = s => queue'[t] = <<>>
                           /\ t # s => queue'[t] = queue[t] /\ thread_id'[t] = thread_id[t]
      BY <1>0, <3>1
    <3> QED
      BY <2>1, <3>2 DEF EmptyUnused
  <2> QED
    BY <2>2, <2>3
<1>6. CASE \/ \E id \in Ids : \/ UnregisterThread(c, id)
                               \/ \E op \in {"create", "destroy"} : ReplaceQueue(c, id, op)
           \/ ReplaceFree(c) \/ \E n \in QueueSizes : CreateQueue(c, n)
  <2>1. CASE \E f : Faults(f)
    BY <1>2, <2>1 DEF Faults
  <2>2. CASE ~\E f : Faults(f)
    <3>1. PICK s \in Slots : /\ queue' = [queue EXCEPT ![s] = <<>>] \/ queue' = queue
                             /\ \/ thread_id' = thread_id /\ initialized' = initialized
                                \/ /\ thread_id' = [thread_id EXCEPT ![s] = 0]
                                   /\ queue' = [queue EXCEPT ![s] = <<>>]
                                   /\ initialized /\ initialized' = initialized
      <4>1. CASE \E id \in Ids : UnregisterThread(c, id)
        BY <2>2, <4>1 DEF UnregisterThread, FreeNodes, FindThread, Registered
      <4>2. CASE \E id \in Ids : \E op \in {"create", "destroy"} : ReplaceQueue(c, id, op)
        BY <2>2, <4>2 DEF ReplaceQueue, FreeNodes, FindThread, Registered
      <4>3. CASE ReplaceFree(c)
        BY <1>0, <2>2, <4>3 DEF ReplaceFree
      <4>4. CASE \E n \in QueueSizes : CreateQueue(c, n)
        BY <1>0, <4>4 DEF CreateQueue
      <4> QED
        BY <1>6, <4>1, <4>2, <4>3, <4>4
    <3>2. \A t \in Slots : queue'[t] = <<>>
                           \/ (queue'[t] = queue[t] /\ thread_id'[t] = thread_id[t])
      BY <1>0, <3>1
    <3>3. ~initialized' => ~initialized /\ thread_id' = thread_id
      BY <3>1
    <3> QED
      BY <3>2, <3>3 DEF EmptyUnused
  <2> QED
    BY <2>1, <2>2
<1>7. CASE /\ UNCHANGED <<initialized, thread_id>>
           /\ \E s \in Slots : queue[s] # <<>> /\ queue' = [queue EXCEPT ![s] = Tail(queue[s])]
  <2>1. PICK s \in Slots : queue[s] # <<>> /\ queue' = [queue EXCEPT ![s] = Tail(queue[s])]
    BY <1>7
  <2>2. thread_id[s] # 0 /\ \A t \in Slots \ {s} : queue'[t] = queue[t]
    BY <1>0, <2>1 DEF EmptyUnused
  <2> QED
    BY <1>7, <2>2 DEF EmptyUnused
<1>8. CASE \E id \in Ids : \E p \in Priorities : SendMessage(c, id, p)
  <2>1. CASE \E f : Faults(f)
    BY <1>2, <2>1 DEF Faults
  <2>2. CASE ~\E f : Faults(f)
    <3>0. PICK s \in Registered : \E q : queue' = [queue EXCEPT ![s] = q]
      BY <1>8, <2>2 DEF SendMessage, Misuse, FindThread
    <3>1. PICK q : queue' = [queue EXCEPT ![s] = q]
      BY <3>0
    <3>2. UNCHANGED <<initialized, thread_id>>
      BY <1>8, <2>2 DEF SendMessage, Misuse
    <3>3. s \in Slots /\ thread_id[s] # 0 /\ \A t \in Slots \ {s} : queue'[t] = queue[t]
      BY <1>0, <3>1 DEF Registered
    <3> QED
      BY <3>2, <3>3 DEF EmptyUnused
  <2> QED
    BY <2>1, <2>2
<1>9. CASE ReceiverReturns(c) \/ \E id \in Ids : ReceiveMessage(c, id)
  <2>1. CASE \E f : Faults(f)
    BY <1>2, <2>1 DEF Faults
  <2>2. CASE ~\E f : Faults(f)
    <3>1. PICK s \in Slots : \E id :
             Take(c, s, id) \/ TimeOut(c, s) \/ WaitForMessage(c, s, id)
      <4>1. CASE ReceiverReturns(c)
        BY <1>0, <2>2, <4>1 DEF ReceiverReturns, Misuse, FaultKinds
      <4>2. CASE \E id \in Ids : ReceiveMessage(c, id)
        BY <2>2, <4>2 DEF ReceiveMessage, Misuse, FaultKinds, FindThread, Registered
      <4> QED
        BY <1>9, <4>1, <4>2
    <3>2. \/ UNCHANGED <<initialized, thread_id, queue>>
          \/ /\ UNCHANGED <<initialized, thread_id>>
             /\ queue[s] # <<>> /\ queue' = [queue EXCEPT ![s] = Tail(queue[s])]
      BY <3>1 DEF Take, TimeOut, WaitForMessage
    <3> QED
      BY <1>2, <1>7, <3>2
  <2> QED
    BY <2>1, <2>2
<1>10. CASE ClearTest(c) \/ ClearTake(c)
  <2>1. CASE \E f : Faults(f)
    BY <1>2, <2>1 DEF Faults
  <2>2. CASE ~\E f : Faults(f)
    <3>1. \/ UNCHANGED <<initialized, thread_id, queue>>
          \/ /\ UNCHANGED <<initialized, thread_id>>
             /\ queue[slot[c]] # <<>> /\ queue' = [queue EXCEPT ![slot[c]] = Tail(queue[slot[c]])]
      BY <1>10, <2>2 DEF ClearTest, ClearTake, Misuse
    <3> QED
      BY <1>0, <1>2, <1>7, <3>1
  <2> QED
    BY <2>1, <2>2
<1>11. CASE GetAllThreads(c) \/ SpuriousWake(c)
            \/ \E id \in Ids : BroadcastMessage(c, id) \/ ClearQueue(c, id)
  BY <1>2, <1>11 DEF GetAllThreads, LockAgain, SpuriousWake, BroadcastMessage, ClearQueue
<1> QED
  BY <1>1, <1>3, <1>4, <1>5, <1>6, <1>8, <1>9, <1>10, <1>11

(* No step loses or doubles a message.                                     *)
LEMMA StepOnePlace ==
    ASSUME IInv, IInv', PlaceInv, Next
    PROVE  OnePlace'
<1>0. /\ TypeOK /\ TypeOK' /\ OnePlace /\ EmptyUnused
      /\ queue \in [Slots -> Seq(Messages)] /\ slot \in [Callers -> Slots]
  BY DEF IInv, TypeOK, PlaceInv
<1>1. PICK c \in Callers :
        \/ InitModule(c) \/ CleanupModule(c) \/ RegisterThread(c) \/ GetAllThreads(c)
        \/ ReceiverReturns(c) \/ SpuriousWake(c) \/ ClearTest(c) \/ ClearTake(c)
        \/ ReplaceFree(c) \/ \E n \in QueueSizes : CreateQueue(c, n)
        \/ \E id \in Ids :
              \/ UnregisterThread(c, id) \/ BroadcastMessage(c, id)
              \/ \E p \in Priorities : SendMessage(c, id, p)
              \/ ReceiveMessage(c, id) \/ ClearQueue(c, id)
              \/ \E op \in {"create", "destroy"} : ReplaceQueue(c, id, op)
  BY DEF Next
<1>2. CASE UNCHANGED <<sent, received, discarded, leaked>> /\ \A s \in Slots : queue'[s] = queue[s]
  BY ONLY <1>0, <1>2, SamePlaces
<1>3. CASE \E f : Faults(f)
  BY <1>2, <1>3 DEF Faults
<1>4. CASE InitModule(c)
  <2>1. \A s \in Slots : queue'[s] = <<>> /\ queue[s] = <<>>
    BY <1>0, <1>4 DEF InitModule, EmptyUnused
  <2> QED
    BY <1>2, <1>4, <2>1 DEF InitModule
<1>5. CASE CleanupModule(c) \/ GetAllThreads(c) \/ SpuriousWake(c)
           \/ (\E id \in Ids : BroadcastMessage(c, id) \/ ClearQueue(c, id))
           \/ \E n \in QueueSizes : CreateQueue(c, n)
  <2>1. UNCHANGED <<sent, received, discarded, leaked, queue>>
    BY <1>5 DEF CleanupModule, GetAllThreads, LockAgain, SpuriousWake, BroadcastMessage,
       ClearQueue, CreateQueue
  <2> QED
    BY <1>2, <2>1
<1>6. CASE RegisterThread(c)
  <2>1. UNCHANGED <<sent, received, discarded, leaked>>
    BY <1>6 DEF RegisterThread
  <2>2. PICK s \in FreeSlot : queue' = queue \/ queue' = [queue EXCEPT ![s] = <<>>]
    BY <1>6 DEF RegisterThread
  <2>3. s \in Slots /\ queue[s] = <<>>
    BY <1>0, <2>2 DEF FreeSlot, EmptyUnused
  <2>4. \A t \in Slots : queue'[t] = queue[t]
    BY <1>0, <2>2, <2>3
  <2> QED
    BY <1>2, <2>1, <2>4
<1>7. CASE /\ ~\E f : Faults(f)
           /\ \/ \E id \in Ids : \/ UnregisterThread(c, id)
                                  \/ \E op \in {"create", "destroy"} : ReplaceQueue(c, id, op)
              \/ ReplaceFree(c)
  <2>1. CASE \E s \in Slots :
               /\ queue' = [queue EXCEPT ![s] = <<>>]
               /\ \/ discarded' = discarded \cup Elements(s) /\ leaked' = leaked
                  \/ leaked' = leaked \cup Elements(s) /\ discarded' = discarded
               /\ UNCHANGED <<sent, received>>
    BY ONLY IInv, <1>0, <2>1, EmptiedPlaces
  <2>2. CASE UNCHANGED <<sent, received, discarded, leaked, queue>>
    BY <1>2, <2>2
  <2>3. CASE \E id \in Ids : UnregisterThread(c, id)
    BY <1>7, <2>1, <2>3 DEF UnregisterThread, FreeNodes, FindThread, Registered
  <2>4. CASE \E id \in Ids : \E op \in {"create", "destroy"} : ReplaceQueue(c, id, op)
    BY <1>7, <2>1, <2>2, <2>4 DEF ReplaceQueue, FreeNodes, FindThread, Registered
  <2>5. CASE ReplaceFree(c)
    BY <1>0, <1>7, <2>1, <2>5 DEF ReplaceFree
  <2> QED
    BY <1>7, <2>3, <2>4, <2>5
<1>8. CASE ~(\E f : Faults(f)) /\ \E id \in Ids : \E p \in Priorities : SendMessage(c, id, p)
  <2>1. PICK id \in Ids, p \in Priorities : SendMessage(c, id, p)
    BY <1>8
  <2>0. PICK m : m = [seq |-> sent + 1, to |-> id, priority |-> p]
    OBVIOUS
  <2>2. PICK s \in FindThread(id) :
          queue' = [queue EXCEPT ![s] = InsertAt(queue[s], InsertPosition(queue[s], p), m)]
    BY <1>8, <2>0, <2>1 DEF SendMessage, Misuse
  <2>3. sent' = sent + 1 /\ UNCHANGED <<received, discarded, leaked>> /\ sent < MaxSends
    BY <1>8, <2>1 DEF SendMessage, Misuse
  <2>4. s \in Slots /\ queue[s] \in Seq(Messages)
    BY <1>0 DEF FindThread, Registered
  <2>5. m \in Messages /\ m.seq = sent + 1
    <3>1. sent \in Nat /\ MaxSends \in Nat
      BY <1>0, Constants DEF TypeOK
    <3>2. sent + 1 \in 1..MaxSends
      BY <2>3, <3>1
    <3> QED
      BY <2>0, <3>2 DEF Messages
  <2>6. PICK k \in 1..Len(queue[s]) + 1 : k = InsertPosition(queue[s], p)
    BY <2>4, PositionExists
  <2>7. queue' = [queue EXCEPT ![s] = InsertAt(queue[s], k, m)]
    BY <2>2, <2>6
  <2>8. k \in 1..Len(queue[s]) + 1
    BY <2>6
  <2> QED
    BY ONLY IInv, <1>0, <2>3, <2>4, <2>5, <2>7, <2>8, AcceptedPlaces
<1>9. CASE ~(\E f : Faults(f))
           /\ (ReceiverReturns(c) \/ \E id \in Ids : ReceiveMessage(c, id))
  <2>1. PICK s \in Slots : \E id :
           Take(c, s, id) \/ TimeOut(c, s) \/ WaitForMessage(c, s, id)
    <3>1. CASE ReceiverReturns(c)
      BY <1>0, <1>9, <3>1 DEF ReceiverReturns, Misuse, FaultKinds
    <3>2. CASE \E id \in Ids : ReceiveMessage(c, id)
      BY <1>9, <3>2 DEF ReceiveMessage, Misuse, FaultKinds, FindThread, Registered
    <3> QED
      BY <1>9, <3>1, <3>2
  <2>2. CASE \E id : Take(c, s, id)
    <3>1. PICK id : Take(c, s, id)
      BY <2>2
    <3>2. /\ queue[s] # <<>> /\ queue' = [queue EXCEPT ![s] = Tail(queue[s])]
          /\ received' = received \cup {[msg |-> Head(queue[s]), by |-> id]}
          /\ discarded' = discarded /\ leaked' = leaked /\ sent' = sent
      BY <3>1 DEF Take
    <3> QED
      BY ONLY IInv, <1>0, <3>2, HeadPlaces
  <2>3. CASE ~\E id : Take(c, s, id)
    <3>1. UNCHANGED <<sent, received, discarded, leaked, queue>>
      BY <2>1, <2>3 DEF TimeOut, WaitForMessage
    <3> QED
      BY <1>2, <3>1
  <2> QED
    BY <2>2, <2>3
<1>10. CASE ~(\E f : Faults(f)) /\ (ClearTest(c) \/ ClearTake(c))
  <2>1. PICK s \in Slots : s = slot[c]
    BY <1>0
  <2>2. CASE UNCHANGED <<sent, received, discarded, leaked, queue>>
    BY <1>2, <2>2
  <2>3. CASE /\ queue[s] # <<>> /\ queue' = [queue EXCEPT ![s] = Tail(queue[s])]
             /\ received' = received /\ discarded' = discarded \cup {Head(queue[s])}
             /\ sent' = sent /\ leaked' = leaked
    BY ONLY IInv, <1>0, <2>3, HeadPlaces
  <2> QED
    BY <1>10, <2>1, <2>2, <2>3 DEF ClearTest, ClearTake, Misuse
<1> QED
  BY <1>1, <1>3, <1>4, <1>5, <1>6, <1>7, <1>8, <1>9, <1>10

(* What a step may do with the queues that are being freed, and with the   *)
(* messages that are freed or lost.                                        *)
LEMMA LeakKept ==
    ASSUME OnePlace, LeakInv, exposed \subseteq exposed', leaked' \subseteq exposed',
           \/ /\ leaked' = leaked
              /\ \A m \in discarded' : m \in discarded \/
                    \E s \in Slots : \E i \in DOMAIN queue[s] : m = queue[s][i]
           \/ /\ discarded' = discarded
              /\ \A m \in leaked' : m \in leaked \/
                    \E s \in Slots : \E i \in DOMAIN queue[s] : m = queue[s][i],
           \A d \in Callers : pc'[d] \in {"create_free", "destroy_free"} =>
               \/ DOMAIN queue'[slot'[d]] = {}
               \/ /\ pc[d] \in {"create_free", "destroy_free"} /\ slot'[d] = slot[d]
                  /\ \A i \in DOMAIN queue'[slot[d]] :
                        \/ queue'[slot[d]][i] \in exposed'
                        \/ \E j \in DOMAIN queue[slot[d]] : queue'[slot[d]][i] = queue[slot[d]][j]
    PROVE  LeakInv'
<1>1. \A s \in Slots : \A i \in DOMAIN queue[s] :
         \A m \in discarded \cup leaked : m.seq # queue[s][i].seq
  BY DEF OnePlace, Freed
<1>2. \A m \in discarded', x \in leaked' : m.seq # x.seq
  BY <1>1 DEF LeakInv
<1>3. ASSUME NEW d \in Callers, pc'[d] \in {"create_free", "destroy_free"},
             NEW i \in DOMAIN queue'[slot'[d]]
      PROVE  queue'[slot'[d]][i] \in exposed'
  <2>1. /\ pc[d] \in {"create_free", "destroy_free"} /\ slot'[d] = slot[d]
        /\ \/ queue'[slot[d]][i] \in exposed'
           \/ \E j \in DOMAIN queue[slot[d]] : queue'[slot[d]][i] = queue[slot[d]][j]
    BY <1>3
  <2> QED
    BY <2>1 DEF LeakInv
<1> QED
  BY <1>2, <1>3 DEF LeakInv

(* No step loses a message that was not exposed.                           *)
LEMMA StepLeaked ==
    ASSUME IInv, IInv', PlaceInv, Next
    PROVE  LeakInv'
<1> DEFINE Busy == {"create_free", "destroy_free"}
<1>0. /\ TypeOK /\ OnePlace /\ LeakInv /\ EmptyUnused /\ DOMAIN <<>> = {}
      /\ queue \in [Slots -> Seq(Messages)] /\ slot \in [Callers -> Slots]
      /\ \A d \in Callers : slot'[d] \in Slots
  <2>1. TypeOK /\ TypeOK'
    BY DEF IInv
  <2>2. queue \in [Slots -> Seq(Messages)] /\ slot \in [Callers -> Slots]
    BY <2>1 DEF TypeOK
  <2>3. \A d \in Callers : slot'[d] \in Slots
    BY <2>1 DEF TypeOK
  <2>4. DOMAIN <<>> = {}
    OBVIOUS
  <2> QED
    BY <2>1, <2>2, <2>3, <2>4 DEF PlaceInv
<1>1. PICK c \in Callers :
        \/ InitModule(c) \/ CleanupModule(c) \/ RegisterThread(c) \/ GetAllThreads(c)
        \/ ReceiverReturns(c) \/ SpuriousWake(c) \/ ClearTest(c) \/ ClearTake(c)
        \/ ReplaceFree(c) \/ \E n \in QueueSizes : CreateQueue(c, n)
        \/ \E id \in Ids :
              \/ UnregisterThread(c, id) \/ BroadcastMessage(c, id)
              \/ \E p \in Priorities : SendMessage(c, id, p)
              \/ ReceiveMessage(c, id) \/ ClearQueue(c, id)
              \/ \E op \in {"create", "destroy"} : ReplaceQueue(c, id, op)
  BY DEF Next
<1>2. CASE /\ UNCHANGED <<discarded, exposed, leaked>>
           /\ \A s \in Slots : queue'[s] = queue[s] \/ DOMAIN queue'[s] = {}
           /\ \A d \in Callers : pc'[d] \in Busy => pc[d] \in Busy /\ slot'[d] = slot[d]
  BY ONLY <1>0, <1>2, LeakKept DEF LeakInv
<1>3. CASE \E f : Faults(f)
  BY <1>2, <1>3 DEF Faults
<1>4. CASE /\ UNCHANGED <<exposed, leaked>>
           /\ \E s \in Slots :
                 /\ queue[s] # <<>> /\ queue' = [queue EXCEPT ![s] = Tail(queue[s])]
                 /\ discarded' = discarded \/ discarded' = discarded \cup {Head(queue[s])}
           /\ \A d \in Callers : pc'[d] \in Busy => pc[d] \in Busy /\ slot'[d] = slot[d]
  <2>1. PICK s \in Slots :
          /\ queue[s] # <<>> /\ queue' = [queue EXCEPT ![s] = Tail(queue[s])]
          /\ discarded' = discarded \/ discarded' = discarded \cup {Head(queue[s])}
    BY <1>4
  <2>2. /\ Head(queue[s]) = queue[s][1] /\ 1 \in DOMAIN queue[s]
        /\ \A i \in DOMAIN Tail(queue[s]) :
              i + 1 \in DOMAIN queue[s] /\ Tail(queue[s])[i] = queue[s][i + 1]
    BY <1>0, <2>1, TailKeeps DEF IInv, QueuesOrdered
  <2>3. \A t \in Slots : \A i \in DOMAIN queue'[t] :
           \E j \in DOMAIN queue[t] : queue'[t][i] = queue[t][j]
    BY <1>0, <2>1, <2>2
  <2>4. \A m \in discarded' : m \in discarded \/
           \E t \in Slots : \E i \in DOMAIN queue[t] : m = queue[t][i]
    BY <2>1, <2>2
  <2>5. leaked' \subseteq exposed'
    BY <1>0, <1>4 DEF LeakInv
  <2> QED
    BY ONLY <1>0, <1>4, <2>3, <2>4, <2>5, LeakKept
<1>5. CASE InitModule(c) \/ RegisterThread(c)
  <2>1. UNCHANGED <<discarded, exposed, leaked, pc, slot>>
    BY <1>5 DEF InitModule, RegisterThread
  <2>2. \A s \in Slots : queue'[s] = queue[s] \/ DOMAIN queue'[s] = {}
    BY <1>0, <1>5 DEF InitModule, RegisterThread
  <2> QED
    BY <1>2, <2>1, <2>2
<1>6. CASE \/ CleanupModule(c) \/ GetAllThreads(c) \/ SpuriousWake(c)
           \/ \E n \in QueueSizes : CreateQueue(c, n)
           \/ \E id \in Ids : BroadcastMessage(c, id) \/ ClearQueue(c, id)
  <2>1. UNCHANGED <<discarded, exposed, leaked, queue>>
    BY <1>6 DEF CleanupModule, GetAllThreads, LockAgain, SpuriousWake, BroadcastMessage,
       ClearQueue, CreateQueue
  <2>2. \A d \in Callers : pc'[d] \in Busy => pc[d] \in Busy /\ slot'[d] = slot[d]
    BY <1>0, <1>6 DEF CleanupModule, GetAllThreads, LockAgain, SpuriousWake, BroadcastMessage,
       ClearQueue, CreateQueue, Return, TypeOK
  <2> QED
    BY <1>2, <2>1, <2>2
<1>7. CASE ~(\E f : Faults(f)) /\ (ReceiverReturns(c) \/ \E id \in Ids : ReceiveMessage(c, id))
  <2>1. PICK s \in Slots : \E id :
           Take(c, s, id) \/ TimeOut(c, s) \/ WaitForMessage(c, s, id)
    <3>1. CASE ReceiverReturns(c)
      BY <1>0, <1>7, <3>1 DEF ReceiverReturns, Misuse
    <3>2. CASE \E id \in Ids : ReceiveMessage(c, id)
      BY <1>7, <3>2 DEF ReceiveMessage, Misuse, FindThread, Registered
    <3> QED
      BY <1>7, <3>1, <3>2
  <2>2. \A d \in Callers : pc'[d] \in Busy => pc[d] \in Busy /\ slot'[d] = slot[d]
    BY <1>0, <2>1 DEF Take, TimeOut, WaitForMessage, Return, TypeOK
  <2>3. /\ UNCHANGED <<discarded, exposed, leaked>>
        /\ \/ queue' = queue
           \/ queue[s] # <<>> /\ queue' = [queue EXCEPT ![s] = Tail(queue[s])]
    BY <2>1 DEF Take, TimeOut, WaitForMessage
  <2> QED
    BY <1>2, <1>4, <2>2, <2>3
<1>8. CASE ~(\E f : Faults(f)) /\ (ClearTest(c) \/ ClearTake(c))
  <2>1. \A d \in Callers : pc'[d] \in Busy => pc[d] \in Busy /\ slot'[d] = slot[d]
    BY <1>0, <1>8 DEF ClearTest, ClearTake, Misuse, GoesTo, Return, TypeOK
  <2>2. slot[c] \in Slots
    BY <1>0
  <2>3. /\ UNCHANGED <<exposed, leaked>>
        /\ \/ queue' = queue /\ discarded' = discarded
           \/ /\ queue[slot[c]] # <<>> /\ queue' = [queue EXCEPT ![slot[c]] = Tail(queue[slot[c]])]
              /\ discarded' = discarded \cup {Head(queue[slot[c]])}
    BY <1>8 DEF ClearTest, ClearTake, Misuse
  <2> QED
    BY <1>2, <1>4, <2>1, <2>2, <2>3
<1>9. CASE /\ ~\E f : Faults(f)
           /\ \E id \in Ids : \/ UnregisterThread(c, id)
                              \/ \E op \in {"create", "destroy"} : ReplaceQueue(c, id, op)
  <2>1. PICK s \in Slots :
          /\ UNCHANGED <<exposed, leaked>>
          /\ \/ queue' = queue /\ discarded' = discarded
             \/ queue' = [queue EXCEPT ![s] = <<>>] /\ discarded' = discarded \cup Elements(s)
          /\ \/ UNCHANGED <<pc, slot>>
             \/ /\ pc' = [pc EXCEPT ![c] = "create_new"] /\ slot' = [slot EXCEPT ![c] = s]
             \/ /\ \E d \in Busy : pc' = [pc EXCEPT ![c] = d]
                /\ slot' = [slot EXCEPT ![c] = s] /\ queue' = [queue EXCEPT ![s] = <<>>]
    <3>1. CASE \E id \in Ids : UnregisterThread(c, id)
      BY <1>9, <3>1 DEF UnregisterThread, FreeNodes, FindThread, Registered
    <3>2. CASE \E id \in Ids : \E op \in {"create", "destroy"} : ReplaceQueue(c, id, op)
      BY <1>9, <3>2 DEF ReplaceQueue, FreeNodes, FindThread, Registered
    <3> QED
      BY <1>9, <3>1, <3>2
  <2>2. \A m \in discarded' : m \in discarded \/
           \E t \in Slots : \E i \in DOMAIN queue[t] : m = queue[t][i]
    BY <2>1 DEF Elements
  <2>3. \A t \in Slots : queue'[t] = queue[t] \/ DOMAIN queue'[t] = {}
    BY <1>0, <2>1
  <2>4. ASSUME NEW d \in Callers, pc'[d] \in Busy
        PROVE  DOMAIN queue'[slot'[d]] = {} \/ (pc[d] \in Busy /\ slot'[d] = slot[d])
    BY <1>0, <2>1, <2>4 DEF TypeOK
  <2>5. leaked' \subseteq exposed'
    BY <1>0, <2>1 DEF LeakInv
  <2> QED
    BY ONLY <1>0, <2>1, <2>2, <2>3, <2>4, <2>5, LeakKept
<1>10. CASE ~(\E f : Faults(f)) /\ ReplaceFree(c)
  <2>1. PICK s \in Slots : s = slot[c]
    BY <1>0
  <2>2. /\ pc[c] \in Busy /\ queue' = [queue EXCEPT ![s] = <<>>]
        /\ leaked' = leaked \cup Elements(s) /\ UNCHANGED <<discarded, exposed>>
        /\ GoesTo(c, "create_new") \/ Return(c)
    BY <1>10, <2>1 DEF ReplaceFree
  <2>3. Elements(s) \subseteq exposed
    BY <1>0, <2>1, <2>2 DEF LeakInv, Elements
  <2>4. leaked' \subseteq exposed'
    BY <1>0, <2>2, <2>3 DEF LeakInv
  <2>5. \A m \in leaked' : m \in leaked \/
           \E t \in Slots : \E i \in DOMAIN queue[t] : m = queue[t][i]
    BY <2>2 DEF Elements
  <2>6. \A d \in Callers : pc'[d] \in Busy => pc[d] \in Busy /\ slot'[d] = slot[d]
    BY <1>0, <2>2 DEF GoesTo, Return, TypeOK
  <2>7. \A t \in Slots : queue'[t] = queue[t] \/ DOMAIN queue'[t] = {}
    BY <1>0, <2>2
  <2> QED
    BY ONLY <1>0, <2>2, <2>4, <2>5, <2>6, <2>7, LeakKept
<1>11. CASE ~(\E f : Faults(f)) /\ \E id \in Ids : \E p \in Priorities : SendMessage(c, id, p)
  <2>1. PICK id \in Ids, p \in Priorities : SendMessage(c, id, p)
    BY <1>11
  <2>2. PICK m : m = [seq |-> sent + 1, to |-> id, priority |-> p]
    OBVIOUS
  <2>3. PICK s \in FindThread(id) :
          /\ queue' = [queue EXCEPT ![s] = InsertAt(queue[s], InsertPosition(queue[s], p), m)]
          /\ exposed' = IF ReplacingAt(s) # {} THEN exposed \cup {m} ELSE exposed
          /\ SignalNotEmpty(s) /\ UNCHANGED <<slot, discarded, leaked>>
    BY <1>11, <2>1, <2>2 DEF SendMessage, Misuse
  <2>4. s \in Slots /\ queue[s] \in Seq(Messages)
    BY <1>0 DEF FindThread, Registered
  <2>5. \A t \in Slots : \A i \in DOMAIN queue'[t] :
           (t = s /\ queue'[t][i] = m) \/ \E j \in DOMAIN queue[t] : queue'[t][i] = queue[t][j]
    <3>1. PICK k \in 1..Len(queue[s]) + 1 : k = InsertPosition(queue[s], p)
      BY <2>4, PositionExists
    <3>2. PICK r : r = InsertAt(queue[s], k, m)
      OBVIOUS
    <3>3. \A t \in Slots : queue'[t] = IF t = s THEN r ELSE queue[t]
      BY <1>0, <2>3, <2>4, <3>1, <3>2
    <3>4. m \in Messages
      <4>1. sent \in Nat /\ MaxSends \in Nat /\ sent < MaxSends
        BY <1>0, <2>1, Constants DEF TypeOK, SendMessage
      <4>2. sent + 1 \in 1..MaxSends
        BY <4>1
      <4> QED
        BY <2>2, <4>2 DEF Messages
    <3>5. \A j \in DOMAIN r : r[j] = m \/ \E i \in DOMAIN queue[s] : r[j] = queue[s][i]
      BY <2>4, <3>1, <3>2, <3>4, InsertIndices
    <3> QED
      BY <3>3, <3>5
  <2>6. \A d \in Callers : pc'[d] \in Busy => pc[d] \in Busy
    BY <1>0, <2>3 DEF SignalNotEmpty, WaitingAt, TypeOK
  <2>7. ASSUME NEW d \in Callers, pc'[d] \in Busy, NEW i \in DOMAIN queue'[slot[d]]
        PROVE  \/ queue'[slot[d]][i] \in exposed'
               \/ \E j \in DOMAIN queue[slot[d]] : queue'[slot[d]][i] = queue[slot[d]][j]
    <3>1. CASE slot[d] = s
      <4>1. d \in ReplacingAt(s)
        BY <2>6, <2>7, <3>1 DEF ReplacingAt
      <4> QED
        BY <2>3, <2>4, <2>5, <3>1, <4>1
    <3>2. CASE slot[d] # s
      BY <1>0, <2>5, <3>2
    <3> QED
      BY <3>1, <3>2
  <2>8. exposed \subseteq exposed' /\ leaked' \subseteq exposed'
    BY <1>0, <2>3 DEF LeakInv
  <2> QED
    BY ONLY <1>0, <2>3, <2>6, <2>7, <2>8, LeakKept
<1> QED
  BY <1>1, <1>3, <1>5, <1>6, <1>7, <1>8, <1>9, <1>10, <1>11

LEMMA InitPlaces == Init => PlaceInv
<1> SUFFICES ASSUME Init PROVE PlaceInv
  OBVIOUS
<1>1. \A s \in Slots : queue[s] = <<>> /\ thread_id[s] = 0
  BY DEF Init
<1>2. DOMAIN <<>> = {}
  OBVIOUS
<1>3. EmptyUnused /\ LeakInv
  BY <1>1, <1>2 DEF EmptyUnused, LeakInv, Init
<1>4. sent = 0 /\ received = {} /\ discarded = {} /\ leaked = {}
  BY DEF Init
<1>5. (\A n : ~HandedOut(n) /\ ~Freed(n)) /\ \A s \in Slots : DOMAIN queue[s] = {}
  BY <1>1, <1>2, <1>4 DEF HandedOut, Freed
<1>6. \A n \in 1..sent : FALSE
  BY <1>4
<1>7. OnePlace
  BY <1>4, <1>5, <1>6 DEF OnePlace
<1> QED
  BY <1>3, <1>7 DEF PlaceInv

(* The invariant, counted as NoneLostOrDoubled counts.                     *)
LEMMA PlacesCounted == IInv /\ PlaceInv => NoneLostOrDoubled
<1> SUFFICES ASSUME IInv, PlaceInv, NEW n \in 1..sent
             PROVE  Cardinality(Places(n)) = 1
  BY DEF NoneLostOrDoubled, PlaceInv, LeakInv
<1>0. TypeOK /\ OnePlace /\ n \in Nat
  BY DEF IInv, PlaceInv
<1> DEFINE A == {t \in Slots : n \in {m.seq : m \in Elements(t)}}
           B == {j \in UNION {DOMAIN queue[t] : t \in Slots} :
                    \E t \in Slots : j <= Len(queue[t]) /\ queue[t][j].seq = n}
           R == {x \in received : x.msg.seq = n}
           D == {x \in discarded : x.seq = n}
           L == {x \in leaked : x.seq = n}
<1>1. Places(n) = {<<"queue", s, i>> : s \in A, i \in B}
                  \cup {<<"received", r.by, 0>> : r \in R}
                  \cup {<<"discarded", 0, 0>> : m \in D}
                  \cup {<<"leaked", 0, 0>> : m \in L}
  BY DEF Places
<1>2. \A t \in Slots : t \in A <=> \E i \in DOMAIN queue[t] : queue[t][i].seq = n
  BY DEF Elements
<1>3. \A j : j \in B <=> \E t \in Slots : j \in DOMAIN queue[t] /\ queue[t][j].seq = n
  <2>1. \A t \in Slots : DOMAIN queue[t] = 1..Len(queue[t]) /\ Len(queue[t]) \in Nat
    BY <1>0, QueueFacts
  <2>2. ASSUME NEW j \in UNION {DOMAIN queue[t] : t \in Slots}
        PROVE  j \in Nat /\ j >= 1
    BY <2>1
  <2> QED
    BY <2>1, <2>2
<1>4. (R # {} <=> HandedOut(n)) /\ (D # {} \/ L # {} <=> Freed(n)) /\ (D = {} \/ L = {})
  <2>1. D = {} \/ L = {}
    BY DEF PlaceInv, LeakInv
  <2>2. D # {} \/ L # {} <=> Freed(n)
    BY DEF Freed
  <2>3. R # {} <=> HandedOut(n)
    BY DEF HandedOut
  <2> QED
    BY <2>1, <2>2, <2>3
<1> HIDE DEF A, B, R, D, L
<1>5. CASE \E s \in Slots : \E i \in DOMAIN queue[s] : queue[s][i].seq = n
  <2>1. PICK s \in Slots : \E i \in DOMAIN queue[s] : queue[s][i].seq = n
    BY <1>5
  <2>2. PICK i \in DOMAIN queue[s] : queue[s][i].seq = n
    BY <2>1
  <2>3. \A t \in Slots : \A j \in DOMAIN queue[t] : queue[t][j].seq = n => t = s /\ j = i
    BY <1>0, <2>2 DEF OnePlace
  <2>4. A = {s}
    <3>1. A \subseteq Slots
      BY DEF A
    <3> QED
      BY <1>2, <2>2, <2>3, <3>1
  <2>5. B = {i}
    BY <1>3, <2>2, <2>3
  <2>6. R = {} /\ D = {} /\ L = {}
    BY <1>0, <1>4, <2>2 DEF OnePlace
  <2>7. Places(n) = {<<"queue", s, i>>}
    BY ONLY <1>1, <2>4, <2>5, <2>6
  <2> QED
    BY <2>7, FS_Singleton
<1>6. CASE ~\E s \in Slots : \E i \in DOMAIN queue[s] : queue[s][i].seq = n
  <2>1. A = {} /\ B = {}
    <3>1. A \subseteq Slots
      BY DEF A
    <3> QED
      BY <1>2, <1>3, <1>6, <3>1
  <2>2. HandedOut(n) \/ Freed(n)
    BY <1>0, <1>6 DEF OnePlace, QueuedAt
  <2>3. CASE HandedOut(n)
    <3>1. D = {} /\ L = {}
      BY <1>0, <1>4, <2>3 DEF OnePlace
    <3>2. PICK r \in R : TRUE
      BY <1>4, <2>3
    <3>3. \A x \in R : x.by = r.by
      BY <1>0 DEF OnePlace, R
    <3>4. Places(n) = {<<"received", r.by, 0>>}
      BY ONLY <1>1, <2>1, <3>1, <3>3, r \in R
    <3> QED
      BY <3>4, FS_Singleton
  <2>4. CASE Freed(n)
    <3>1. R = {}
      BY <1>0, <1>4, <2>4 DEF OnePlace
    <3>2. CASE D # {}
      <4>1. L = {}
        BY <1>4, <3>2
      <4>2. Places(n) = {<<"discarded", 0, 0>>}
        BY ONLY <1>1, <2>1, <3>1, <3>2, <4>1
      <4> QED
        BY <4>2, FS_Singleton
    <3>3. CASE D = {}
      <4>1. L # {}
        BY <1>4, <2>4, <3>3
      <4>2. Places(n) = {<<"leaked", 0, 0>>}
        BY ONLY <1>1, <2>1, <3>1, <3>3, <4>1
      <4> QED
        BY <4>2, FS_Singleton
    <3> QED
      BY <3>2, <3>3
  <2> QED
    BY <2>2, <2>3, <2>4
<1> QED
  BY <1>5, <1>6

(* send, receive, clear, unregister and the steps in which a queue is      *)
(* replaced: every accepted message is in one queue, or was received once, *)
(* or was freed, or lies in a freed queue, and then it was accepted while  *)
(* somebody replaced that queue.                                           *)
THEOREM PlacesCorrect == Spec => []NoneLostOrDoubled
<1>1. IInv /\ IInv' /\ PlaceInv /\ [Next]_vars => PlaceInv'
  <2> SUFFICES ASSUME IInv, IInv', PlaceInv, [Next]_vars PROVE PlaceInv'
    OBVIOUS
  <2>0. EmptyUnused /\ OnePlace /\ LeakInv
    BY DEF PlaceInv
  <2>1. CASE UNCHANGED vars
    <3>1. OnePlace'
      BY <2>0, <2>1, SamePlaces DEF vars
    <3>2. EmptyUnused' /\ LeakInv'
      BY <2>0, <2>1 DEF vars, EmptyUnused, LeakInv
    <3> QED
      BY <3>1, <3>2 DEF PlaceInv
  <2>2. CASE Next
    BY <2>0, <2>2, StepUnused, StepOnePlace, StepLeaked DEF PlaceInv
  <2> QED
    BY <2>1, <2>2
<1> QED
  BY <1>1, InitPlaces, PlacesCounted, InvariantHolds, PTL DEF Spec

(* The types of the table of threads and of the calls in progress.         *)
THEOREM TypeCorrect == Spec => []TypeOK
<1>1. IInv => TypeOK
  BY DEF IInv
<1> QED
  BY <1>1, InvariantHolds, PTL
=============================================================================
