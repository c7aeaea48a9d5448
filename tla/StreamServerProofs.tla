------------------------- MODULE StreamServerProofs -------------------------
(***************************************************************************)
(* Proofs about the two components that serve stream connections from a    *)
(* table: IpcStream, for every number of threads, slots, descriptors and   *)
(* messages, and EnhancedNetwork, for every number of handles, requests    *)
(* and connections.  The two share no state.                               *)
(***************************************************************************)
EXTENDS IpcStream, EnhancedNetwork, SequenceTheorems, FiniteSetTheorems, TLAPS

(***************************************************************************)
(* IpcStream.                                                              *)
(***************************************************************************)
USE DEF tab, send, recv, rest, history

(* The table: what TableExact needs to be inductive is that descriptors    *)
(* are handed out once, in ascending order.                                *)
TableType ==
    /\ initialized \in BOOLEAN
    /\ is_connected \in [Slots -> BOOLEAN] /\ private_data \in [Slots -> Nat]
    /\ connections \in Nat /\ fds \in Nat

Ascending == \A s \in Slots : private_data[s] <= fds

InUse == {s \in Slots : is_connected[s]}

TableInv == TableType /\ Ascending /\ TableExact

LEMMA InUseFinite == IsFiniteSet(InUse) /\ Cardinality(InUse) \in Nat
<1>1. IsFiniteSet(Slots)
  BY SizesAssumption, FS_Interval DEF Slots
<1>2. IsFiniteSet(InUse)
  BY <1>1, FS_Subset DEF InUse
<1> QED
  BY <1>2, FS_CardinalityType

LEMMA InitTable == Init => TableInv
<1> SUFFICES ASSUME Init PROVE TableInv
  OBVIOUS
<1>1. TableType
  BY DEF Init, TableType, NoFd
<1>2. Ascending
  BY DEF Init, Ascending, NoFd
<1>3. TableExact
  BY DEF Init, TableExact
<1> QED
  BY <1>1, <1>2, <1>3 DEF TableInv

(* Most steps leave the table alone.                                       *)
LEMMA OtherTable ==
    ASSUME TableInv, UNCHANGED <<initialized, tab>>
    PROVE  TableInv'
<1>1. TableType' /\ Ascending'
  BY DEF TableInv, TableType, Ascending
<1>2. TableExact'
  BY DEF TableInv, TableExact
<1> QED
  BY <1>1, <1>2 DEF TableInv

(* ipc_unified_init.                                                       *)
LEMMA UnifiedInitTable ==
    ASSUME TableInv, NEW t \in Threads, UnifiedInit(t)
    PROVE  TableInv'
<1>1. TableType' /\ Ascending'
  BY DEF TableInv, TableType, Ascending, UnifiedInit, NoFd
<1>2. InUse' = {}
  BY DEF UnifiedInit, InUse
<1>3. TableExact'
  <2>1. Cardinality(InUse') = 0
    BY <1>2, FS_EmptySet
  <2>2. connections' = Cardinality({s \in Slots : is_connected'[s]})
    BY <2>1 DEF UnifiedInit, InUse
  <2> QED
    BY <2>2 DEF UnifiedInit, TableExact
<1> QED
  BY <1>1, <1>3 DEF TableInv

(* ipc_unified_cleanup: the table is freed only when it is empty.          *)
LEMMA UnifiedCleanupTable ==
    ASSUME TableInv, NEW t \in Threads, UnifiedCleanup(t)
    PROVE  TableInv'
<1>1. TableType' /\ Ascending'
  BY DEF TableInv, TableType, Ascending, UnifiedCleanup
<1>2. initialized' => initialized
  BY DEF UnifiedCleanup
<1>3. TableExact'
  BY <1>2 DEF TableInv, TableExact, UnifiedCleanup
<1> QED
  BY <1>1, <1>3 DEF TableInv

(* ipc_unified_connect: the new descriptor is in no other slot.            *)
LEMMA ConnectTable ==
    ASSUME TableInv, NEW t \in Threads, Connect(t)
    PROVE  TableInv'
<1> USE DEF TableInv
<1>0. fds \in Nat /\ connections \in Nat /\ fds' = fds + 1 /\ initialized /\ initialized' = initialized
  BY DEF Connect, TableType
<1>1. PICK s \in FreeSlot :
          \/ /\ is_connected' = [is_connected EXCEPT ![s] = TRUE]
             /\ connections' = connections + 1
             /\ \/ private_data' = [private_data EXCEPT ![s] = fds + 1]
                \/ CallsMayFail /\ UNCHANGED private_data
          \/ CallsMayFail /\ UNCHANGED <<is_connected, connections, private_data>>
  BY DEF Connect
<1>2. s \in Slots /\ ~is_connected[s] /\ private_data[s] = NoFd
  BY DEF FreeSlot, TableExact
<1>3. /\ private_data' \in [Slots -> Nat]
      /\ \A r \in Slots : r # s => private_data'[r] = private_data[r]
      /\ private_data'[s] \in {NoFd, fds + 1}
      /\ private_data'[s] = fds + 1 => is_connected'[s]
  BY <1>0, <1>1, <1>2 DEF TableType, NoFd
<1>4. TableType'
  <2>1. connections' \in Nat
    BY <1>0, <1>1
  <2>2. is_connected' \in [Slots -> BOOLEAN]
    BY <1>1, <1>2 DEF TableType
  <2> QED
    BY <1>0, <1>3, <2>1, <2>2 DEF TableType
<1>5. Ascending'
  <2>1. \A r \in Slots : private_data[r] \in Nat /\ private_data[r] <= fds
    BY DEF TableType, Ascending
  <2>2. \A r \in Slots : private_data'[r] <= fds + 1
    BY <1>0, <1>3, <2>1 DEF NoFd
  <2> QED
    BY <1>0, <2>2 DEF Ascending
<1>6. connections' = Cardinality(InUse')
  <2>1. connections = Cardinality(InUse)
    BY <1>0 DEF TableExact, InUse
  <2>2. CASE is_connected' = [is_connected EXCEPT ![s] = TRUE] /\ connections' = connections + 1
    <3>1. InUse' = InUse \cup {s} /\ s \notin InUse
      BY <1>2, <2>2 DEF InUse, TableType
    <3> QED
      BY <2>1, <2>2, <3>1, InUseFinite, FS_AddElement
  <2>3. CASE UNCHANGED <<is_connected, connections>>
    BY <2>1, <2>3 DEF InUse
  <2> QED
    BY <1>1, <2>2, <2>3
<1>7. \A r \in Slots : private_data'[r] # NoFd => is_connected'[r]
  <2> SUFFICES ASSUME NEW r \in Slots, private_data'[r] # NoFd PROVE is_connected'[r]
    OBVIOUS
  <2>1. CASE r = s
    BY <1>3, <2>1
  <2>2. CASE r # s
    BY <1>1, <1>2, <1>3, <2>2 DEF TableExact, TableType
  <2> QED
    BY <2>1, <2>2
<1>8. \A r, q \in Slots : private_data'[r] = private_data'[q] /\ r # q => private_data'[r] = NoFd
  <2> SUFFICES ASSUME NEW r \in Slots, NEW q \in Slots,
                      private_data'[r] = private_data'[q], r # q
               PROVE  private_data'[r] = NoFd
    OBVIOUS
  <2>1. \A x \in Slots : private_data[x] \in Nat /\ private_data[x] # fds + 1
    <3>1. \A x \in Slots : private_data[x] \in Nat /\ private_data[x] <= fds
      BY DEF TableType, Ascending
    <3> QED
      BY <1>0, <3>1
  <2>2. CASE r # s /\ q # s
    BY <1>3, <2>2 DEF TableExact
  <2>3. CASE r = s \/ q = s
    BY <1>3, <2>1, <2>3
  <2> QED
    BY <2>2, <2>3
<1> QED
  BY <1>4, <1>5, <1>6, <1>7, <1>8 DEF TableExact, InUse

(* ipc_unified_disconnect.                                                 *)
LEMMA DisconnectTable ==
    ASSUME TableInv, NEW t \in Threads, NEW s \in Slots, Disconnect(t, s)
    PROVE  TableInv'
<1> USE DEF TableInv
<1>0. /\ fds \in Nat /\ connections \in Nat /\ initialized /\ is_connected[s]
      /\ UNCHANGED <<initialized, fds>>
      /\ is_connected' = [is_connected EXCEPT ![s] = FALSE]
      /\ private_data' = [private_data EXCEPT ![s] = NoFd]
      /\ connections' = IF connections > 0 THEN connections - 1 ELSE 0
  BY DEF Disconnect, TableType, Uncount
<1>1. TableType'
  BY <1>0 DEF TableType, NoFd
<1>2. Ascending'
  BY <1>0 DEF TableType, Ascending, NoFd
<1>3. connections' = Cardinality(InUse')
  <2>1. connections = Cardinality(InUse)
    BY <1>0 DEF TableExact, InUse
  <2>2. InUse' = InUse \ {s} /\ s \in InUse
    BY <1>0 DEF InUse, TableType
  <2>3. Cardinality(InUse') = Cardinality(InUse) - 1
    BY <2>2, InUseFinite, FS_RemoveElement
  <2>4. Cardinality(InUse) # 0
    BY <2>2, InUseFinite, FS_EmptySet
  <2> QED
    BY <1>0, <2>1, <2>3, <2>4
<1>4. \A r \in Slots : /\ r # s => private_data'[r] = private_data[r] /\ is_connected'[r] = is_connected[r]
                       /\ r = s => private_data'[r] = NoFd
  BY <1>0 DEF TableType
<1>5. \A r \in Slots : private_data'[r] # NoFd => is_connected'[r]
  BY <1>4 DEF TableExact
<1>6. \A r, q \in Slots : private_data'[r] = private_data'[q] /\ r # q => private_data'[r] = NoFd
  BY <1>4 DEF TableExact
<1> QED
  BY <1>1, <1>2, <1>3, <1>5, <1>6 DEF TableExact, InUse

LEMMA StepTable == TableInv /\ [Next]_vars => TableInv'
<1> SUFFICES ASSUME TableInv, [Next]_vars PROVE TableInv'
  OBVIOUS
<1>1. CASE \E t \in Threads : UnifiedInit(t) \/ UnifiedCleanup(t) \/ Connect(t)
  BY <1>1, UnifiedInitTable, UnifiedCleanupTable, ConnectTable
<1>2. CASE \E t \in Threads, s \in Slots : Disconnect(t, s)
  BY <1>2, DisconnectTable
<1>3. CASE \E t \in Threads, s \in Slots : SendCall(t, s)
  BY <1>3, OtherTable DEF SendCall
<1>4. CASE CreateServer \/ ProcessEnds
  BY <1>4, OtherTable DEF CreateServer, ProcessEnds
<1>5. CASE \E f \in Fds : ReceiveHeader(f) \/ ReceiveTimeout(f)
  BY <1>5, OtherTable DEF ReceiveTimeout, ReceiveHeader
<1>6. CASE \E t \in Threads : SendStep(t)
  BY <1>6, OtherTable DEF SendStep, SendResolve, SendFollow, SendHeader, SendBody, SendStats
<1>7. CASE \E f \in Fds : ReceiveStep(f)
  BY <1>7, OtherTable DEF ReceiveStep, ReceiveBody
<1>8. CASE UNCHANGED vars
  BY <1>8, OtherTable DEF vars
<1> QED
  BY <1>1, <1>2, <1>3, <1>4, <1>5, <1>6, <1>7, <1>8 DEF Next, Call, PeerCall

(* ipc_unified_connect, _disconnect, _init and _cleanup: the count of the  *)
(* connections is exact, and no descriptor is in two slots or in a free    *)
(* one, whatever allocation fails in connect.                              *)
THEOREM TableCorrect == Spec => []TableExact
<1>1. TableInv => TableExact
  BY DEF TableInv
<1> QED
  BY <1>1, InitTable, StepTable, PTL DEF Spec

-----------------------------------------------------------------------------
(* The streams.  St(a) is the place, among all the cells of a connection,  *)
(* of the header of its a-th message.                                      *)
St(a) == (a - 1) * (Length + 1)

(* The cells s are the ones from the p-th of message r+1 on, when the      *)
(* headers were sent in the order o.                                       *)
Wire(o, r, p, s) ==
    \A j \in 1..Len(s) : \E a \in 1..Len(o), q \in 0..Length :
        s[j] = [msg |-> o[a], part |-> q] /\ St(a) + q = St(r + 1) + p + j - 1

(* Their last one is cell w of the last message.                           *)
Ends(o, r, p, s, w) == St(r + 1) + p + Len(s) = St(Len(o)) + w + 1

(* The cells of the message under way that the receiver has.               *)
Read(f) == IF rpc[f] = "body" THEN Len(data[f]) + 1 ELSE 0

StreamType ==
    /\ private_data \in [Slots -> Fds \cup {NoFd}] /\ fds \in 0..MaxConnects
    /\ sends \in 0..MaxSends
    /\ pc \in [Threads -> {"idle", "resolve", "follow", "header", "body", "stats", "stuck"}]
    /\ slot \in [Threads -> Slots]
    /\ fd \in [Threads -> Fds \cup {NoFd}] /\ msg \in [Threads -> 0..MaxSends]
    /\ total_sent \in [Threads -> 0..Length]
    /\ stream \in [Fds -> Seq(Cells)] /\ data \in [Fds -> Seq(Cells)]
    /\ rpc \in [Fds -> {"idle", "body", "garbled"}]
    /\ order \in [Fds -> Seq(Messages)] /\ received \in [Fds -> Seq(Seq(Cells))]
    /\ overlapped \in [Fds -> BOOLEAN] /\ cut \in [Fds -> BOOLEAN] /\ torn \in [Fds -> BOOLEAN]

(* A thread that writes has a descriptor and a message.                    *)
Bound ==
    \A t \in Threads :
        /\ pc[t] \in {"follow", "header", "body"} => fd[t] \in Fds
        /\ pc[t] \in {"resolve", "follow", "header", "body"} => msg[t] \in Messages
        /\ pc[t] \notin {"body", "stats"} => total_sent[t] = 0

(* What has been received: r, whole messages, and d of the next one.       *)
Got(o, r, d, c) ==
    /\ c # "garbled" /\ Len(r) <= Len(o)
    /\ \A i \in 1..Len(r) : r[i] = Whole(o[i])
    /\ c # "body" => d = <<>>
    /\ c = "body" =>
          /\ Len(d) < Length /\ Len(r) + 1 <= Len(o)
          /\ \A i \in 1..Len(d) : d[i] = [msg |-> o[Len(r) + 1], part |-> i]

Delivered(f) == Got(order[f], received[f], data[f], rpc[f])

Wired(f) == Wire(order[f], Len(received[f]), Read(f), stream[f])

(* What is written goes on where the stream ends.                          *)
Ended(f, w) == Ends(order[f], Len(received[f]), Read(f), stream[f], w)
Continues(f) ==
    /\ (\A t \in Threads : ~(pc[t] = "body" /\ fd[t] = f)) => Ended(f, Length)
    /\ \A t \in Threads : pc[t] = "body" /\ fd[t] = f =>
          /\ Len(order[f]) > 0 /\ msg[t] = order[f][Len(order[f])] /\ total_sent[t] < Length
          /\ Ended(f, total_sent[t])
          /\ \A u \in Threads : pc[u] = "body" /\ fd[u] = f => u = t

Flows(f) == Delivered(f) /\ Wired(f) /\ Continues(f)

StreamInv ==
    /\ StreamType /\ Bound
    /\ \A f \in Fds : ~overlapped[f] /\ ~cut[f] /\ ~torn[f] => Flows(f)

(* Messages follow each other without gaps and do not overlap.             *)
LEMMA Places ==
    ASSUME NEW a \in Int
    PROVE  /\ St(a) \in Int /\ St(a + 1) = St(a) + Length + 1
           /\ \A b \in Int : a < b => St(a) + Length + 1 <= St(b)
<1>1. Length \in Nat
  BY SizesAssumption
<1>2. \A x, y \in Int : x * y \in Int
  OBVIOUS
<1>3. PICK K \in Nat : K = Length + 1
  BY <1>1
<1>4. \A x \in Int : St(x) = (x - 1) * K /\ St(x) \in Int
  BY <1>2, <1>3 DEF St
<1>5. ((a + 1) - 1) * K = (a - 1) * K + K
  BY <1>3
<1>6. ASSUME NEW b \in Int, a < b PROVE St(a) + Length + 1 <= St(b)
  <2>1. PICK d \in Nat : b = a + 1 + d
    <3>1. b - (a + 1) \in Nat /\ b = a + 1 + (b - (a + 1))
      BY <1>6
    <3> QED
      BY <3>1
  <2>2. (b - 1) * K = (a - 1) * K + K + d * K
    BY <1>3, <2>1
  <2>3. d * K \in Nat
    BY <1>3, <2>1
  <2> QED
    BY <1>1, <1>3, <1>4, <2>2, <2>3
<1>7. a + 1 \in Int
  OBVIOUS
<1> QED
  BY <1>1, <1>3, <1>4, <1>5, <1>6, <1>7

(* A place among the cells belongs to one message.                         *)
LEMMA OnePlace ==
    ASSUME NEW a \in Int, NEW b \in Int, NEW q \in 0..Length, NEW p \in 0..Length,
           St(a) + q = St(b) + p
    PROVE  a = b /\ q = p
<1>1. Length \in Nat /\ St(a) \in Int /\ St(b) \in Int
  BY SizesAssumption, Places
<1>2. a < b => St(a) + Length + 1 <= St(b)
  BY Places
<1>3. b < a => St(b) + Length + 1 <= St(a)
  BY Places
<1>4. a = b
  BY <1>1, <1>2, <1>3
<1> QED
  BY <1>1, <1>4

(* The header of the next message, behind a message that is complete.      *)
LEMMA WireHeader ==
    ASSUME NEW o \in Seq(Messages), NEW r \in Nat, NEW p \in Nat, NEW s \in Seq(Cells),
           NEW m \in Messages, Wire(o, r, p, s), Ends(o, r, p, s, Length),
           NEW n, n = Append(o, m), NEW z, z = s \o <<[msg |-> m, part |-> 0]>>
    PROVE  Wire(n, r, p, z) /\ Ends(n, r, p, z, 0)
<1>1. Length \in Nat /\ Len(o) \in Nat /\ Len(s) \in Nat
  BY SizesAssumption, LenProperties
<1>2. /\ n \in Seq(Messages) /\ Len(n) = Len(o) + 1 /\ n[Len(n)] = m
      /\ \A i \in 1..Len(o) : n[i] = o[i]
  BY <1>1
<1>3. PICK c : c = [msg |-> m, part |-> 0]
  OBVIOUS
<1>4. c \in Cells
  BY <1>1, <1>3 DEF Cells
<1>5. /\ z \in Seq(Cells) /\ Len(z) = Len(s) + 1 /\ z[Len(s) + 1] = c
      /\ \A i \in 1..Len(s) : z[i] = s[i]
  <2>1. z = s \o <<c>> /\ <<c>> \in Seq(Cells) /\ Len(<<c>>) = 1 /\ <<c>>[1] = c
    BY <1>3, <1>4
  <2>2. PICK e : e = <<c>>
    OBVIOUS
  <2>3. z = s \o e /\ e \in Seq(Cells) /\ Len(e) = 1 /\ e[1] = c
    BY <2>1, <2>2
  <2>4. /\ z \in Seq(Cells) /\ Len(z) = Len(s) + Len(e)
        /\ \A i \in 1..Len(s) + Len(e) : z[i] = IF i <= Len(s) THEN s[i] ELSE e[i - Len(s)]
    BY ONLY <2>3, s \in Seq(Cells), ConcatProperties
  <2> QED
    BY <1>1, <2>3, <2>4
<1>6. PICK x \in Int, y \in Int : x = St(r + 1) /\ y = St(Len(o))
  <2>1. r + 1 \in Int /\ Len(o) \in Int
    BY <1>1
  <2>2. St(r + 1) \in Int /\ St(Len(o)) \in Int
    BY <2>1, Places
  <2> QED
    BY <2>2
<1>7. St(Len(o) + 1) = y + Length + 1 /\ y + Length + 1 \in Int
  BY <1>1, <1>6, Places
<1>8. x + p + Len(s) = y + Length + 1
  BY <1>6 DEF Ends
<1>9. Ends(n, r, p, z, 0)
  BY <1>1, <1>2, <1>5, <1>6, <1>7, <1>8, SMTT(40) DEF Ends
<1>10. Wire(n, r, p, z)
  <2> SUFFICES ASSUME NEW j \in 1..Len(z)
               PROVE  \E a \in 1..Len(n), q \in 0..Length :
                          z[j] = [msg |-> n[a], part |-> q] /\ St(a) + q = St(r + 1) + p + j - 1
    BY DEF Wire
  <2>1. CASE j = Len(s) + 1
    <3>1. Len(n) \in 1..Len(n) /\ 0 \in 0..Length
      BY <1>1, <1>2
    <3>2. z[j] = [msg |-> n[Len(n)], part |-> 0]
      BY <1>2, <1>3, <1>5, <2>1
    <3>3. St(Len(n)) + 0 = St(r + 1) + p + j - 1
      BY <1>1, <1>2, <1>6, <1>7, <1>8, <2>1
    <3> QED
      BY <3>1, <3>2, <3>3
  <2>2. CASE j # Len(s) + 1
    <3>1. j \in 1..Len(s)
      BY <1>1, <1>5, <2>2
    <3>2. PICK a \in 1..Len(o), q \in 0..Length :
              s[j] = [msg |-> o[a], part |-> q] /\ St(a) + q = St(r + 1) + p + j - 1
      BY <3>1 DEF Wire
    <3>3. a \in 1..Len(n) /\ z[j] = [msg |-> n[a], part |-> q]
      BY <1>1, <1>2, <1>5, <3>1, <3>2
    <3> QED
      BY <3>2, <3>3
  <2> QED
    BY <2>1, <2>2
<1> QED
  BY <1>9, <1>10

(* More cells of the last message.                                         *)
LEMMA WireBody ==
    ASSUME NEW o \in Seq(Messages), NEW r \in Nat, NEW p \in Nat, NEW s \in Seq(Cells),
           Len(o) > 0, NEW m, m = o[Len(o)], NEW w \in 0..Length, NEW n \in w + 1..Length,
           Wire(o, r, p, s), Ends(o, r, p, s, w),
           NEW z, z = s \o SubSeq(Whole(m), w + 1, n)
    PROVE  Wire(o, r, p, z) /\ Ends(o, r, p, z, n)
<1>1. Length \in Nat /\ Len(o) \in Nat /\ Len(s) \in Nat /\ w \in Nat /\ n \in Nat /\ w < n /\ n <= Length
  BY SizesAssumption, LenProperties
<1>2. m \in Messages
  BY <1>1, ElementOfSeq
<1>3. PICK e : e = SubSeq(Whole(m), w + 1, n)
  OBVIOUS
<1>4. /\ e \in Seq(Cells) /\ Len(e) = n - w
      /\ \A i \in 1..n - w : e[i] = [msg |-> m, part |-> w + i]
  <2>1. \A i \in 1..Length : [msg |-> m, part |-> i] \in Cells
    BY <1>1, <1>2 DEF Cells
  <2>2. PICK g : g = Whole(m)
    OBVIOUS
  <2>3. g = [i \in 1..Length |-> [msg |-> m, part |-> i]]
    BY <2>2 DEF Whole
  <2>4. g \in Seq(Cells) /\ Len(g) = Length
    BY <1>1, <2>1, <2>3
  <2>5. e = SubSeq(g, w + 1, n)
    BY <1>3, <2>2
  <2>6. e = [i \in 1..n - w |-> g[i + w]]
    BY <1>1, <2>4, <2>5
  <2>7. \A i \in 1..n - w : g[i + w] = [msg |-> m, part |-> w + i] /\ g[i + w] \in Cells
    BY <1>1, <2>1, <2>3
  <2>8. n - w \in Nat
    BY <1>1
  <2>9. e \in Seq(Cells) /\ Len(e) = n - w
    <3>1. PICK k \in Nat : k = n - w
      BY <2>8
    <3>2. e = [i \in 1..k |-> g[i + w]] /\ \A i \in 1..k : g[i + w] \in Cells
      BY ONLY <2>6, <2>7, <3>1
    <3>3. e \in Seq(Cells) /\ Len(e) = k
      BY ONLY <3>2, k \in Nat
    <3> QED
      BY <3>1, <3>3
  <2> QED
    BY <2>6, <2>7, <2>9
<1>5. /\ z \in Seq(Cells) /\ Len(z) = Len(s) + Len(e)
      /\ \A i \in 1..Len(s) + Len(e) : z[i] = IF i <= Len(s) THEN s[i] ELSE e[i - Len(s)]
  <2>1. z = s \o e /\ e \in Seq(Cells)
    BY <1>3, <1>4
  <2> QED
    BY ONLY <2>1, s \in Seq(Cells), ConcatProperties
<1>6. PICK x \in Int, y \in Int : x = St(r + 1) /\ y = St(Len(o))
  <2>1. r + 1 \in Int /\ Len(o) \in Int
    BY <1>1
  <2>2. St(r + 1) \in Int /\ St(Len(o)) \in Int
    BY <2>1, Places
  <2> QED
    BY <2>2
<1>7. x + p + Len(s) = y + w + 1 /\ Len(z) = Len(s) + (n - w)
  BY <1>4, <1>5, <1>6 DEF Ends
<1>8. Ends(o, r, p, z, n)
  <2>1. x + p + Len(z) = y + n + 1
    BY ONLY <1>1, <1>7, x \in Int, y \in Int, p \in Nat
  <2> QED
    BY <1>6, <2>1 DEF Ends
<1>9. Wire(o, r, p, z)
  <2> SUFFICES ASSUME NEW j \in 1..Len(z)
               PROVE  \E a \in 1..Len(o), q \in 0..Length :
                          z[j] = [msg |-> o[a], part |-> q] /\ St(a) + q = St(r + 1) + p + j - 1
    BY DEF Wire
  <2>1. CASE j > Len(s)
    <3>1. j - Len(s) \in 1..n - w /\ w + (j - Len(s)) \in 0..Length /\ Len(o) \in 1..Len(o)
      BY <1>1, <1>7, <2>1
    <3>2. e[j - Len(s)] = [msg |-> o[Len(o)], part |-> w + (j - Len(s))]
      BY <1>4, <3>1
    <3>3. j \in 1..Len(s) + Len(e) /\ ~(j <= Len(s))
      BY <1>1, <1>5, <2>1
    <3>4. z[j] = e[j - Len(s)]
      BY <1>5, <3>3
    <3>5. y + (w + (j - Len(s))) = x + p + j - 1
      <4>1. j \in Int /\ x + p + Len(s) = y + w + 1
        BY <1>7
      <4> QED
        BY ONLY <1>1, <4>1, x \in Int, y \in Int, p \in Nat
    <3> QED
      BY <1>6, <3>1, <3>2, <3>4, <3>5
  <2>2. CASE ~(j > Len(s))
    <3>1. j \in 1..Len(s) /\ j \in 1..Len(s) + Len(e)
      BY <1>1, <1>5, <2>2
    <3>2. z[j] = s[j]
      BY <1>5, <3>1
    <3> QED
      BY <3>1, <3>2 DEF Wire
  <2> QED
    BY <2>1, <2>2
<1> QED
  BY <1>8, <1>9

(* Reading n cells of the message under way, or its header, leaves z.      *)
AfterRead(o, r, p, s, n, z) ==
    /\ r + 1 <= Len(o)
    /\ \A i \in 1..n : s[i] = [msg |-> o[r + 1], part |-> p + i - 1]
    /\ Wire(o, r, p + n, z)
    /\ p + n = Length + 1 => Wire(o, r + 1, 0, z)
    /\ \A w \in 0..Length : Ends(o, r, p, s, w) =>
          /\ Ends(o, r, p + n, z, w)
          /\ p + n = Length + 1 => Ends(o, r + 1, 0, z, w)

LEMMA WireRead ==
    ASSUME NEW o \in Seq(Messages), NEW r \in Nat, NEW p \in Nat, NEW s \in Seq(Cells),
           NEW n \in 1..Len(s), p + n <= Length + 1, Wire(o, r, p, s),
           NEW z, z = SubSeq(s, n + 1, Len(s))
    PROVE  AfterRead(o, r, p, s, n, z)
<1>1. Length \in Nat /\ Len(o) \in Nat /\ Len(s) \in Nat /\ n \in Nat /\ n <= Len(s) /\ 1 <= n
  BY SizesAssumption, LenProperties
<1>2. PICK x \in Int, y \in Int : x = St(r + 1) /\ y = St(Len(o))
  <2>1. r + 1 \in Int /\ Len(o) \in Int
    BY <1>1
  <2>2. St(r + 1) \in Int /\ St(Len(o)) \in Int
    BY <2>1, Places
  <2> QED
    BY <2>2
<1>3. ASSUME NEW i \in 1..n
      PROVE  s[i] = [msg |-> o[r + 1], part |-> p + i - 1] /\ r + 1 <= Len(o)
  <2>1. i \in 1..Len(s)
    BY <1>1
  <2>2. PICK a \in 1..Len(o), q \in 0..Length :
            s[i] = [msg |-> o[a], part |-> q] /\ St(a) + q = St(r + 1) + p + i - 1
    BY <2>1 DEF Wire
  <2>3. PICK k \in 0..Length : k = p + i - 1
    <3>1. p + i - 1 \in 0..Length
      BY <1>1
    <3> QED
      BY <3>1
  <2>4. St(a) + q = St(r + 1) + k
    BY <1>2, <2>2, <2>3
  <2>5. a \in Int /\ r + 1 \in Int
    BY <1>1
  <2>6. a = r + 1 /\ q = k
    BY <2>4, <2>5, OnePlace
  <2> QED
    BY <1>1, <2>2, <2>3, <2>6
<1>4. z \in Seq(Cells) /\ Len(z) = Len(s) - n /\ \A i \in 1..Len(s) - n : z[i] = s[i + n]
  <2>1. z = [i \in 1..Len(s) - n |-> s[i + n]]
    BY <1>1
  <2>2. \A i \in 1..Len(s) - n : s[i + n] \in Cells
    BY <1>1, ElementOfSeq
  <2>3. Len(s) - n \in Nat
    BY <1>1
  <2> QED
    BY <2>1, <2>2, <2>3
<1>5. ASSUME NEW j \in 1..Len(z)
      PROVE  \E a \in 1..Len(o), q \in 0..Length :
                 z[j] = [msg |-> o[a], part |-> q] /\ St(a) + q = x + (p + n) + j - 1
  <2>1. j + n \in 1..Len(s) /\ z[j] = s[j + n]
    <3>1. j \in 1..Len(s) - n
      BY ONLY <1>4, <1>5
    <3>2. j + n \in 1..Len(s)
      BY ONLY <1>1, <3>1
    <3> QED
      BY ONLY <1>4, <3>1, <3>2
  <2>2. PICK a \in 1..Len(o), q \in 0..Length :
            s[j + n] = [msg |-> o[a], part |-> q] /\ St(a) + q = x + p + (j + n) - 1
    BY <1>2, <2>1 DEF Wire
  <2>3. x + p + (j + n) - 1 = x + (p + n) + j - 1
    BY ONLY <1>1, <1>5, x \in Int, p \in Nat
  <2> QED
    BY <2>1, <2>2, <2>3
<1>6. Wire(o, r, p + n, z)
  BY <1>2, <1>5 DEF Wire
<1>7. St((r + 1) + 1) = x + Length + 1
  BY <1>2, Places
<1>8. ASSUME p + n = Length + 1 PROVE Wire(o, r + 1, 0, z)
  <2>1. \A j \in Int : x + (p + n) + j - 1 = St((r + 1) + 1) + 0 + j - 1
    BY ONLY <1>1, <1>7, <1>8, x \in Int
  <2>2. \A j \in 1..Len(z) : j \in Int
    OBVIOUS
  <2> QED
    BY <1>5, <2>1, <2>2, ZenonT(60) DEF Wire
<1>9. ASSUME NEW w \in 0..Length, Ends(o, r, p, s, w)
      PROVE  Ends(o, r, p + n, z, w) /\ (p + n = Length + 1 => Ends(o, r + 1, 0, z, w))
  <2>0. Len(z) = Len(s) - n
    BY <1>4
  <2>1. x + p + Len(s) = y + w + 1
    BY <1>2, <1>9 DEF Ends
  <2>2. x + (p + n) + Len(z) = y + w + 1
    BY ONLY <1>1, <2>0, <2>1, x \in Int, y \in Int, p \in Nat, w \in 0..Length
  <2>3. p + n = Length + 1 => St((r + 1) + 1) + 0 + Len(z) = y + w + 1
    BY ONLY <1>1, <1>7, <2>0, <2>2, x \in Int, y \in Int, p \in Nat, w \in 0..Length, SMTT(40)
  <2> QED
    BY <1>2, <2>2, <2>3 DEF Ends
<1>10. r + 1 <= Len(o)
  <2>1. 1 \in 1..n
    BY <1>1
  <2> QED
    BY <1>3, <2>1
<1> QED
  BY <1>3, <1>6, <1>8, <1>9, <1>10 DEF AfterRead

(* Flows in terms of the values it depends on.                             *)
LEMMA FlowsAfter ==
    ASSUME NEW f \in Fds, NEW o, NEW r, NEW d, NEW s, NEW c, NEW p,
           order'[f] = o, received'[f] = r, data'[f] = d, stream'[f] = s, rpc'[f] = c,
           p = IF c = "body" THEN Len(d) + 1 ELSE 0,
           Got(o, r, d, c),
           Wire(o, Len(r), p, s),
           (\A t \in Threads : ~(pc'[t] = "body" /\ fd'[t] = f)) => Ends(o, Len(r), p, s, Length),
           \A t \in Threads : pc'[t] = "body" /\ fd'[t] = f =>
              /\ Len(o) > 0 /\ msg'[t] = o[Len(o)] /\ total_sent'[t] < Length
              /\ Ends(o, Len(r), p, s, total_sent'[t])
              /\ \A u \in Threads : pc'[u] = "body" /\ fd'[u] = f => u = t
    PROVE  Flows(f)'
<1>1. Read(f)' = p
  BY DEF Read
<1>2. Delivered(f)'
  BY DEF Delivered, Got
<1>3. Wired(f)'
  BY <1>1 DEF Wired, Wire
<1>4. \A w : Ends(o, Len(r), p, s, w) => Ended(f, w)'
  BY <1>1 DEF Ended, Ends
<1>5. Continues(f)'
  <2>1. (\A t \in Threads : ~(pc'[t] = "body" /\ fd'[t] = f)) => Ended(f, Length)'
    BY <1>4
  <2>2. ASSUME NEW t \in Threads, pc'[t] = "body" /\ fd'[t] = f
        PROVE  Ended(f, total_sent[t])'
    BY <1>1, <2>2 DEF Ended, Ends
  <2> QED
    BY <2>1, <2>2 DEF Continues
<1> QED
  BY <1>2, <1>3, <1>5 DEF Flows

(* What Flows says, in the same terms.                                     *)
LEMMA FlowsNow ==
    ASSUME NEW f \in Fds, Flows(f), NEW o, NEW r, NEW d, NEW s, NEW c, NEW p,
           order[f] = o, received[f] = r, data[f] = d, stream[f] = s, rpc[f] = c,
           p = IF c = "body" THEN Len(d) + 1 ELSE 0
    PROVE  /\ Got(o, r, d, c) /\ Wire(o, Len(r), p, s)
           /\ (\A t \in Threads : ~(pc[t] = "body" /\ fd[t] = f)) => Ends(o, Len(r), p, s, Length)
           /\ \A t \in Threads : pc[t] = "body" /\ fd[t] = f =>
                 /\ Len(o) > 0 /\ msg[t] = o[Len(o)] /\ total_sent[t] < Length
                 /\ Ends(o, Len(r), p, s, total_sent[t])
                 /\ \A u \in Threads : pc[u] = "body" /\ fd[u] = f => u = t
<1>1. Read(f) = p
  BY DEF Read
<1> QED
  BY <1>1 DEF Flows, Delivered, Wired, Continues, Ended

(* A connection on which a step neither writes nor reads.                  *)
LEMMA KeepsFlows ==
    ASSUME NEW f \in Fds, Flows(f),
           order'[f] = order[f], received'[f] = received[f], data'[f] = data[f],
           stream'[f] = stream[f], rpc'[f] = rpc[f],
           \A t \in Threads :
              /\ (pc'[t] = "body" /\ fd'[t] = f) <=> (pc[t] = "body" /\ fd[t] = f)
              /\ pc[t] = "body" /\ fd[t] = f => msg'[t] = msg[t] /\ total_sent'[t] = total_sent[t]
    PROVE  Flows(f)'
<1>1. PICK o, r, d, s, c : order[f] = o /\ received[f] = r /\ data[f] = d /\ stream[f] = s /\ rpc[f] = c
  OBVIOUS
<1>2. PICK p : p = IF c = "body" THEN Len(d) + 1 ELSE 0
  OBVIOUS
<1>3. Got(o, r, d, c) /\ Wire(o, Len(r), p, s)
  BY ONLY f \in Fds, Flows(f), <1>1, <1>2, FlowsNow
<1>4. /\ (\A t \in Threads : ~(pc[t] = "body" /\ fd[t] = f)) => Ends(o, Len(r), p, s, Length)
      /\ \A t \in Threads : pc[t] = "body" /\ fd[t] = f =>
                 /\ Len(o) > 0 /\ msg[t] = o[Len(o)] /\ total_sent[t] < Length
                 /\ Ends(o, Len(r), p, s, total_sent[t])
                 /\ \A u \in Threads : pc[u] = "body" /\ fd[u] = f => u = t
  BY ONLY f \in Fds, Flows(f), <1>1, <1>2, FlowsNow
<1>5. /\ (\A t \in Threads : ~(pc'[t] = "body" /\ fd'[t] = f)) => Ends(o, Len(r), p, s, Length)
      /\ \A t \in Threads : pc'[t] = "body" /\ fd'[t] = f =>
                 /\ Len(o) > 0 /\ msg'[t] = o[Len(o)] /\ total_sent'[t] < Length
                 /\ Ends(o, Len(r), p, s, total_sent'[t])
                 /\ \A u \in Threads : pc'[u] = "body" /\ fd'[u] = f => u = t
  BY <1>4
<1>6. order'[f] = o /\ received'[f] = r /\ data'[f] = d /\ stream'[f] = s /\ rpc'[f] = c
  BY <1>1
<1> QED
  BY ONLY f \in Fds, <1>2, <1>3, <1>5, <1>6, FlowsAfter

(* Steps that neither write to a connection nor read from one.             *)
LEMMA QuietStream ==
    ASSUME StreamInv, UNCHANGED <<stream, rpc, data, history>>, StreamType', Bound',
           \A t \in Threads :
              /\ pc'[t] = "body" <=> pc[t] = "body"
              /\ pc[t] = "body" =>
                    fd'[t] = fd[t] /\ msg'[t] = msg[t] /\ total_sent'[t] = total_sent[t]
    PROVE  StreamInv'
<1>1. ASSUME NEW f \in Fds, ~overlapped'[f] /\ ~cut'[f] /\ ~torn'[f] PROVE Flows(f)'
  <2>1. Flows(f)
    BY <1>1 DEF StreamInv
  <2>2. /\ order'[f] = order[f] /\ received'[f] = received[f] /\ data'[f] = data[f]
        /\ stream'[f] = stream[f] /\ rpc'[f] = rpc[f]
    OBVIOUS
  <2>3. \A t \in Threads :
              /\ (pc'[t] = "body" /\ fd'[t] = f) <=> (pc[t] = "body" /\ fd[t] = f)
              /\ pc[t] = "body" /\ fd[t] = f => msg'[t] = msg[t] /\ total_sent'[t] = total_sent[t]
    OBVIOUS
  <2> QED
    BY ONLY <2>1, <2>2, <2>3, f \in Fds, KeepsFlows
<1> QED
  BY <1>1 DEF StreamInv

(* The calls on the table.                                                 *)
LEMMA TableStream ==
    ASSUME StreamInv, NEW t \in Threads,
           UnifiedInit(t) \/ Connect(t) \/ \E s \in Slots : Disconnect(t, s)
    PROVE  StreamInv'
<1>1. UNCHANGED <<pc, slot, fd, msg, total_sent, stream, rpc, data, sends, history>>
  BY DEF UnifiedInit, Connect, Disconnect
<1>2. private_data' \in [Slots -> Fds \cup {NoFd}] /\ fds' \in 0..MaxConnects
  <2>1. private_data \in [Slots -> Fds \cup {NoFd}] /\ fds \in 0..MaxConnects
    BY DEF StreamInv, StreamType
  <2>3. CASE UnifiedInit(t)
    BY <2>1, <2>3 DEF UnifiedInit
  <2>4. CASE \E s \in Slots : Disconnect(t, s)
    BY <2>1, <2>4 DEF Disconnect
  <2>5. CASE Connect(t)
    <3>1. fds' = fds + 1 /\ fds < MaxConnects
      BY <2>5 DEF Connect
    <3>2. fds + 1 \in Fds /\ fds + 1 \in 0..MaxConnects
      BY <2>1, <3>1, SizesAssumption DEF Fds
    <3>3. \/ private_data' = private_data
          \/ \E s \in Slots : private_data' = [private_data EXCEPT ![s] = fds + 1]
      BY <2>5 DEF Connect, FreeSlot
    <3> QED
      BY <2>1, <3>1, <3>2, <3>3
  <2> QED
    BY <2>3, <2>4, <2>5
<1>3. StreamType' /\ Bound'
  BY <1>1, <1>2 DEF StreamInv, StreamType, Bound
<1> QED
  BY <1>1, <1>3, QuietStream

(* ipc_unified_cleanup.                                                    *)
LEMMA UnifiedCleanupStream ==
    ASSUME StreamInv, NEW t \in Threads, UnifiedCleanup(t)
    PROVE  StreamInv'
<1>1. UNCHANGED <<tab, slot, fd, msg, total_sent, stream, rpc, data, sends, history>>
  BY DEF UnifiedCleanup
<1>2. pc[t] = "idle" /\ (pc' = pc \/ pc' = [pc EXCEPT ![t] = "stuck"])
  BY DEF UnifiedCleanup, Idle
<1>3. pc \in [Threads -> {"idle", "resolve", "follow", "header", "body", "stats", "stuck"}]
  BY DEF StreamInv, StreamType
<1>4. /\ pc' \in [Threads -> {"idle", "resolve", "follow", "header", "body", "stats", "stuck"}]
      /\ \A u \in Threads : pc'[u] = pc[u] \/ (pc[u] = "idle" /\ pc'[u] = "stuck")
  BY <1>2, <1>3
<1>5. StreamType' /\ Bound'
  BY <1>1, <1>4 DEF StreamInv, StreamType, Bound
<1> QED
  BY <1>1, <1>4, <1>5, QuietStream

(* ipc_unified_send_message.                                               *)
LEMMA SendCallStream ==
    ASSUME StreamInv, NEW t \in Threads, NEW x \in Slots, SendCall(t, x)
    PROVE  StreamInv'
<1> USE DEF StreamInv
<1>1. /\ sends' = sends + 1 /\ sends < MaxSends /\ pc[t] = "idle"
      /\ pc' = [pc EXCEPT ![t] = "resolve"] /\ slot' = [slot EXCEPT ![t] = x]
      /\ msg' = [msg EXCEPT ![t] = sends + 1]
      /\ UNCHANGED <<tab, fd, total_sent, stream, rpc, data, history>>
  BY DEF SendCall, Idle
<1>2. sends + 1 \in Messages /\ sends + 1 \in 0..MaxSends
  BY <1>1, SizesAssumption DEF StreamType, Messages
<1>3. StreamType'
  BY <1>1, <1>2 DEF StreamType
<1>4. /\ pc'[t] = "resolve" /\ msg'[t] = sends + 1
      /\ \A u \in Threads \ {t} : pc'[u] = pc[u] /\ msg'[u] = msg[u]
  BY <1>1 DEF StreamType
<1>5. Bound'
  BY <1>1, <1>2, <1>4 DEF Bound
<1> QED
  BY <1>1, <1>3, <1>4, <1>5, QuietStream

(* send_message returns.                                                   *)
LEMMA SendReturnsStream ==
    ASSUME StreamInv, NEW t \in Threads, pc[t] # "body", SendReturns(t),
           UNCHANGED <<tab, stream, rpc, data, sends, history>>
    PROVE  StreamInv'
<1> USE DEF StreamInv
<1>1. /\ pc' = [pc EXCEPT ![t] = "idle"] /\ slot' = [slot EXCEPT ![t] = 1]
      /\ fd' = [fd EXCEPT ![t] = NoFd] /\ msg' = [msg EXCEPT ![t] = 0]
      /\ total_sent' = [total_sent EXCEPT ![t] = 0]
  BY DEF SendReturns
<1>2. 1 \in Slots /\ 0 \in 0..MaxSends /\ 0 \in 0..Length
  BY SizesAssumption DEF Slots
<1>3. StreamType'
  BY <1>1, <1>2 DEF StreamType
<1>4. /\ pc'[t] = "idle" /\ total_sent'[t] = 0
      /\ \A u \in Threads \ {t} : /\ pc'[u] = pc[u] /\ fd'[u] = fd[u] /\ msg'[u] = msg[u]
                                  /\ total_sent'[u] = total_sent[u]
  BY <1>1 DEF StreamType
<1>5. Bound'
  BY <1>4 DEF Bound
<1> QED
  BY <1>3, <1>4, <1>5, QuietStream

(* send_message_by_type: private_data is followed to a descriptor.         *)
LEMMA DescriptorStream ==
    ASSUME StreamInv, NEW t \in Threads, pc[t] \in {"resolve", "follow"},
           NEW c, c \in {"follow", "header"}, private_data[slot[t]] # NoFd,
           fd' = [fd EXCEPT ![t] = private_data[slot[t]]], pc' = [pc EXCEPT ![t] = c],
           UNCHANGED <<slot, msg, total_sent, tab, stream, rpc, data, sends, history>>
    PROVE  StreamInv'
<1> USE DEF StreamInv
<1>1. private_data[slot[t]] \in Fds
  BY DEF StreamType
<1>2. StreamType'
  BY <1>1 DEF StreamType
<1>3. /\ pc'[t] = c /\ fd'[t] \in Fds
      /\ \A u \in Threads \ {t} : pc'[u] = pc[u] /\ fd'[u] = fd[u]
  BY <1>1 DEF StreamType
<1>4. Bound'
  BY <1>3 DEF Bound
<1> QED
  BY <1>2, <1>3, <1>4, QuietStream

LEMMA SendResolveStream ==
    ASSUME StreamInv, NEW t \in Threads, SendResolve(t) \/ SendFollow(t)
    PROVE  StreamInv'
<1>1. /\ pc[t] \in {"resolve", "follow"}
      /\ UNCHANGED <<tab, stream, rpc, data, sends, history>>
  BY DEF SendResolve, SendFollow
<1>2. CASE UNCHANGED send
  <2>1. StreamType' /\ Bound'
    BY <1>1, <1>2 DEF StreamInv, StreamType, Bound
  <2> QED
    BY <1>1, <1>2, <2>1, QuietStream
<1>3. CASE SendReturns(t)
  BY <1>1, <1>3, SendReturnsStream
<1>4. CASE /\ private_data[slot[t]] # NoFd
           /\ fd' = [fd EXCEPT ![t] = private_data[slot[t]]]
           /\ pc' = [pc EXCEPT ![t] = "follow"] \/ pc' = [pc EXCEPT ![t] = "header"]
           /\ UNCHANGED <<slot, msg, total_sent>>
  BY <1>1, <1>4, DescriptorStream
<1> QED
  BY <1>2, <1>3, <1>4 DEF SendResolve, SendFollow

(* The statistics.                                                         *)
LEMMA SendStatsStream ==
    ASSUME StreamInv, NEW t \in Threads, SendStats(t)
    PROVE  StreamInv'
<1>1. pc[t] = "stats" /\ UNCHANGED <<tab, stream, rpc, data, sends, history>>
  BY DEF SendStats
<1>2. CASE UNCHANGED send
  <2>1. StreamType' /\ Bound'
    BY <1>1, <1>2 DEF StreamInv, StreamType, Bound
  <2> QED
    BY <1>1, <1>2, <2>1, QuietStream
<1>3. CASE SendReturns(t)
  BY <1>1, <1>3, SendReturnsStream
<1> QED
  BY <1>2, <1>3 DEF SendStats

(* The header of a message.                                                *)
LEMMA SendHeaderStream ==
    ASSUME StreamInv, NEW t \in Threads, SendHeader(t)
    PROVE  StreamInv'
<1> USE DEF StreamInv
<1>0. CASE SendReturns(t) /\ UNCHANGED <<stream, order, overlapped>>
  <2>1. pc[t] # "body" /\ UNCHANGED <<tab, stream, rpc, data, sends, history>>
    BY <1>0 DEF SendHeader
  <2> QED
    BY <1>0, <2>1, SendReturnsStream
<1> SUFFICES ASSUME ~(SendReturns(t) /\ UNCHANGED <<stream, order, overlapped>>) PROVE StreamInv'
  BY <1>0
<1>1. PICK f, m : f = fd[t] /\ m = msg[t]
  OBVIOUS
<1>2. pc[t] = "header" /\ f \in Fds /\ m \in Messages /\ total_sent[t] = 0
  BY <1>1 DEF SendHeader, Bound
<1>3. PICK o, r, d, s, c : order[f] = o /\ received[f] = r /\ data[f] = d /\ stream[f] = s /\ rpc[f] = c
  OBVIOUS
<1>4. PICK n, z : n = Append(o, m) /\ z = s \o <<[msg |-> m, part |-> 0]>>
  OBVIOUS
<1>5. /\ stream' = [stream EXCEPT ![f] = z] /\ order' = [order EXCEPT ![f] = n]
      /\ overlapped' = [overlapped EXCEPT ![f] = overlapped[f] \/ Sending(f) # {}]
      /\ pc' = [pc EXCEPT ![t] = "body"]
      /\ UNCHANGED <<tab, slot, fd, msg, total_sent, rpc, data, sends, received, cut, torn>>
  BY <1>1, <1>3, <1>4 DEF SendHeader, Write
<1>6. /\ o \in Seq(Messages) /\ s \in Seq(Cells) /\ r \in Seq(Seq(Cells)) /\ d \in Seq(Cells)
  BY <1>2, <1>3 DEF StreamType
<1>7. n \in Seq(Messages) /\ z \in Seq(Cells)
  <2>1. [msg |-> m, part |-> 0] \in Cells
    BY <1>2, SizesAssumption DEF Cells
  <2>2. <<[msg |-> m, part |-> 0]>> \in Seq(Cells)
    BY <2>1
  <2> QED
    BY <1>2, <1>4, <1>6, <2>2, ConcatProperties
<1>8. StreamType'
  <2>1. stream' \in [Fds -> Seq(Cells)] /\ order' \in [Fds -> Seq(Messages)]
    BY <1>2, <1>5, <1>7 DEF StreamType
  <2>2. overlapped' \in [Fds -> BOOLEAN]
    BY <1>2, <1>5 DEF StreamType
  <2> QED
    BY <1>5, <2>1, <2>2 DEF StreamType
<1>9. pc'[t] = "body" /\ \A u \in Threads \ {t} : pc'[u] = pc[u]
  BY <1>5 DEF StreamType
<1>10. Bound'
  BY <1>1, <1>2, <1>5, <1>9 DEF Bound
<1>11. ASSUME NEW g \in Fds, g # f, ~overlapped'[g] /\ ~cut'[g] /\ ~torn'[g] PROVE Flows(g)'
  <2>1. Flows(g)
    BY <1>2, <1>5, <1>11 DEF StreamType
  <2>2. /\ order'[g] = order[g] /\ received'[g] = received[g] /\ data'[g] = data[g]
        /\ stream'[g] = stream[g] /\ rpc'[g] = rpc[g]
    BY <1>2, <1>5, <1>11 DEF StreamType
  <2>3. \A u \in Threads :
              /\ (pc'[u] = "body" /\ fd'[u] = g) <=> (pc[u] = "body" /\ fd[u] = g)
              /\ pc[u] = "body" /\ fd[u] = g => msg'[u] = msg[u] /\ total_sent'[u] = total_sent[u]
    BY <1>1, <1>5, <1>9, <1>11
  <2> QED
    BY ONLY <2>1, <2>2, <2>3, g \in Fds, KeepsFlows
<1>12. ASSUME ~overlapped'[f] /\ ~cut'[f] /\ ~torn'[f] PROVE Flows(f)'
  <2>1. ~overlapped[f] /\ ~cut[f] /\ ~torn[f] /\ Sending(f) = {}
    BY <1>2, <1>5, <1>12 DEF StreamType
  <2>2. Flows(f) /\ \A u \in Threads : ~(pc[u] = "body" /\ fd[u] = f)
    BY <1>2, <2>1 DEF Sending
  <2>3. PICK p : p = IF c = "body" THEN Len(d) + 1 ELSE 0
    OBVIOUS
  <2>4. Got(o, r, d, c) /\ Wire(o, Len(r), p, s)
    BY ONLY <1>2, <1>3, <2>2, <2>3, FlowsNow
  <2>5. Ends(o, Len(r), p, s, Length)
    BY ONLY <1>2, <1>3, <2>2, <2>3, FlowsNow
  <2>6. Len(r) \in Nat /\ p \in Nat /\ Len(o) \in Nat
    BY <1>6, <2>3, LenProperties
  <2>7. /\ Wire(n, Len(r), p, z) /\ Ends(n, Len(r), p, z, 0)
        /\ Len(n) = Len(o) + 1 /\ n[Len(n)] = m
        /\ \A i \in 1..Len(o) : n[i] = o[i]
    <3>1. m \in Messages /\ o \in Seq(Messages) /\ s \in Seq(Cells)
      BY <1>2, <1>6
    <3>2. Wire(o, Len(r), p, s) /\ Len(r) \in Nat /\ p \in Nat
      BY <2>4, <2>6
    <3>3. Wire(n, Len(r), p, z) /\ Ends(n, Len(r), p, z, 0)
      BY ONLY <1>4, <2>5, <3>1, <3>2, WireHeader
    <3>4. /\ Len(n) = Len(o) + 1 /\ n[Len(n)] = m
          /\ \A i \in 1..Len(o) : n[i] = o[i]
      BY ONLY <1>4, <3>1
    <3> QED
      BY <3>3, <3>4
  <2>8. Got(n, r, d, c)
    <3>1. Len(r) <= Len(n)
      BY <2>4, <2>6, <2>7 DEF Got
    <3>2. \A i \in 1..Len(r) : i \in 1..Len(o) /\ n[i] = o[i]
      BY <2>4, <2>6, <2>7 DEF Got
    <3>3. c = "body" => Len(r) + 1 <= Len(n) /\ n[Len(r) + 1] = o[Len(r) + 1]
      BY <2>4, <2>6, <2>7 DEF Got
    <3> QED
      BY <2>4, <3>1, <3>2, <3>3 DEF Got
  <2>9. /\ order'[f] = n /\ received'[f] = r /\ data'[f] = d /\ stream'[f] = z /\ rpc'[f] = c
    BY <1>2, <1>3, <1>5 DEF StreamType
  <2>10. \A u \in Threads : pc'[u] = "body" /\ fd'[u] = f <=> u = t
    BY <1>1, <1>5, <1>9, <2>2
  <2>11. msg'[t] = n[Len(n)] /\ Len(n) > 0 /\ total_sent'[t] = 0 /\ 0 < Length
    BY <1>1, <1>2, <1>5, <2>6, <2>7, SizesAssumption
  <2>12. (\A u \in Threads : ~(pc'[u] = "body" /\ fd'[u] = f)) => Ends(n, Len(r), p, z, Length)
    BY <2>10
  <2>13. \A u \in Threads : pc'[u] = "body" /\ fd'[u] = f =>
              /\ Len(n) > 0 /\ msg'[u] = n[Len(n)] /\ total_sent'[u] < Length
              /\ Ends(n, Len(r), p, z, total_sent'[u])
              /\ \A v \in Threads : pc'[v] = "body" /\ fd'[v] = f => v = u
    BY <2>7, <2>10, <2>11
  <2>14. f \in Fds
    BY <1>2
  <2> QED
    BY ONLY <2>3, <2>7, <2>8, <2>9, <2>12, <2>13, <2>14, FlowsAfter
<1> QED
  BY <1>8, <1>10, <1>11, <1>12

(* A call of send fails in the middle of the data.                         *)
LEMMA SendTornStream ==
    ASSUME StreamInv, NEW t \in Threads, pc[t] = "body", SendReturns(t),
           torn' = [torn EXCEPT ![fd[t]] = TRUE],
           UNCHANGED <<tab, stream, rpc, data, sends, order, received, overlapped, cut>>
    PROVE  StreamInv'
<1> USE DEF StreamInv
<1>1. /\ pc' = [pc EXCEPT ![t] = "idle"] /\ slot' = [slot EXCEPT ![t] = 1]
      /\ fd' = [fd EXCEPT ![t] = NoFd] /\ msg' = [msg EXCEPT ![t] = 0]
      /\ total_sent' = [total_sent EXCEPT ![t] = 0]
  BY DEF SendReturns
<1>2. 1 \in Slots /\ 0 \in 0..MaxSends /\ 0 \in 0..Length
  BY SizesAssumption DEF Slots
<1>3. StreamType'
  BY <1>1, <1>2 DEF StreamType
<1>4. /\ pc'[t] = "idle" /\ total_sent'[t] = 0
      /\ \A u \in Threads \ {t} : /\ pc'[u] = pc[u] /\ fd'[u] = fd[u] /\ msg'[u] = msg[u]
                                  /\ total_sent'[u] = total_sent[u]
  BY <1>1 DEF StreamType
<1>5. Bound'
  BY <1>4 DEF Bound
<1>6. fd[t] \in Fds
  BY DEF Bound
<1>7. ASSUME NEW g \in Fds, ~overlapped'[g] /\ ~cut'[g] /\ ~torn'[g] PROVE Flows(g)'
  <2>1. g # fd[t] /\ ~torn[g]
    BY <1>6, <1>7 DEF StreamType
  <2>2. Flows(g)
    BY <1>7, <2>1
  <2>3. /\ order'[g] = order[g] /\ received'[g] = received[g] /\ data'[g] = data[g]
        /\ stream'[g] = stream[g] /\ rpc'[g] = rpc[g]
    OBVIOUS
  <2>4. \A u \in Threads :
              /\ (pc'[u] = "body" /\ fd'[u] = g) <=> (pc[u] = "body" /\ fd[u] = g)
              /\ pc[u] = "body" /\ fd[u] = g => msg'[u] = msg[u] /\ total_sent'[u] = total_sent[u]
    BY <1>4, <2>1
  <2> QED
    BY ONLY <2>2, <2>3, <2>4, g \in Fds, KeepsFlows
<1> QED
  BY <1>3, <1>5, <1>7

(* One call of send for the data.                                          *)
LEMMA SendBodyStream ==
    ASSUME StreamInv, NEW t \in Threads, SendBody(t)
    PROVE  StreamInv'
<1> USE DEF StreamInv
<1>0. CASE SendReturns(t) /\ torn' = [torn EXCEPT ![fd[t]] = TRUE] /\ UNCHANGED stream
  <2>1. pc[t] = "body" /\ UNCHANGED <<tab, stream, rpc, data, sends, order, received, overlapped, cut>>
    BY <1>0 DEF SendBody
  <2> QED
    BY <1>0, <2>1, SendTornStream
<1> SUFFICES ASSUME ~(SendReturns(t) /\ torn' = [torn EXCEPT ![fd[t]] = TRUE] /\ UNCHANGED stream)
             PROVE  StreamInv'
  BY <1>0
<1>1. PICK f, m, w : f = fd[t] /\ m = msg[t] /\ w = total_sent[t]
  OBVIOUS
<1>2. pc[t] = "body" /\ f \in Fds /\ m \in Messages /\ w \in 0..Length
  BY <1>1 DEF SendBody, Bound, StreamType
<1>3. PICK o, r, d, s, c : order[f] = o /\ received[f] = r /\ data[f] = d /\ stream[f] = s /\ rpc[f] = c
  OBVIOUS
<1>4. PICK n \in w + 1..Length :
          /\ Write(f, SubSeq(Whole(m), w + 1, n))
          /\ total_sent' = [total_sent EXCEPT ![t] = n]
          /\ pc' = [pc EXCEPT ![t] = IF SentAll(n) THEN "stats" ELSE "body"]
  BY <1>1 DEF SendBody
<1>5. PICK z : z = s \o SubSeq(Whole(m), w + 1, n)
  OBVIOUS
<1>6. /\ stream' = [stream EXCEPT ![f] = z]
      /\ total_sent' = [total_sent EXCEPT ![t] = n]
      /\ pc' = [pc EXCEPT ![t] = IF n = Length THEN "stats" ELSE "body"]
      /\ UNCHANGED <<tab, slot, fd, msg, rpc, data, sends, order, received, overlapped, cut, torn>>
  BY <1>3, <1>4, <1>5 DEF SendBody, Write, SentAll
<1>7. /\ o \in Seq(Messages) /\ s \in Seq(Cells) /\ r \in Seq(Seq(Cells)) /\ d \in Seq(Cells)
  BY <1>2, <1>3 DEF StreamType
<1>8. n \in 0..Length /\ Length \in Nat /\ w \in Nat
  BY <1>2, SizesAssumption
<1>9. z \in Seq(Cells)
  <2>1. \A i \in 1..Length : [msg |-> m, part |-> i] \in Cells
    BY <1>2, <1>8 DEF Cells
  <2>2. PICK g : g = Whole(m)
    OBVIOUS
  <2>3. g \in Seq(Cells) /\ Len(g) = Length
    BY ONLY <1>8, <2>1, <2>2 DEF Whole
  <2>4. SubSeq(g, w + 1, n) \in Seq(Cells)
    <3>1. w + 1 \in 1..Len(g) + 1 /\ n \in (w + 1) - 1..Len(g)
      BY <1>8, <2>3
    <3>2. w + 1 \in 1..Len(g) /\ n \in w + 1..Len(g) 
      BY <1>8, <2>3
    <3>3. \A i \in w + 1..n : g[i] \in Cells
      BY <1>8, <2>3, ElementOfSeq
    <3>4. SubSeq(g, w + 1, n) = [i \in 1..(n - w) |-> g[i + w]] /\ n - w \in Nat
      BY <1>8, <2>3, <3>2
    <3>5. \A i \in 1..n - w : g[i + w] \in Cells
      BY <1>8, <3>3
    <3>6. PICK e, k : e = SubSeq(g, w + 1, n) /\ k = n - w
      OBVIOUS
    <3>7. e = [i \in 1..k |-> g[i + w]] /\ k \in Nat /\ \A i \in 1..k : g[i + w] \in Cells
      BY <3>4, <3>5, <3>6
    <3>8. e \in Seq(Cells)
      BY ONLY <3>7
    <3> QED
      BY <3>6, <3>8
  <2> QED
    BY <1>5, <1>7, <2>2, <2>4, ConcatProperties
<1>10. StreamType'
  <2>1. stream' \in [Fds -> Seq(Cells)] /\ total_sent' \in [Threads -> 0..Length]
    BY <1>2, <1>6, <1>8, <1>9 DEF StreamType
  <2>2. pc' \in [Threads -> {"idle", "resolve", "follow", "header", "body", "stats", "stuck"}]
    BY <1>6 DEF StreamType
  <2> QED
    BY <1>6, <2>1, <2>2 DEF StreamType
<1>11. /\ pc'[t] = IF n = Length THEN "stats" ELSE "body"
       /\ total_sent'[t] = n
       /\ \A u \in Threads \ {t} : pc'[u] = pc[u] /\ total_sent'[u] = total_sent[u]
  BY <1>6 DEF StreamType
<1>12. Bound'
  BY <1>1, <1>2, <1>6, <1>11 DEF Bound
<1>13. ASSUME NEW g \in Fds, g # f, ~overlapped'[g] /\ ~cut'[g] /\ ~torn'[g] PROVE Flows(g)'
  <2>1. Flows(g)
    BY <1>6, <1>13
  <2>2. /\ order'[g] = order[g] /\ received'[g] = received[g] /\ data'[g] = data[g]
        /\ stream'[g] = stream[g] /\ rpc'[g] = rpc[g]
    BY <1>2, <1>6, <1>13 DEF StreamType
  <2>3. \A u \in Threads :
              /\ (pc'[u] = "body" /\ fd'[u] = g) <=> (pc[u] = "body" /\ fd[u] = g)
              /\ pc[u] = "body" /\ fd[u] = g => msg'[u] = msg[u] /\ total_sent'[u] = total_sent[u]
    BY <1>1, <1>6, <1>11, <1>13
  <2> QED
    BY ONLY <2>1, <2>2, <2>3, g \in Fds, KeepsFlows
<1>14. ASSUME ~overlapped'[f] /\ ~cut'[f] /\ ~torn'[f] PROVE Flows(f)'
  <2>1. ~overlapped[f] /\ ~cut[f] /\ ~torn[f]
    BY <1>6, <1>14
  <2>2. Flows(f) /\ f \in Fds
    BY <1>2, <2>1
  <2>3. PICK p : p = IF c = "body" THEN Len(d) + 1 ELSE 0
    OBVIOUS
  <2>4. Got(o, r, d, c) /\ Wire(o, Len(r), p, s)
    BY ONLY <1>3, <2>2, <2>3, FlowsNow
  <2>5. \A u \in Threads : pc[u] = "body" /\ fd[u] = f =>
                 /\ Len(o) > 0 /\ msg[u] = o[Len(o)] /\ total_sent[u] < Length
                 /\ Ends(o, Len(r), p, s, total_sent[u])
                 /\ \A v \in Threads : pc[v] = "body" /\ fd[v] = f => v = u
    BY ONLY <1>3, <2>2, <2>3, FlowsNow
  <2>6. /\ Len(o) > 0 /\ m = o[Len(o)] /\ Ends(o, Len(r), p, s, w)
        /\ \A v \in Threads : pc[v] = "body" /\ fd[v] = f => v = t
    BY <1>1, <1>2, <2>5
  <2>7. Len(r) \in Nat /\ p \in Nat /\ Len(o) \in Nat
    BY <1>7, <2>3, LenProperties
  <2>8. Wire(o, Len(r), p, z) /\ Ends(o, Len(r), p, z, n)
    <3>1. w \in 0..Length /\ n \in w + 1..Length
      BY <1>2
    <3> QED
      BY ONLY <1>5, <1>7, <2>4, <2>6, <2>7, <3>1, WireBody
  <2>9. /\ order'[f] = o /\ received'[f] = r /\ data'[f] = d /\ stream'[f] = z /\ rpc'[f] = c
    BY <1>2, <1>3, <1>6 DEF StreamType
  <2>10. \A u \in Threads : pc'[u] = "body" /\ fd'[u] = f <=> u = t /\ n # Length
    BY <1>1, <1>6, <1>11, <2>6
  <2>11. msg'[t] = o[Len(o)] /\ (n # Length => n < Length)
    BY <1>1, <1>6, <1>8, <2>6
  <2>12. (\A u \in Threads : ~(pc'[u] = "body" /\ fd'[u] = f)) => Ends(o, Len(r), p, z, Length)
    BY <2>8, <2>10
  <2>13. \A u \in Threads : pc'[u] = "body" /\ fd'[u] = f =>
              /\ Len(o) > 0 /\ msg'[u] = o[Len(o)] /\ total_sent'[u] < Length
              /\ Ends(o, Len(r), p, z, total_sent'[u])
              /\ \A v \in Threads : pc'[v] = "body" /\ fd'[v] = f => v = u
    BY <1>11, <2>6, <2>8, <2>10, <2>11
  <2> QED
    BY ONLY <2>2, <2>3, <2>4, <2>8, <2>9, <2>12, <2>13, FlowsAfter
<1> QED
  BY <1>10, <1>12, <1>13, <1>14

(* A step of the receiver of f: the other connections and all the senders  *)
(* are left alone.                                                         *)
LEMMA ReceiverStream ==
    ASSUME StreamInv, NEW f \in Fds, StreamType',
           UNCHANGED <<pc, fd, msg, total_sent, order, overlapped, torn>>,
           \A g \in Fds \ {f} : /\ received'[g] = received[g] /\ data'[g] = data[g]
                                /\ stream'[g] = stream[g] /\ rpc'[g] = rpc[g] /\ cut'[g] = cut[g],
           ~overlapped'[f] /\ ~cut'[f] /\ ~torn'[f] => Flows(f)'
    PROVE  StreamInv'
<1> USE DEF StreamInv
<1>1. Bound'
  BY DEF Bound
<1>2. ASSUME NEW g \in Fds, g # f, ~overlapped'[g] /\ ~cut'[g] /\ ~torn'[g] PROVE Flows(g)'
  <2>1. Flows(g)
    BY <1>2
  <2>2. /\ order'[g] = order[g] /\ received'[g] = received[g] /\ data'[g] = data[g]
        /\ stream'[g] = stream[g] /\ rpc'[g] = rpc[g]
    BY <1>2
  <2>3. \A u \in Threads :
              /\ (pc'[u] = "body" /\ fd'[u] = g) <=> (pc[u] = "body" /\ fd[u] = g)
              /\ pc[u] = "body" /\ fd[u] = g => msg'[u] = msg[u] /\ total_sent'[u] = total_sent[u]
    OBVIOUS
  <2> QED
    BY ONLY <2>1, <2>2, <2>3, g \in Fds, KeepsFlows
<1> QED
  BY <1>1, <1>2

(* The receiver gives up.                                                  *)
LEMMA ReceiveTimeoutStream ==
    ASSUME StreamInv, NEW f \in Fds, ReceiveTimeout(f)
    PROVE  StreamInv'
<1> USE DEF StreamInv
<1>1. /\ rpc' = [rpc EXCEPT ![f] = "idle"] /\ data' = [data EXCEPT ![f] = <<>>]
      /\ cut' = [cut EXCEPT ![f] = TRUE]
      /\ UNCHANGED <<tab, pc, slot, fd, msg, total_sent, stream, sends, order, received, overlapped,
                     torn>>
  BY DEF ReceiveTimeout
<1>2. <<>> \in Seq(Cells)
  OBVIOUS
<1>3. StreamType'
  <2>1. cut' \in [Fds -> BOOLEAN]
    BY <1>1 DEF StreamType
  <2> QED
    BY <1>1, <1>2, <2>1 DEF StreamType
<1>4. /\ cut'[f] = TRUE
      /\ \A g \in Fds \ {f} : rpc'[g] = rpc[g] /\ data'[g] = data[g] /\ cut'[g] = cut[g]
  BY <1>1 DEF StreamType
<1> QED
  BY <1>1, <1>3, <1>4, ReceiverStream

(* The header of a message is read; malloc for its data may fail.          *)
LEMMA ReceiveHeaderStream ==
    ASSUME StreamInv, NEW f \in Fds, ReceiveHeader(f)
    PROVE  StreamInv'
<1> USE DEF StreamInv
<1>1. PICK o, r, d, s, z : order[f] = o /\ received[f] = r /\ data[f] = d /\ stream[f] = s /\ z = Tail(s)
  OBVIOUS
<1>2. PICK c : c = IF Head(s).part = 0 THEN "body" ELSE "garbled"
  OBVIOUS
<1>3. /\ rpc[f] = "idle" /\ s # <<>> /\ stream' = [stream EXCEPT ![f] = z]
      /\ \/ rpc' = [rpc EXCEPT ![f] = c] /\ cut' = cut
         \/ rpc' = rpc /\ cut' = [cut EXCEPT ![f] = TRUE]
      /\ UNCHANGED <<tab, pc, slot, fd, msg, total_sent, data, sends, order, received, overlapped,
                     torn>>
  BY <1>1, <1>2 DEF ReceiveHeader
<1>4. /\ o \in Seq(Messages) /\ s \in Seq(Cells) /\ r \in Seq(Seq(Cells)) /\ d \in Seq(Cells)
  BY <1>1 DEF StreamType
<1>5. Len(s) \in Nat /\ Len(s) >= 1 /\ Len(r) \in Nat /\ Head(s) = s[1] /\ z = SubSeq(s, 1 + 1, Len(s))
  BY <1>1, <1>3, <1>4, EmptySeq, LenProperties
<1>6. z \in Seq(Cells)
  BY <1>1, <1>3, <1>4
<1>7. StreamType'
  BY <1>2, <1>3, <1>6 DEF StreamType
<1>8. \A g \in Fds \ {f} : stream'[g] = stream[g] /\ rpc'[g] = rpc[g] /\ cut'[g] = cut[g]
  BY <1>3 DEF StreamType
<1>9. ASSUME ~overlapped'[f] /\ ~cut'[f] /\ ~torn'[f] PROVE Flows(f)'
  <2>1. rpc' = [rpc EXCEPT ![f] = c] /\ cut' = cut
    BY <1>3, <1>9 DEF StreamType
  <2>2. Flows(f) /\ f \in Fds
    BY <1>3, <1>9, <2>1
  <2>3. PICK b, p : rpc[f] = b /\ p = IF b = "body" THEN Len(d) + 1 ELSE 0
    OBVIOUS
  <2>4. Got(o, r, d, b) /\ Wire(o, Len(r), p, s)
    BY ONLY <1>1, <2>2, <2>3, FlowsNow
  <2>5. /\ (\A t \in Threads : ~(pc[t] = "body" /\ fd[t] = f)) => Ends(o, Len(r), p, s, Length)
        /\ \A t \in Threads : pc[t] = "body" /\ fd[t] = f =>
                 /\ Len(o) > 0 /\ msg[t] = o[Len(o)] /\ total_sent[t] < Length
                 /\ Ends(o, Len(r), p, s, total_sent[t])
                 /\ \A u \in Threads : pc[u] = "body" /\ fd[u] = f => u = t
    BY ONLY <1>1, <2>2, <2>3, FlowsNow
  <2>6. p = 0 /\ d = <<>>
    BY <1>3, <2>3, <2>4 DEF Got
  <2>7. Length \in Nat /\ Length >= 1
    BY SizesAssumption
  <2>8. /\ Len(r) + 1 <= Len(o)
        /\ \A i \in 1..1 : s[i] = [msg |-> o[Len(r) + 1], part |-> 0 + i - 1]
        /\ Wire(o, Len(r), 0 + 1, z)
        /\ \A w \in 0..Length : Ends(o, Len(r), 0, s, w) => Ends(o, Len(r), 0 + 1, z, w)
    <3>1. 1 \in 1..Len(s) /\ 0 + 1 <= Length + 1 /\ 0 \in Nat /\ Wire(o, Len(r), 0, s)
      BY <1>5, <2>4, <2>6, <2>7
    <3>2. o \in Seq(Messages) /\ Len(r) \in Nat /\ s \in Seq(Cells) /\ z = SubSeq(s, 1 + 1, Len(s))
      BY <1>4, <1>5
    <3>3. AfterRead(o, Len(r), 0, s, 1, z)
      BY ONLY <3>1, <3>2, WireRead
    <3> QED
      BY <3>3 DEF AfterRead
  <2>9. s[1] = [msg |-> o[Len(r) + 1], part |-> 0 + 1 - 1]
    BY <2>8
  <2>10. c = "body"
    BY <1>2, <1>5, <2>9
  <2>11. Len(d) = 0 /\ 1 = IF c = "body" THEN Len(d) + 1 ELSE 0
    BY <2>6, <2>10
  <2>12. Got(o, r, d, c) /\ Wire(o, Len(r), 1, z)
    BY <2>4, <2>7, <2>8, <2>10, <2>11 DEF Got
  <2>13. \A w \in 0..Length : Ends(o, Len(r), p, s, w) => Ends(o, Len(r), 1, z, w)
    BY <2>6, <2>8
  <2>14. \A t \in Threads : total_sent[t] \in 0..Length /\ Length \in 0..Length
    BY <2>7 DEF StreamType
  <2>15. /\ (\A t \in Threads : ~(pc'[t] = "body" /\ fd'[t] = f)) => Ends(o, Len(r), 1, z, Length)
         /\ \A t \in Threads : pc'[t] = "body" /\ fd'[t] = f =>
                 /\ Len(o) > 0 /\ msg'[t] = o[Len(o)] /\ total_sent'[t] < Length
                 /\ Ends(o, Len(r), 1, z, total_sent'[t])
                 /\ \A u \in Threads : pc'[u] = "body" /\ fd'[u] = f => u = t
    <3>1. Length \in 0..Length
      BY <2>7
    <3> QED
      BY <1>3, <2>5, <2>13, <2>14, <3>1
  <2>16. order'[f] = o /\ received'[f] = r /\ data'[f] = d /\ stream'[f] = z /\ rpc'[f] = c
    BY <1>1, <1>3, <2>1 DEF StreamType
  <2>17. PICK q : q = 1
    OBVIOUS
  <2>18. q = IF c = "body" THEN Len(d) + 1 ELSE 0
    BY <2>11, <2>17
  <2>19. Wire(o, Len(r), q, z)
    BY <2>12, <2>17
  <2>20. /\ (\A t \in Threads : ~(pc'[t] = "body" /\ fd'[t] = f)) => Ends(o, Len(r), q, z, Length)
         /\ \A t \in Threads : pc'[t] = "body" /\ fd'[t] = f =>
                 /\ Len(o) > 0 /\ msg'[t] = o[Len(o)] /\ total_sent'[t] < Length
                 /\ Ends(o, Len(r), q, z, total_sent'[t])
                 /\ \A u \in Threads : pc'[u] = "body" /\ fd'[u] = f => u = t
    BY <2>15, <2>17
  <2> QED
    BY ONLY <2>2, <2>12, <2>16, <2>18, <2>19, <2>20, FlowsAfter
<1> QED
  BY <1>3, <1>7, <1>8, <1>9, ReceiverStream

(* A message that fits in the header has the length that the header says.  *)
LEMMA HeaderSays == DataSize = Length
  BY SizesAssumption, HeaderAssumption DEF DataSize

(* One call of recv for the data.                                          *)
LEMMA ReceiveBodyStream ==
    ASSUME StreamInv, NEW f \in Fds, ReceiveBody(f)
    PROVE  StreamInv'
<1> USE DEF StreamInv
<1>0. CASE UNCHANGED <<stream, rpc, data, received>>
  <2>1. UNCHANGED <<tab, send, stream, rpc, data, sends, history>>
    BY <1>0 DEF ReceiveBody
  <2>2. StreamType' /\ Bound'
    BY <2>1 DEF StreamType, Bound
  <2> QED
    BY <2>1, <2>2, QuietStream
<1> SUFFICES ASSUME ~UNCHANGED <<stream, rpc, data, received>> PROVE StreamInv'
  BY <1>0
<1>1. PICK o, r, d, s : order[f] = o /\ received[f] = r /\ data[f] = d /\ stream[f] = s
  OBVIOUS
<1>2. rpc[f] = "body" /\ UNCHANGED <<tab, pc, slot, fd, msg, total_sent, sends, order, overlapped, cut, torn>>
  BY DEF ReceiveBody
<1>3. PICK n \in 1..ReadLimit(f) :
          LET e == d \o SubSeq(s, 1, n)
          IN  /\ stream' = [stream EXCEPT ![f] = SubSeq(s, n + 1, Len(s))]
              /\ IF Len(e) >= Length
                 THEN /\ received' = [received EXCEPT ![f] = Append(r, e)]
                      /\ data' = [data EXCEPT ![f] = <<>>]
                      /\ rpc' = [rpc EXCEPT ![f] = "idle"]
                 ELSE /\ data' = [data EXCEPT ![f] = e]
                      /\ UNCHANGED <<rpc, received>>
  BY <1>1, HeaderSays DEF ReceiveBody
<1>4. /\ o \in Seq(Messages) /\ s \in Seq(Cells) /\ r \in Seq(Seq(Cells)) /\ d \in Seq(Cells)
  BY <1>1 DEF StreamType
<1>5. Len(s) \in Nat /\ Len(r) \in Nat /\ Len(d) \in Nat /\ Len(o) \in Nat /\ Length \in Nat /\ Length >= 1
  BY <1>4, LenProperties, SizesAssumption
<1>6. n \in Nat /\ 1 <= n /\ n <= Len(s) /\ n <= Length - Len(d)
  BY <1>1, <1>5, HeaderSays DEF ReadLimit
<1>7. PICK e, z, h : e = d \o SubSeq(s, 1, n) /\ z = SubSeq(s, n + 1, Len(s)) /\ h = Append(r, e)
  OBVIOUS
<1>8. /\ e \in Seq(Cells) /\ Len(e) = Len(d) + n
      /\ \A i \in 1..Len(d) + n : e[i] = IF i <= Len(d) THEN d[i] ELSE s[i - Len(d)]
  <2>1. PICK g : g = SubSeq(s, 1, n)
    OBVIOUS
  <2>2. g = [i \in 1..n |-> s[i]]
    BY <1>4, <1>5, <1>6, <2>1
  <2>3. \A i \in 1..n : s[i] \in Cells
    BY <1>4, <1>5, <1>6, ElementOfSeq
  <2>4. g \in Seq(Cells) /\ Len(g) = n
    BY ONLY <1>6, <2>2, <2>3
  <2>5. /\ e \in Seq(Cells) /\ Len(e) = Len(d) + Len(g)
        /\ \A i \in 1..Len(d) + Len(g) : e[i] = IF i <= Len(d) THEN d[i] ELSE g[i - Len(d)]
    <3>1. d \in Seq(Cells) /\ g \in Seq(Cells) /\ e = d \o g
      BY <1>4, <1>7, <2>1, <2>4
    <3> QED
      BY ONLY <3>1, ConcatProperties
  <2>6. \A i \in 1..Len(d) + n : ~(i <= Len(d)) => g[i - Len(d)] = s[i - Len(d)]
    BY ONLY <1>5, <1>6, <2>2
  <2> QED
    BY ONLY <2>4, <2>5, <2>6
<1>9. z \in Seq(Cells)
  <2>1. z = [i \in 1..Len(s) - n |-> s[i + n]]
    BY <1>4, <1>5, <1>6, <1>7
  <2>2. \A i \in 1..Len(s) - n : s[i + n] \in Cells
    BY <1>4, <1>5, <1>6, ElementOfSeq
  <2>3. Len(s) - n \in Nat
    BY <1>5, <1>6
  <2> QED
    BY ONLY <2>1, <2>2, <2>3
<1>10. h \in Seq(Seq(Cells)) /\ Len(h) = Len(r) + 1 /\ h[Len(r) + 1] = e /\ \A i \in 1..Len(r) : h[i] = r[i]
  BY <1>4, <1>5, <1>7, <1>8, SMTT(40)
<1>11. /\ stream' = [stream EXCEPT ![f] = z]
       /\ \/ /\ Len(e) >= Length
             /\ received' = [received EXCEPT ![f] = h]
             /\ data' = [data EXCEPT ![f] = <<>>]
             /\ rpc' = [rpc EXCEPT ![f] = "idle"]
          \/ /\ ~(Len(e) >= Length)
             /\ data' = [data EXCEPT ![f] = e]
             /\ UNCHANGED <<rpc, received>>
  BY <1>3, <1>7
<1>12. StreamType'
  <2>1. <<>> \in Seq(Cells)
    OBVIOUS
  <2>2. data' \in [Fds -> Seq(Cells)] /\ stream' \in [Fds -> Seq(Cells)]
    <3>1. data \in [Fds -> Seq(Cells)] /\ stream \in [Fds -> Seq(Cells)] /\ e \in Seq(Cells)
      BY <1>8 DEF StreamType
    <3> QED
      BY ONLY <1>9, <1>11, <2>1, <3>1
  <2>3. /\ received' \in [Fds -> Seq(Seq(Cells))]
        /\ rpc' \in [Fds -> {"idle", "body", "garbled"}]
    <3>1. received \in [Fds -> Seq(Seq(Cells))] /\ rpc \in [Fds -> {"idle", "body", "garbled"}]
      BY DEF StreamType
    <3> QED
      BY ONLY <1>10, <1>11, <3>1
  <2> QED
    BY <1>2, <2>2, <2>3 DEF StreamType
<1>13. \A g \in Fds \ {f} : /\ received'[g] = received[g] /\ data'[g] = data[g]
                            /\ stream'[g] = stream[g] /\ rpc'[g] = rpc[g] /\ cut'[g] = cut[g]
  BY <1>2, <1>11 DEF StreamType
<1>14. ASSUME ~overlapped'[f] /\ ~cut'[f] /\ ~torn'[f] PROVE Flows(f)'
  <2>1. Flows(f) /\ f \in Fds
    BY <1>2, <1>14
  <2>2. PICK b, p : rpc[f] = b /\ p = IF b = "body" THEN Len(d) + 1 ELSE 0
    OBVIOUS
  <2>3. Got(o, r, d, b) /\ Wire(o, Len(r), p, s)
    BY ONLY <1>1, <2>1, <2>2, FlowsNow
  <2>4. /\ (\A t \in Threads : ~(pc[t] = "body" /\ fd[t] = f)) => Ends(o, Len(r), p, s, Length)
        /\ \A t \in Threads : pc[t] = "body" /\ fd[t] = f =>
                 /\ Len(o) > 0 /\ msg[t] = o[Len(o)] /\ total_sent[t] < Length
                 /\ Ends(o, Len(r), p, s, total_sent[t])
                 /\ \A u \in Threads : pc[u] = "body" /\ fd[u] = f => u = t
    BY ONLY <1>1, <2>1, <2>2, FlowsNow
  <2>5. p = Len(d) + 1 /\ p \in Nat /\ p + n <= Length + 1 /\ n \in 1..Len(s) /\ b = "body"
    BY <1>2, <1>5, <1>6, <2>2
  <2>6. /\ Len(r) + 1 <= Len(o)
        /\ \A i \in 1..n : s[i] = [msg |-> o[Len(r) + 1], part |-> p + i - 1]
        /\ Wire(o, Len(r), p + n, z)
        /\ p + n = Length + 1 => Wire(o, Len(r) + 1, 0, z)
        /\ \A w \in 0..Length : Ends(o, Len(r), p, s, w) =>
              /\ Ends(o, Len(r), p + n, z, w)
              /\ p + n = Length + 1 => Ends(o, Len(r) + 1, 0, z, w)
    <3>1. o \in Seq(Messages) /\ Len(r) \in Nat /\ s \in Seq(Cells) /\ z = SubSeq(s, n + 1, Len(s))
      BY <1>4, <1>5, <1>7
    <3>2. p \in Nat /\ p + n <= Length + 1 /\ n \in 1..Len(s) /\ Wire(o, Len(r), p, s)
      BY <2>3, <2>5
    <3>3. AfterRead(o, Len(r), p, s, n, z)
      BY ONLY <3>1, <3>2, WireRead
    <3> QED
      BY <3>3 DEF AfterRead
  <2>7. \A i \in 1..Len(e) : e[i] = [msg |-> o[Len(r) + 1], part |-> i]
    <3> SUFFICES ASSUME NEW i \in 1..Len(d) + n
                 PROVE  e[i] = [msg |-> o[Len(r) + 1], part |-> i]
      BY <1>8
    <3>1. CASE i <= Len(d)
      <4>1. i \in 1..Len(d)
        BY <1>5, <1>6, <3>1
      <4>2. d[i] = [msg |-> o[Len(r) + 1], part |-> i]
        BY ONLY <2>3, <2>5, <4>1 DEF Got
      <4>3. e[i] = d[i]
        BY ONLY <1>8, <3>1, i \in 1..Len(d) + n
      <4> QED
        BY <4>2, <4>3
    <3>2. CASE ~(i <= Len(d))
      <4>1. i - Len(d) \in 1..n /\ p + (i - Len(d)) - 1 = i
        BY ONLY <1>5, <1>6, <2>5, <3>2, i \in 1..Len(d) + n
      <4>2. s[i - Len(d)] = [msg |-> o[Len(r) + 1], part |-> p + (i - Len(d)) - 1]
        BY <2>6, <4>1
      <4>3. e[i] = s[i - Len(d)]
        BY <1>8, <3>2
      <4> QED
        BY <4>1, <4>2, <4>3
    <3> QED
      BY <3>1, <3>2
  <2>8. \A t \in Threads : total_sent[t] \in 0..Length
    BY DEF StreamType
  <2>9. Length \in 0..Length
    BY <1>5
  <2>10. order'[f] = o /\ stream'[f] = z
    BY <1>1, <1>2, <1>11 DEF StreamType
  <2>11. CASE Len(e) >= Length
    <3>1. Len(e) = Length /\ p + n = Length + 1
      <4>1. Len(e) = Len(d) + n
        BY <1>8
      <4> QED
        BY ONLY <1>5, <1>6, <2>5, <2>11, <4>1
    <3>2. received'[f] = h /\ data'[f] = <<>> /\ rpc'[f] = "idle"
      BY <1>11, <2>11 DEF StreamType
    <3>3. e = Whole(o[Len(r) + 1])
      <4>1. e = [i \in 1..Len(e) |-> e[i]]
        BY <1>8
      <4>2. e = [i \in 1..Length |-> [msg |-> o[Len(r) + 1], part |-> i]]
        BY <2>7, <3>1, <4>1
      <4> QED
        BY <4>2 DEF Whole
    <3>4. \A i \in 1..Len(h) : h[i] = Whole(o[i])
      <4> SUFFICES ASSUME NEW i \in 1..Len(h) PROVE h[i] = Whole(o[i])
        OBVIOUS
      <4>1. CASE i = Len(r) + 1
        BY <1>10, <3>3, <4>1
      <4>2. CASE i # Len(r) + 1
        <5>1. i \in 1..Len(r)
          BY <1>5, <1>10, <4>2
        <5> QED
          BY <1>10, <2>3, <5>1 DEF Got
      <4> QED
        BY <4>1, <4>2
    <3>5. PICK y, c, q : y = <<>> /\ c = "idle" /\ q = 0
      OBVIOUS
    <3>6. Got(o, h, y, c) /\ q = IF c = "body" THEN Len(y) + 1 ELSE 0
      BY <1>10, <2>6, <3>4, <3>5 DEF Got
    <3>7. Wire(o, Len(h), q, z)
      BY <1>10, <2>6, <3>1, <3>5
    <3>8. \A w \in 0..Length : Ends(o, Len(r), p, s, w) => Ends(o, Len(h), q, z, w)
      BY <1>10, <2>6, <3>1, <3>5
    <3>9. /\ (\A t \in Threads : ~(pc'[t] = "body" /\ fd'[t] = f)) => Ends(o, Len(h), q, z, Length)
          /\ \A t \in Threads : pc'[t] = "body" /\ fd'[t] = f =>
                 /\ Len(o) > 0 /\ msg'[t] = o[Len(o)] /\ total_sent'[t] < Length
                 /\ Ends(o, Len(h), q, z, total_sent'[t])
                 /\ \A u \in Threads : pc'[u] = "body" /\ fd'[u] = f => u = t
      BY <1>2, <2>4, <2>8, <2>9, <3>8
    <3>10. order'[f] = o /\ received'[f] = h /\ data'[f] = y /\ stream'[f] = z /\ rpc'[f] = c
      BY <2>10, <3>2, <3>5
    <3> QED
      BY ONLY <2>1, <3>6, <3>7, <3>9, <3>10, FlowsAfter
  <2>12. CASE ~(Len(e) >= Length)
    <3>1. Len(e) < Length /\ p + n = Len(e) + 1
      BY <1>5, <1>6, <1>8, <2>5, <2>12
    <3>2. received'[f] = r /\ data'[f] = e /\ rpc'[f] = b
      BY <1>1, <1>11, <2>2, <2>12 DEF StreamType
    <3>3. PICK q : q = p + n
      OBVIOUS
    <3>4. Got(o, r, e, b) /\ q = IF b = "body" THEN Len(e) + 1 ELSE 0
      BY <2>3, <2>5, <2>6, <2>7, <3>1, <3>3 DEF Got
    <3>5. Wire(o, Len(r), q, z)
      BY <2>6, <3>3
    <3>6. \A w \in 0..Length : Ends(o, Len(r), p, s, w) => Ends(o, Len(r), q, z, w)
      BY <2>6, <3>3
    <3>7. /\ (\A t \in Threads : ~(pc'[t] = "body" /\ fd'[t] = f)) => Ends(o, Len(r), q, z, Length)
          /\ \A t \in Threads : pc'[t] = "body" /\ fd'[t] = f =>
                 /\ Len(o) > 0 /\ msg'[t] = o[Len(o)] /\ total_sent'[t] < Length
                 /\ Ends(o, Len(r), q, z, total_sent'[t])
                 /\ \A u \in Threads : pc'[u] = "body" /\ fd'[u] = f => u = t
      BY <1>2, <2>4, <2>8, <2>9, <3>6
    <3>8. order'[f] = o /\ received'[f] = r /\ data'[f] = e /\ stream'[f] = z /\ rpc'[f] = b
      BY <2>10, <3>2
    <3> QED
      BY ONLY <2>1, <3>4, <3>5, <3>7, <3>8, FlowsAfter
  <2> QED
    BY <2>11, <2>12
<1>15. UNCHANGED <<pc, fd, msg, total_sent, order, overlapped, torn>>
  BY <1>2
<1> QED
  BY <1>12, <1>13, <1>14, <1>15, ReceiverStream

LEMMA InitStream == Init => StreamInv
<1> SUFFICES ASSUME Init PROVE StreamInv
  OBVIOUS
<1>1. <<>> \in Seq(Cells) /\ <<>> \in Seq(Messages) /\ <<>> \in Seq(Seq(Cells)) /\ Len(<<>>) = 0
  OBVIOUS
<1>2. 1 \in Slots /\ 0 \in 0..MaxSends /\ 0 \in 0..Length /\ 0 \in 0..MaxConnects
  BY SizesAssumption DEF Slots
<1>3. StreamType
  BY <1>1, <1>2 DEF Init, StreamType
<1>4. Bound
  BY DEF Init, Bound
<1>5. ASSUME NEW f \in Fds PROVE Flows(f)
  <2>1. /\ order[f] = <<>> /\ received[f] = <<>> /\ data[f] = <<>> /\ stream[f] = <<>>
        /\ rpc[f] = "idle"
    BY DEF Init
  <2>2. Read(f) = 0
    BY <2>1 DEF Read
  <2>3. Delivered(f)
    BY <1>1, <2>1 DEF Delivered, Got
  <2>4. Wired(f)
    BY <1>1, <2>1 DEF Wired, Wire
  <2>5. St(0 + 1) = St(0) + Length + 1 /\ St(0) \in Int
    BY Places
  <2>6. Ended(f, Length)
    BY <1>1, <2>1, <2>2, <2>5, SizesAssumption DEF Ended, Ends
  <2>7. Continues(f)
    BY <2>6 DEF Init, Continues
  <2> QED
    BY <2>3, <2>4, <2>7 DEF Flows
<1> QED
  BY <1>3, <1>4, <1>5 DEF StreamInv

LEMMA StepStream == StreamInv /\ [Next]_vars => StreamInv'
<1> SUFFICES ASSUME StreamInv, [Next]_vars PROVE StreamInv'
  OBVIOUS
<1>1. CASE \E t \in Threads : UnifiedInit(t) \/ Connect(t) \/ \E s \in Slots : Disconnect(t, s)
  BY <1>1, TableStream
<1>2. CASE \E t \in Threads : UnifiedCleanup(t)
  BY <1>2, UnifiedCleanupStream
<1>3. CASE \E t \in Threads, s \in Slots : SendCall(t, s)
  BY <1>3, SendCallStream
<1>4. CASE CreateServer \/ ProcessEnds \/ UNCHANGED vars
  <2>1. UNCHANGED <<tab, pc, slot, fd, msg, total_sent, stream, rpc, data, sends, history>>
    BY <1>4 DEF CreateServer, ProcessEnds, vars
  <2>2. StreamType' /\ Bound'
    BY <2>1 DEF StreamInv, StreamType, Bound
  <2> QED
    BY <2>1, <2>2, QuietStream
<1>5. CASE \E f \in Fds : ReceiveHeader(f) \/ ReceiveTimeout(f)
  BY <1>5, ReceiveTimeoutStream, ReceiveHeaderStream
<1>6. CASE \E t \in Threads : SendStep(t)
  BY <1>6, SendResolveStream, SendHeaderStream, SendBodyStream, SendStatsStream DEF SendStep
<1>7. CASE \E f \in Fds : ReceiveStep(f)
  BY <1>7, ReceiveBodyStream DEF ReceiveStep
<1> QED
  BY <1>1, <1>2, <1>3, <1>4, <1>5, <1>6, <1>7 DEF Next, Call, PeerCall

(* ipc_socket_send_message, however its data is cut into pieces and        *)
(* whatever happens to the table meanwhile, and                            *)
(* ipc_socket_receive_message, however it is read: as long as no two sends *)
(* overlap on the connection and neither a receive gave up nor a send      *)
(* failed inside a message, the messages arrive whole, once and in the     *)
(* order of their headers.  Headers that could not be sent, allocations    *)
(* that failed in connect and the end of the sending process do no harm.   *)
THEOREM StreamCorrect == Spec => []StreamIntact
<1>1. StreamInv => StreamIntact
  <2> SUFFICES ASSUME StreamInv, NEW f \in Fds, ~overlapped[f] /\ ~cut[f] /\ ~torn[f]
               PROVE  /\ rpc[f] # "garbled" /\ Len(received[f]) <= Len(order[f])
                      /\ \A i \in DOMAIN received[f] : received[f][i] = Whole(order[f][i])
    BY DEF StreamIntact, Undisturbed
  <2>1. Delivered(f)
    BY DEF StreamInv, Flows
  <2>2. received[f] \in Seq(Seq(Cells))
    BY DEF StreamInv, StreamType
  <2>3. DOMAIN received[f] = 1..Len(received[f])
    BY <2>2, LenProperties
  <2> QED
    BY <2>1, <2>3 DEF Delivered, Got
<1> QED
  BY <1>1, InitStream, StepStream, PTL DEF Spec

(* One thread that uses the connections: what it is in the middle of is    *)
(* there, and no other send comes between.                                 *)
OneCaller == \A t, u \in Threads : t = u

SoleInv ==
    /\ fault = "none" /\ \A f \in Fds : ~overlapped[f] /\ (torn[f] => CallsMayFail)
    /\ \A t \in Threads :
          /\ pc[t] \in {"resolve", "follow", "header", "body", "stats"} => initialized
          /\ pc[t] = "follow" => private_data[slot[t]] = fd[t]

(* What such a thread does to the table, it does between its sends.        *)
LEMMA SoleTable ==
    ASSUME OneCaller, StreamInv, SoleInv, NEW t \in Threads,
           UnifiedInit(t) \/ UnifiedCleanup(t) \/ Connect(t) \/ \E s \in Slots : Disconnect(t, s)
    PROVE  SoleInv'
<1>1. \A u \in Threads : pc[u] = "idle"
  BY DEF OneCaller, UnifiedInit, UnifiedCleanup, Connect, Disconnect, Idle
<1>2. \A u \in Threads : pc'[u] \in {"idle", "stuck"}
  BY <1>1 DEF UnifiedInit, UnifiedCleanup, Connect, Disconnect, StreamInv, StreamType
<1>3. UNCHANGED <<fault, overlapped, torn>>
  BY DEF UnifiedInit, UnifiedCleanup, Connect, Disconnect
<1> QED
  BY <1>2, <1>3 DEF SoleInv

LEMMA SoleSend ==
    ASSUME OneCaller, StreamInv, SoleInv, NEW t \in Threads, SendStep(t)
    PROVE  SoleInv'
<1> USE DEF SoleInv
<1>1. initialized /\ initialized' = initialized /\ private_data' = private_data
  BY DEF SendStep, SendResolve, SendFollow, SendHeader, SendBody, SendStats
<1>2. \A u \in Threads : u = t
  BY DEF OneCaller
<1>3. fd[t] \in Fds \/ pc[t] \in {"resolve", "stats"}
  BY DEF SendStep, SendFollow, SendHeader, SendBody, SendResolve, SendStats, StreamInv, Bound
<1>4. fault' = "none"
  <2>1. CASE SendFollow(t)
    BY <1>1, <2>1 DEF SendFollow
  <2>2. CASE SendResolve(t) \/ SendHeader(t) \/ SendBody(t) \/ SendStats(t)
    BY <1>1, <2>2 DEF SendResolve, SendHeader, SendBody, SendStats
  <2> QED
    BY <2>1, <2>2 DEF SendStep
<1>5. pc'[t] = "follow" => private_data[slot'[t]] = fd'[t]
  <2>1. CASE SendResolve(t)
    BY <1>1, <2>1 DEF SendResolve, SendReturns, StreamInv, StreamType
  <2>2. CASE SendFollow(t)
    BY <1>1, <2>2 DEF SendFollow, SendReturns, StreamInv, StreamType
  <2>3. CASE SendHeader(t) \/ SendBody(t) \/ SendStats(t)
    <3>1. pc'[t] # "follow"
      BY <1>1, <2>3 DEF SendHeader, SendBody, SendStats, SendReturns, StreamInv, StreamType
    <3> QED
      BY <3>1
  <2> QED
    BY <2>1, <2>2, <2>3 DEF SendStep
<1>6. \A f \in Fds : ~overlapped'[f]
  <2>1. CASE SendHeader(t)
    <3>1. Sending(fd[t]) = {}
      BY <1>2, <2>1 DEF SendHeader, Sending
    <3> QED
      BY <2>1, <3>1 DEF SendHeader, StreamInv, StreamType
  <2>2. CASE SendResolve(t) \/ SendFollow(t) \/ SendBody(t) \/ SendStats(t)
    BY <2>2 DEF SendResolve, SendFollow, SendBody, SendStats
  <2> QED
    BY <2>1, <2>2 DEF SendStep
<1>7. \A f \in Fds : torn'[f] => CallsMayFail
  <2>1. CASE SendBody(t)
    BY <2>1 DEF SendBody, StreamInv, StreamType
  <2>2. CASE SendResolve(t) \/ SendFollow(t) \/ SendHeader(t) \/ SendStats(t)
    BY <2>2 DEF SendResolve, SendFollow, SendHeader, SendStats
  <2> QED
    BY <2>1, <2>2 DEF SendStep
<1> QED
  BY <1>1, <1>2, <1>4, <1>5, <1>6, <1>7

LEMMA SoleStep ==
    ASSUME OneCaller, StreamInv, SoleInv, [Next]_vars
    PROVE  SoleInv'
<1>1. CASE \E t \in Threads :
              UnifiedInit(t) \/ UnifiedCleanup(t) \/ Connect(t) \/ \E s \in Slots : Disconnect(t, s)
  BY <1>1, SoleTable
<1>2. CASE \E t \in Threads, s \in Slots : SendCall(t, s)
  <2>1. PICK t \in Threads, s \in Slots : SendCall(t, s)
    BY <1>2
  <2>2. pc'[t] = "resolve" /\ initialized' /\ UNCHANGED <<fault, history>>
    BY <2>1 DEF SendCall, StreamInv, StreamType
  <2> QED
    BY <2>2 DEF SoleInv, OneCaller
<1>3. CASE CreateServer \/ ProcessEnds \/ UNCHANGED vars
  BY <1>3 DEF SoleInv, CreateServer, ProcessEnds, vars
<1>4. CASE \E f \in Fds : ReceiveHeader(f) \/ ReceiveTimeout(f) \/ ReceiveStep(f)
  <2>1. UNCHANGED <<initialized, tab, send, fault, overlapped, torn>>
    BY <1>4 DEF ReceiveHeader, ReceiveTimeout, ReceiveStep, ReceiveBody
  <2> QED
    BY <2>1 DEF SoleInv
<1>5. CASE \E t \in Threads : SendStep(t)
  BY <1>5, SoleSend
<1> QED
  BY <1>1, <1>2, <1>3, <1>4, <1>5 DEF Next, Call, PeerCall

(* When one thread of a process uses the connections, send_message never   *)
(* works on a freed table or freed private data and no two sends overlap,  *)
(* so that only a send that fails or a receive that gives up inside a      *)
(* message can keep the messages from arriving whole and in order.         *)
THEOREM OneCallerSafe ==
    ASSUME OneCaller
    PROVE  Spec => [](/\ fault = "none" /\ StreamIntact
                      /\ \A f \in Fds : ~overlapped[f] /\ (torn[f] => CallsMayFail))
<1>1. Init => SoleInv
  BY DEF Init, SoleInv
<1>2. StreamInv /\ SoleInv /\ [Next]_vars => SoleInv'
  BY SoleStep
<1>3. SoleInv => fault = "none" /\ \A f \in Fds : ~overlapped[f] /\ (torn[f] => CallsMayFail)
  BY DEF SoleInv
<1> QED
  BY <1>1, <1>2, <1>3, InitStream, StepStream, StreamCorrect, PTL DEF Spec

-----------------------------------------------------------------------------
(***************************************************************************)
(* EnhancedNetwork.                                                        *)
(***************************************************************************)
USE DEF table, socket, counts, answers, tasks, LoopIdle, Alive

(* The contexts that on_read allocates.                                    *)
Contexts == [client : Handles, from : 1..MaxConns]

(* NetTypeOK with the types of what it leaves open.                        *)
NetTyped ==
    /\ NetTypeOK
    /\ request \in [Tasks -> Contexts \cup {NoRequest}]
    /\ pending \subseteq Tasks /\ running \subseteq Tasks /\ finished \subseteq Tasks

(* Before init there is no connection, after cleanup the loop thread is    *)
(* gone, and between the two the table has room to double.                 *)
NetLife ==
    /\ pdata = "null" => /\ state \in {"UNINITIALIZED", "ERROR"} /\ server = "none"
                         /\ clients = <<>> /\ \A h \in Handles : handle[h] = "freed"
    /\ pdata = "freed" => lpc = "exited"
    /\ pdata = "live" => client_capacity # 0

(* Only the number tells two connections on one address apart.             *)
Numbered == \A h \in Handles : handle[h] = "open" => conn[h] # 0

(* The request in the loop thread's hands is new to the pool.              *)
Submitting ==
    lpc = "submit" => /\ lreq \in Tasks /\ request[lreq] # NoRequest /\ response[lreq] = "none"
                      /\ lreq \notin pending \cup running \cup finished

(* A request is in the pool at most once, and unanswered while it is there.*)
InPool ==
    /\ pending \cap running = {}
    /\ \A r \in pending \cup running : request[r] # NoRequest /\ response[r] = "none"
    /\ \A r \in finished : request[r] # NoRequest

(* A context that is not in use has no answer.                             *)
Unasked ==
    \A r \in Tasks : /\ request[r] = NoRequest => response[r] = "none"
                     /\ response[r] = "none" => receiver[r] = 0

(* The inductive invariant of the server.                                  *)
NetInv == NetTyped /\ NetLife /\ ClientTable /\ Numbered /\ Submitting /\ InPool /\ Unasked

(* What HandleResponse writes, whatever becomes of the response.           *)
LEMMA AnswerGiven ==
    ASSUME NEW r \in Tasks, NEW h, HandleResponse(r, h)
    PROVE  \E a \in {"queued", "dropped"}, c \in {0, conn[h]} :
              /\ response' = [response EXCEPT ![r] = a]
              /\ receiver' = [receiver EXCEPT ![r] = c]
BY DEF HandleResponse, Answer

(* on_read makes a request of a context that was not in use.               *)
LEMMA ReadFacts ==
    ASSUME NetInv, NEW h \in Handles, NEW r \in Tasks, OnRead(h, r)
    PROVE  /\ request' = [request EXCEPT ![r] = [client |-> h, from |-> conn[h]]]
           /\ [client |-> h, from |-> conn[h]] \in Contexts
           /\ request'[r] # NoRequest /\ request'[r].client = h /\ request'[r].from = conn[h]
           /\ \A q \in Tasks : q # r => request'[q] = request[q]
           /\ response[r] = "none" /\ receiver[r] = 0
<1>1. /\ request' = [request EXCEPT ![r] = [client |-> h, from |-> conn[h]]]
      /\ request[r] = NoRequest /\ handle[h] = "open"
  BY DEF OnRead
<1>2. conn[h] \in 1..MaxConns
  BY <1>1, NetBoundAssumption DEF NetInv, NetTyped, NetTypeOK, Numbered
<1>3. [client |-> h, from |-> conn[h]] \in Contexts
  BY <1>2 DEF Contexts
<1>4. /\ request'[r] = [client |-> h, from |-> conn[h]]
      /\ \A q \in Tasks : q # r => request'[q] = request[q]
  BY <1>1 DEF NetInv, NetTyped
<1>5. request'[r].client = h /\ request'[r].from = conn[h]
  BY <1>4
<1>6. request'[r] # NoRequest
  <2>1. request'[r].from # NoRequest.from
    BY <1>2, <1>5 DEF NoRequest
  <2> QED
    BY <2>1
<1>7. response[r] = "none" /\ receiver[r] = 0
  BY <1>1 DEF NetInv, Unasked
<1> QED
  BY <1>1, <1>3, <1>4, <1>5, <1>6, <1>7

(* The request is on its way to the pool, or it is answered.               *)
LEMMA ReadOutcome ==
    ASSUME NetInv, NEW h \in Handles, NEW r \in Tasks, OnRead(h, r)
    PROVE  \/ lpc' = "submit" /\ lreq' = r /\ UNCHANGED answers
           \/ /\ UNCHANGED <<lpc, lreq>>
              /\ \E a \in {"queued", "dropped"}, c \in {0, conn[h]} :
                    /\ response' = [response EXCEPT ![r] = a]
                    /\ receiver' = [receiver EXCEPT ![r] = c]
BY AnswerGiven DEF OnRead, Answer

(* One lemma for each part of the invariant, with one step per action.     *)
LEMMA NetLifeStep ==
    ASSUME NetInv, [NetNext]_netvars
    PROVE  NetLife'
<1> USE DEF NetLife
<1>1. ASSUME NEW h \in Handles, OnNewConnection(h) PROVE NetLife'
  BY <1>1 DEF OnNewConnection, NetInv, NetTyped, NetTypeOK
<1>2. ASSUME NEW h \in Handles, OnNewConnectionFails(h) PROVE NetLife'
  BY <1>2 DEF OnNewConnectionFails, NetInv, NetTyped, NetTypeOK
<1>3. ASSUME NEW h \in Handles, OnReadError(h) PROVE NetLife'
  BY <1>3 DEF OnReadError, NetInv, NetTyped, NetTypeOK
<1>4. ASSUME NEW h \in Handles, OnClientClose(h) PROVE NetLife'
  BY <1>4 DEF OnClientClose, RemoveClient, NetInv, NetTyped, NetTypeOK
<1>5. ASSUME NEW h \in Handles, NEW r \in Tasks, OnRead(h, r) PROVE NetLife'
  BY <1>5 DEF OnRead, HandleResponse, Answer, NetInv, NetTyped, NetTypeOK
<1>6. ASSUME OnNewConnectionNoMemory PROVE NetLife'
  BY <1>6 DEF OnNewConnectionNoMemory, NetInv, NetTyped, NetTypeOK
<1>7. ASSUME NEW r \in Tasks, OnWriteComplete(r) PROVE NetLife'
  BY <1>7 DEF OnWriteComplete, NetInv, NetTyped, NetTypeOK
<1>8. ASSUME NEW r \in Tasks, WorkerBegin(r) PROVE NetLife'
  BY <1>8 DEF WorkerBegin, Begin, NetInv, NetTyped, NetTypeOK
<1>9. ASSUME NEW r \in Tasks, WorkerFinish(r) PROVE NetLife'
  BY <1>9 DEF WorkerFinish, HandleResponse, Answer, Finish, NetInv, NetTyped, NetTypeOK
<1>10. ASSUME Submit PROVE NetLife'
  BY <1>10 DEF Submit, Accept, CountRequest, Answer, NetInv, NetTyped, NetTypeOK
<1>11. ASSUME ModuleInit PROVE NetLife'
  BY <1>11, NetBoundAssumption DEF ModuleInit, NetInv, NetTyped, NetTypeOK
<1>12. ASSUME Start PROVE NetLife'
  BY <1>12 DEF Start, NetInv, NetTyped, NetTypeOK
<1>13. ASSUME NEW b \in Modes, SetConfig(b) PROVE NetLife'
  BY <1>13 DEF SetConfig, NetInv, NetTyped, NetTypeOK
<1>14. ASSUME Signal PROVE NetLife'
  BY <1>14 DEF Signal, Close, NetInv, NetTyped, NetTypeOK
<1>15. ASSUME PoolStopped PROVE NetLife'
  BY <1>15 DEF PoolStopped, NetInv, NetTyped, NetTypeOK
<1>16. ASSUME NetStop PROVE NetLife'
  BY <1>16 DEF NetStop, NetInv, NetTyped, NetTypeOK
<1>17. ASSUME PoolCleanup PROVE NetLife'
  BY <1>17 DEF PoolCleanup, Discard, NetInv, NetTyped, NetTypeOK
<1>18. ASSUME NetCleanup PROVE NetLife'
  BY <1>18 DEF NetCleanup, NetInv, NetTyped, NetTypeOK
<1>19. CASE UNCHANGED netvars
  BY <1>19 DEF netvars, NetInv, NetTyped, NetTypeOK
<1> QED
  BY <1>1, <1>2, <1>3, <1>4, <1>5, <1>6, <1>7, <1>8, <1>9, <1>10, <1>11, <1>12,
     <1>13, <1>14, <1>15, <1>16, <1>17, <1>18, <1>19 DEF NetNext, ShutdownStep

LEMMA NumberedStep ==
    ASSUME NetInv, [NetNext]_netvars
    PROVE  Numbered'
<1> USE DEF Numbered
<1>1. ASSUME NEW h \in Handles, OnNewConnection(h) PROVE Numbered'
  BY <1>1 DEF OnNewConnection, NetInv, NetTyped, NetTypeOK
<1>2. ASSUME NEW h \in Handles, OnNewConnectionFails(h) PROVE Numbered'
  BY <1>2 DEF OnNewConnectionFails, NetInv, NetTyped, NetTypeOK
<1>3. ASSUME NEW h \in Handles, OnReadError(h) PROVE Numbered'
  BY <1>3 DEF OnReadError, NetInv, NetTyped, NetTypeOK
<1>4. ASSUME NEW h \in Handles, OnClientClose(h) PROVE Numbered'
  BY <1>4 DEF OnClientClose, RemoveClient, NetInv, NetTyped, NetTypeOK
<1>5. ASSUME NEW h \in Handles, NEW r \in Tasks, OnRead(h, r) PROVE Numbered'
  BY <1>5 DEF OnRead, HandleResponse, Answer, NetInv, NetTyped, NetTypeOK
<1>6. ASSUME OnNewConnectionNoMemory PROVE Numbered'
  BY <1>6 DEF OnNewConnectionNoMemory, NetInv, NetTyped, NetTypeOK
<1>7. ASSUME NEW r \in Tasks, OnWriteComplete(r) PROVE Numbered'
  BY <1>7 DEF OnWriteComplete, NetInv, NetTyped, NetTypeOK
<1>8. ASSUME NEW r \in Tasks, WorkerBegin(r) PROVE Numbered'
  BY <1>8 DEF WorkerBegin, Begin, NetInv, NetTyped, NetTypeOK
<1>9. ASSUME NEW r \in Tasks, WorkerFinish(r) PROVE Numbered'
  BY <1>9 DEF WorkerFinish, HandleResponse, Answer, Finish, NetInv, NetTyped, NetTypeOK
<1>10. ASSUME Submit PROVE Numbered'
  BY <1>10 DEF Submit, Accept, CountRequest, Answer, NetInv, NetTyped, NetTypeOK
<1>11. ASSUME ModuleInit PROVE Numbered'
  BY <1>11 DEF ModuleInit, NetInv, NetTyped, NetTypeOK
<1>12. ASSUME Start PROVE Numbered'
  BY <1>12 DEF Start, NetInv, NetTyped, NetTypeOK
<1>13. ASSUME NEW b \in Modes, SetConfig(b) PROVE Numbered'
  BY <1>13 DEF SetConfig, NetInv, NetTyped, NetTypeOK
<1>14. ASSUME Signal PROVE Numbered'
  BY <1>14 DEF Signal, Close, NetInv, NetTyped, NetTypeOK
<1>15. ASSUME PoolStopped PROVE Numbered'
  BY <1>15 DEF PoolStopped, NetInv, NetTyped, NetTypeOK
<1>16. ASSUME NetStop PROVE Numbered'
  BY <1>16 DEF NetStop, NetInv, NetTyped, NetTypeOK
<1>17. ASSUME PoolCleanup PROVE Numbered'
  BY <1>17 DEF PoolCleanup, Discard, NetInv, NetTyped, NetTypeOK
<1>18. ASSUME NetCleanup PROVE Numbered'
  BY <1>18 DEF NetCleanup, NetInv, NetTyped, NetTypeOK
<1>19. CASE UNCHANGED netvars
  BY <1>19 DEF netvars, NetInv, NetTyped, NetTypeOK
<1> QED
  BY <1>1, <1>2, <1>3, <1>4, <1>5, <1>6, <1>7, <1>8, <1>9, <1>10, <1>11, <1>12,
     <1>13, <1>14, <1>15, <1>16, <1>17, <1>18, <1>19 DEF NetNext, ShutdownStep

LEMMA SubmittingStep ==
    ASSUME NetInv, [NetNext]_netvars
    PROVE  Submitting'
<1> USE DEF Submitting
<1>1. ASSUME NEW h \in Handles, OnNewConnection(h) PROVE Submitting'
  BY <1>1 DEF OnNewConnection, NetInv, NetTyped, NetTypeOK
<1>2. ASSUME NEW h \in Handles, OnNewConnectionFails(h) PROVE Submitting'
  BY <1>2 DEF OnNewConnectionFails, NetInv, NetTyped, NetTypeOK
<1>3. ASSUME NEW h \in Handles, OnReadError(h) PROVE Submitting'
  BY <1>3 DEF OnReadError, NetInv, NetTyped, NetTypeOK
<1>4. ASSUME NEW h \in Handles, OnClientClose(h) PROVE Submitting'
  BY <1>4 DEF OnClientClose, RemoveClient, NetInv, NetTyped, NetTypeOK
<1>5. ASSUME NEW h \in Handles, NEW r \in Tasks, OnRead(h, r) PROVE Submitting'
  <2>1. CASE lpc' = "submit" /\ lreq' = r /\ UNCHANGED answers
    <3>1. request'[r] # NoRequest /\ response[r] = "none"
      BY ONLY NetInv, <1>5, ReadFacts
    <3>2. r \notin pending \cup running \cup finished /\ UNCHANGED tasks
      BY <1>5 DEF OnRead, NetInv, InPool
    <3> QED
      BY <2>1, <3>1, <3>2
  <2>2. CASE UNCHANGED lpc
    BY <1>5, <2>2 DEF OnRead
  <2> QED
    BY <1>5, <2>1, <2>2, ReadOutcome
<1>6. ASSUME OnNewConnectionNoMemory PROVE Submitting'
  BY <1>6 DEF OnNewConnectionNoMemory, NetInv, NetTyped, NetTypeOK
<1>7. ASSUME NEW r \in Tasks, OnWriteComplete(r) PROVE Submitting'
  BY <1>7 DEF OnWriteComplete, NetInv, NetTyped, NetTypeOK
<1>8. ASSUME NEW r \in Tasks, WorkerBegin(r) PROVE Submitting'
  BY <1>8 DEF WorkerBegin, Begin, NetInv, NetTyped, NetTypeOK
<1>9. ASSUME NEW r \in Tasks, WorkerFinish(r) PROVE Submitting'
  BY <1>9 DEF WorkerFinish, HandleResponse, Answer, Finish, NetInv, NetTyped, NetTypeOK
<1>10. ASSUME Submit PROVE Submitting'
  BY <1>10 DEF Submit, Accept, CountRequest, Answer, NetInv, NetTyped, NetTypeOK
<1>11. ASSUME ModuleInit PROVE Submitting'
  BY <1>11 DEF ModuleInit, NetInv, NetTyped, NetTypeOK
<1>12. ASSUME Start PROVE Submitting'
  BY <1>12 DEF Start, NetInv, NetTyped, NetTypeOK
<1>13. ASSUME NEW b \in Modes, SetConfig(b) PROVE Submitting'
  BY <1>13 DEF SetConfig, NetInv, NetTyped, NetTypeOK
<1>14. ASSUME Signal PROVE Submitting'
  BY <1>14 DEF Signal, Close, NetInv, NetTyped, NetTypeOK
<1>15. ASSUME PoolStopped PROVE Submitting'
  BY <1>15 DEF PoolStopped, NetInv, NetTyped, NetTypeOK
<1>16. ASSUME NetStop PROVE Submitting'
  BY <1>16 DEF NetStop, NetInv, NetTyped, NetTypeOK
<1>17. ASSUME PoolCleanup PROVE Submitting'
  BY <1>17 DEF PoolCleanup, Discard, NetInv, NetTyped, NetTypeOK
<1>18. ASSUME NetCleanup PROVE Submitting'
  BY <1>18 DEF NetCleanup, NetInv, NetTyped, NetTypeOK
<1>19. CASE UNCHANGED netvars
  BY <1>19 DEF netvars, NetInv, NetTyped, NetTypeOK
<1> QED
  BY <1>1, <1>2, <1>3, <1>4, <1>5, <1>6, <1>7, <1>8, <1>9, <1>10, <1>11, <1>12,
     <1>13, <1>14, <1>15, <1>16, <1>17, <1>18, <1>19 DEF NetNext, ShutdownStep

LEMMA InPoolStep ==
    ASSUME NetInv, [NetNext]_netvars
    PROVE  InPool'
<1> USE DEF InPool
<1>1. ASSUME NEW h \in Handles, OnNewConnection(h) PROVE InPool'
  BY <1>1 DEF OnNewConnection, NetInv, NetTyped, NetTypeOK
<1>2. ASSUME NEW h \in Handles, OnNewConnectionFails(h) PROVE InPool'
  BY <1>2 DEF OnNewConnectionFails, NetInv, NetTyped, NetTypeOK
<1>3. ASSUME NEW h \in Handles, OnReadError(h) PROVE InPool'
  BY <1>3 DEF OnReadError, NetInv, NetTyped, NetTypeOK
<1>4. ASSUME NEW h \in Handles, OnClientClose(h) PROVE InPool'
  BY <1>4 DEF OnClientClose, RemoveClient, NetInv, NetTyped, NetTypeOK
<1>5. ASSUME NEW h \in Handles, NEW r \in Tasks, OnRead(h, r) PROVE InPool'
  BY <1>5 DEF OnRead, HandleResponse, Answer, NetInv, NetTyped, NetTypeOK
<1>6. ASSUME OnNewConnectionNoMemory PROVE InPool'
  BY <1>6 DEF OnNewConnectionNoMemory, NetInv, NetTyped, NetTypeOK
<1>7. ASSUME NEW r \in Tasks, OnWriteComplete(r) PROVE InPool'
  BY <1>7 DEF OnWriteComplete, NetInv, NetTyped, NetTypeOK
<1>8. ASSUME NEW r \in Tasks, WorkerBegin(r) PROVE InPool'
  BY <1>8 DEF WorkerBegin, Begin, NetInv, NetTyped, NetTypeOK
<1>9. ASSUME NEW r \in Tasks, WorkerFinish(r) PROVE InPool'
  BY <1>9 DEF WorkerFinish, HandleResponse, Answer, Finish, NetInv, NetTyped, NetTypeOK
<1>10. ASSUME Submit PROVE InPool'
  <2>1. /\ lreq \in Tasks /\ request[lreq] # NoRequest /\ response[lreq] = "none"
        /\ lreq \notin pending \cup running \cup finished /\ UNCHANGED request
    BY <1>10 DEF Submit, NetInv, Submitting
  <2>2. CASE Accept(lreq) /\ UNCHANGED answers
    BY <2>1, <2>2 DEF Accept, NetInv
  <2>3. CASE Answer(lreq, "dropped", 0) /\ UNCHANGED tasks
    BY <2>1, <2>3 DEF Answer, NetInv, NetTyped, NetTypeOK
  <2> QED
    BY <1>10, <2>2, <2>3 DEF Submit
<1>11. ASSUME ModuleInit PROVE InPool'
  BY <1>11 DEF ModuleInit, NetInv, NetTyped, NetTypeOK
<1>12. ASSUME Start PROVE InPool'
  BY <1>12 DEF Start, NetInv, NetTyped, NetTypeOK
<1>13. ASSUME NEW b \in Modes, SetConfig(b) PROVE InPool'
  BY <1>13 DEF SetConfig, NetInv, NetTyped, NetTypeOK
<1>14. ASSUME Signal PROVE InPool'
  BY <1>14 DEF Signal, Close, NetInv, NetTyped, NetTypeOK
<1>15. ASSUME PoolStopped PROVE InPool'
  BY <1>15 DEF PoolStopped, NetInv, NetTyped, NetTypeOK
<1>16. ASSUME NetStop PROVE InPool'
  BY <1>16 DEF NetStop, NetInv, NetTyped, NetTypeOK
<1>17. ASSUME PoolCleanup PROVE InPool'
  BY <1>17 DEF PoolCleanup, Discard, NetInv, NetTyped, NetTypeOK
<1>18. ASSUME NetCleanup PROVE InPool'
  BY <1>18 DEF NetCleanup, NetInv, NetTyped, NetTypeOK
<1>19. CASE UNCHANGED netvars
  BY <1>19 DEF netvars, NetInv, NetTyped, NetTypeOK
<1> QED
  BY <1>1, <1>2, <1>3, <1>4, <1>5, <1>6, <1>7, <1>8, <1>9, <1>10, <1>11, <1>12,
     <1>13, <1>14, <1>15, <1>16, <1>17, <1>18, <1>19 DEF NetNext, ShutdownStep

LEMMA UnaskedStep ==
    ASSUME NetInv, [NetNext]_netvars
    PROVE  Unasked'
<1> USE DEF Unasked
<1>1. ASSUME NEW h \in Handles, OnNewConnection(h) PROVE Unasked'
  BY <1>1 DEF OnNewConnection, NetInv, NetTyped, NetTypeOK
<1>2. ASSUME NEW h \in Handles, OnNewConnectionFails(h) PROVE Unasked'
  BY <1>2 DEF OnNewConnectionFails, NetInv, NetTyped, NetTypeOK
<1>3. ASSUME NEW h \in Handles, OnReadError(h) PROVE Unasked'
  BY <1>3 DEF OnReadError, NetInv, NetTyped, NetTypeOK
<1>4. ASSUME NEW h \in Handles, OnClientClose(h) PROVE Unasked'
  BY <1>4 DEF OnClientClose, RemoveClient, NetInv, NetTyped, NetTypeOK
<1>5. ASSUME NEW h \in Handles, NEW r \in Tasks, OnRead(h, r) PROVE Unasked'
  <2>0. /\ request'[r] # NoRequest /\ \A q \in Tasks : q # r => request'[q] = request[q]
        /\ response[r] = "none" /\ receiver[r] = 0
    BY ONLY NetInv, <1>5, ReadFacts, ZenonT(60)
  <2>1. CASE UNCHANGED answers
    BY <2>0, <2>1 DEF NetInv
  <2>2. CASE \E a \in {"queued", "dropped"}, c \in {0, conn[h]} :
                /\ response' = [response EXCEPT ![r] = a]
                /\ receiver' = [receiver EXCEPT ![r] = c]
    <3>1. PICK a \in {"queued", "dropped"}, c \in {0, conn[h]} :
                /\ response' = [response EXCEPT ![r] = a]
                /\ receiver' = [receiver EXCEPT ![r] = c]
      BY <2>2
    <3> QED
      BY <2>0, <3>1 DEF NetInv, NetTyped, NetTypeOK
  <2> QED
    BY <1>5, <2>1, <2>2, ReadOutcome
<1>6. ASSUME OnNewConnectionNoMemory PROVE Unasked'
  BY <1>6 DEF OnNewConnectionNoMemory, NetInv, NetTyped, NetTypeOK
<1>7. ASSUME NEW r \in Tasks, OnWriteComplete(r) PROVE Unasked'
  BY <1>7 DEF OnWriteComplete, NetInv, NetTyped, NetTypeOK
<1>8. ASSUME NEW r \in Tasks, WorkerBegin(r) PROVE Unasked'
  BY <1>8 DEF WorkerBegin, Begin, NetInv, NetTyped, NetTypeOK
<1>9. ASSUME NEW r \in Tasks, WorkerFinish(r) PROVE Unasked'
  <2>1. r \in running /\ UNCHANGED request /\ request[r] # NoRequest
    BY <1>9 DEF WorkerFinish, Finish, NetInv, InPool
  <2>2. PICK a \in {"queued", "dropped"}, c \in {0, conn[request[r].client]} :
               response' = [response EXCEPT ![r] = a] /\ receiver' = [receiver EXCEPT ![r] = c]
    BY <1>9, AnswerGiven DEF WorkerFinish
  <2> QED
    BY <2>1, <2>2 DEF NetInv, NetTyped, NetTypeOK
<1>10. ASSUME Submit PROVE Unasked'
  <2>1. lreq \in Tasks /\ request[lreq] # NoRequest /\ UNCHANGED request
    BY <1>10 DEF Submit, NetInv, Submitting
  <2>2. CASE UNCHANGED answers
    BY <2>1, <2>2 DEF NetInv
  <2>3. CASE Answer(lreq, "dropped", 0)
    BY <2>1, <2>3 DEF Answer, NetInv, NetTyped, NetTypeOK
  <2> QED
    BY <1>10, <2>2, <2>3 DEF Submit
<1>11. ASSUME ModuleInit PROVE Unasked'
  BY <1>11 DEF ModuleInit, NetInv, NetTyped, NetTypeOK
<1>12. ASSUME Start PROVE Unasked'
  BY <1>12 DEF Start, NetInv, NetTyped, NetTypeOK
<1>13. ASSUME NEW b \in Modes, SetConfig(b) PROVE Unasked'
  BY <1>13 DEF SetConfig, NetInv, NetTyped, NetTypeOK
<1>14. ASSUME Signal PROVE Unasked'
  BY <1>14 DEF Signal, Close, NetInv, NetTyped, NetTypeOK
<1>15. ASSUME PoolStopped PROVE Unasked'
  BY <1>15 DEF PoolStopped, NetInv, NetTyped, NetTypeOK
<1>16. ASSUME NetStop PROVE Unasked'
  BY <1>16 DEF NetStop, NetInv, NetTyped, NetTypeOK
<1>17. ASSUME PoolCleanup PROVE Unasked'
  BY <1>17 DEF PoolCleanup, Discard, NetInv, NetTyped, NetTypeOK
<1>18. ASSUME NetCleanup PROVE Unasked'
  BY <1>18 DEF NetCleanup, NetInv, NetTyped, NetTypeOK
<1>19. CASE UNCHANGED netvars
  BY <1>19 DEF netvars, NetInv, NetTyped, NetTypeOK
<1> QED
  BY <1>1, <1>2, <1>3, <1>4, <1>5, <1>6, <1>7, <1>8, <1>9, <1>10, <1>11, <1>12,
     <1>13, <1>14, <1>15, <1>16, <1>17, <1>18, <1>19 DEF NetNext, ShutdownStep

-----------------------------------------------------------------------------
(* While the loop thread runs callbacks with a handle or a listening       *)
(* socket about, the module's data is there.                               *)
LEMMA NetIsLive ==
    ASSUME NetInv, lpc = "idle", server = "listening" \/ \E h \in Handles : handle[h] # "freed"
    PROVE  pdata = "live"
BY DEF NetInv, NetTyped, NetTypeOK, NetLife

(* remove_client in a table without duplicates.                            *)
LEMMA Removed ==
    ASSUME NetTyped, NEW h \in Handles, RemoveClient(h),
           \A j, k \in DOMAIN clients : j # k => clients[j] # clients[k]
    PROVE  /\ clients' \in Seq(Handles) /\ Len(clients') <= Len(clients)
           /\ \A j, k \in DOMAIN clients' : j # k => clients'[j] # clients'[k]
           /\ \A k \in DOMAIN clients' : clients'[k] # h /\ InTable(clients'[k])
           /\ \A g \in Handles \ {h} : InTable(g) => InTable(g)'
<1>0. /\ clients \in Seq(Handles) /\ Len(clients) \in Nat /\ DOMAIN clients = 1..Len(clients)
      /\ \A k \in 1..Len(clients) : clients[k] \in Handles
  BY LenProperties, ElementOfSeq DEF NetTyped, NetTypeOK
<1>1. CASE ~InTable(h) /\ UNCHANGED clients
  BY <1>0, <1>1 DEF InTable
<1>2. ASSUME NEW n \in DOMAIN clients, clients[n] = h,
             clients' = [k \in 1..(Len(clients) - 1) |->
                            IF k < n THEN clients[k] ELSE clients[k + 1]]
      PROVE  /\ clients' \in Seq(Handles) /\ Len(clients') <= Len(clients)
             /\ \A j, k \in DOMAIN clients' : j # k => clients'[j] # clients'[k]
             /\ \A k \in DOMAIN clients' : clients'[k] # h /\ InTable(clients'[k])
             /\ \A g \in Handles \ {h} : InTable(g) => InTable(g)'
  <2>1. n \in 1..Len(clients) /\ Len(clients) - 1 \in Nat
    BY <1>0
  <2>2. \A k \in 1..(Len(clients) - 1) :
           /\ k < n => clients'[k] = clients[k] /\ k \in 1..Len(clients)
           /\ ~(k < n) => clients'[k] = clients[k + 1] /\ k + 1 \in 1..Len(clients)
    BY <1>0, <1>2, <2>1
  <2>3. \A k \in 1..(Len(clients) - 1) : clients'[k] \in Handles
    BY <1>0, <2>2
  <2>4. /\ clients' \in Seq(Handles) /\ Len(clients') = Len(clients) - 1
        /\ DOMAIN clients' = 1..(Len(clients) - 1)
    <3>1. clients' \in Seq(Handles)
      BY <1>2, <2>1, <2>3, IsASeq
    <3>2. DOMAIN clients' = 1..(Len(clients) - 1)
      BY <1>2
    <3> QED
      BY <2>1, <3>1, <3>2, LenProperties
  <2>5. \A j, k \in DOMAIN clients' : j # k => clients'[j] # clients'[k]
    <3> SUFFICES ASSUME NEW j \in 1..(Len(clients) - 1), NEW k \in 1..(Len(clients) - 1), j # k
                 PROVE  clients'[j] # clients'[k]
      BY <2>4
    <3>1. PICK a \in 1..Len(clients) : clients'[j] = clients[a] /\ a = IF j < n THEN j ELSE j + 1
      BY <2>2
    <3>2. PICK c \in 1..Len(clients) : clients'[k] = clients[c] /\ c = IF k < n THEN k ELSE k + 1
      BY <2>2
    <3>3. a # c
      BY ONLY <2>1, <3>1, <3>2, j # k, j \in 1..(Len(clients) - 1), k \in 1..(Len(clients) - 1)
    <3> QED
      BY <1>0, <3>1, <3>2, <3>3
  <2>6. \A k \in DOMAIN clients' : clients'[k] # h /\ InTable(clients'[k])
    <3> SUFFICES ASSUME NEW k \in 1..(Len(clients) - 1)
                 PROVE  clients'[k] # h /\ InTable(clients'[k])
      BY <2>4
    <3>1. PICK a \in 1..Len(clients) : clients'[k] = clients[a] /\ a = IF k < n THEN k ELSE k + 1
      BY <2>2
    <3>2. a # n
      BY ONLY <2>1, <3>1, k \in 1..(Len(clients) - 1)
    <3> QED
      BY <1>0, <1>2, <3>1, <3>2 DEF InTable
  <2>7. ASSUME NEW g \in Handles \ {h}, InTable(g) PROVE InTable(g)'
    <3>1. PICK k \in 1..Len(clients) : clients[k] = g
      BY <1>0, <2>7 DEF InTable
    <3>2. CASE k < n
      <4>1. k \in 1..(Len(clients) - 1) /\ clients'[k] = g
        BY <2>1, <2>2, <3>1, <3>2
      <4> QED
        BY <2>4, <4>1 DEF InTable
    <3>3. CASE k > n
      <4>1. k - 1 \in 1..(Len(clients) - 1) /\ ~(k - 1 < n) /\ (k - 1) + 1 = k
        BY <2>1, <3>1, <3>3
      <4>2. clients'[k - 1] = g
        BY <2>2, <3>1, <4>1
      <4> QED
        BY <2>4, <4>1, <4>2 DEF InTable
    <3> QED
      BY <1>2, <2>1, <3>1, <3>2, <3>3
  <2> QED
    BY <1>0, <2>1, <2>4, <2>5, <2>6, <2>7
<1> QED
  BY <1>0, <1>1, <1>2 DEF RemoveClient

(* add_client: the new entry is the last one.                              *)
LEMMA Added ==
    ASSUME NetTyped, NEW h \in Handles, clients' = Append(clients, h)
    PROVE  /\ clients' \in Seq(Handles) /\ Len(clients') = Len(clients) + 1
           /\ DOMAIN clients = 1..Len(clients) /\ DOMAIN clients' = 1..(Len(clients) + 1)
           /\ clients'[Len(clients) + 1] = h /\ Len(clients) \in Nat
           /\ \A k \in 1..Len(clients) : clients'[k] = clients[k]
<1>1. clients \in Seq(Handles) /\ Len(clients) \in Nat /\ DOMAIN clients = 1..Len(clients)
  BY LenProperties DEF NetTyped, NetTypeOK
<1>2. clients' \in Seq(Handles) /\ Len(clients') = Len(clients) + 1
  BY <1>1, AppendProperties
<1>3. DOMAIN clients' = 1..(Len(clients) + 1)
  BY <1>2, LenProperties
<1> QED
  BY <1>1, <1>2, <1>3, AppendProperties

LEMMA ClientTableStep ==
    ASSUME NetInv, [NetNext]_netvars
    PROVE  ClientTable'
<1> USE DEF ClientTable, InTable
<1>1. ASSUME NEW h \in Handles, OnNewConnection(h) PROVE ClientTable'
  <2>1. /\ clients' = Append(clients, h) /\ handle[h] = "freed" /\ lpc = "idle"
        /\ server = "listening" /\ handle' = [handle EXCEPT ![h] = "open"] /\ UNCHANGED pdata
    BY <1>1 DEF OnNewConnection
  <2>2. pdata = "live" /\ NetTyped /\ handle \in [Handles -> {"freed", "open", "closing"}]
    BY <2>1, NetIsLive DEF NetInv, NetTyped, NetTypeOK
  <2>3. /\ DOMAIN clients = 1..Len(clients) /\ DOMAIN clients' = 1..(Len(clients) + 1)
        /\ clients'[Len(clients) + 1] = h /\ Len(clients) \in Nat
        /\ \A k \in 1..Len(clients) : clients'[k] = clients[k]
    BY <2>1, <2>2, Added
  <2>4. \A k \in 1..Len(clients) : clients[k] \in Handles /\ clients[k] # h
    <3>1. \A k \in 1..Len(clients) : clients[k] \in Handles
      BY ElementOfSeq DEF NetInv, NetTyped, NetTypeOK
    <3>2. \A k \in 1..Len(clients) : handle[clients[k]] # "freed"
      BY <2>2, <2>3 DEF NetInv
    <3> QED
      BY <2>1, <3>1, <3>2
  <2>5. \A j, k \in DOMAIN clients' : j # k => clients'[j] # clients'[k]
    BY <2>2, <2>3, <2>4 DEF NetInv
  <2>6. \A k \in DOMAIN clients' : handle'[clients'[k]] # "freed"
    BY <2>1, <2>2, <2>3, <2>4 DEF NetInv
  <2>7. \A g \in Handles : handle'[g] = "open" => \E k \in DOMAIN clients' : clients'[k] = g
    BY <2>1, <2>2, <2>3 DEF NetInv
  <2> QED
    BY <2>5, <2>6, <2>7
<1>2. ASSUME NEW h \in Handles, OnNewConnectionFails(h) PROVE ClientTable'
  BY <1>2 DEF OnNewConnectionFails, NetInv, NetTyped, NetTypeOK
<1>3. ASSUME NEW h \in Handles, OnReadError(h) PROVE ClientTable'
  BY <1>3 DEF OnReadError, NetInv, NetTyped, NetTypeOK
<1>4. ASSUME NEW h \in Handles, OnClientClose(h) PROVE ClientTable'
  <2>1. /\ RemoveClient(h) /\ handle[h] = "closing" /\ lpc = "idle"
        /\ handle' = [handle EXCEPT ![h] = "freed"] /\ UNCHANGED pdata
    BY <1>4 DEF OnClientClose
  <2>2. pdata = "live" /\ NetTyped /\ handle \in [Handles -> {"freed", "open", "closing"}]
    BY <2>1, NetIsLive DEF NetInv, NetTyped, NetTypeOK
  <2>3. /\ \A j, k \in DOMAIN clients' : j # k => clients'[j] # clients'[k]
        /\ \A k \in DOMAIN clients' : clients'[k] # h /\ \E m \in DOMAIN clients : clients[m] = clients'[k]
        /\ \A g \in Handles \ {h} : (\E m \in DOMAIN clients : clients[m] = g)
                                    => \E m \in DOMAIN clients' : clients'[m] = g
    BY <2>1, <2>2, Removed DEF NetInv
  <2>4. \A k \in DOMAIN clients' : handle'[clients'[k]] # "freed"
    <3>1. \A m \in DOMAIN clients : clients[m] \in Handles
      BY ElementOfSeq, LenProperties DEF NetInv, NetTyped, NetTypeOK
    <3> QED
      BY <2>1, <2>2, <2>3, <3>1 DEF NetInv
  <2>5. \A g \in Handles : handle'[g] = "open" => \E k \in DOMAIN clients' : clients'[k] = g
    BY <2>1, <2>2, <2>3 DEF NetInv
  <2> QED
    BY <2>3, <2>4, <2>5
<1>5. ASSUME NEW h \in Handles, NEW r \in Tasks, OnRead(h, r) PROVE ClientTable'
  BY <1>5 DEF OnRead, HandleResponse, Answer, NetInv, NetTyped, NetTypeOK
<1>6. ASSUME OnNewConnectionNoMemory PROVE ClientTable'
  BY <1>6 DEF OnNewConnectionNoMemory, NetInv, NetTyped, NetTypeOK
<1>7. ASSUME NEW r \in Tasks, OnWriteComplete(r) PROVE ClientTable'
  BY <1>7 DEF OnWriteComplete, NetInv, NetTyped, NetTypeOK
<1>8. ASSUME NEW r \in Tasks, WorkerBegin(r) PROVE ClientTable'
  BY <1>8 DEF WorkerBegin, Begin, NetInv, NetTyped, NetTypeOK
<1>9. ASSUME NEW r \in Tasks, WorkerFinish(r) PROVE ClientTable'
  BY <1>9 DEF WorkerFinish, HandleResponse, Answer, Finish, NetInv, NetTyped, NetTypeOK
<1>10. ASSUME Submit PROVE ClientTable'
  BY <1>10 DEF Submit, Accept, CountRequest, Answer, NetInv, NetTyped, NetTypeOK
<1>11. ASSUME ModuleInit PROVE ClientTable'
  <2>1. clients = <<>> /\ UNCHANGED <<clients, handle>> /\ \A g \in Handles : handle[g] = "freed"
    BY <1>11 DEF ModuleInit, NetInv, NetLife
  <2>2. DOMAIN clients = {}
    BY <2>1
  <2> QED
    BY <2>1, <2>2
<1>12. ASSUME Start PROVE ClientTable'
  BY <1>12 DEF Start, NetInv, NetTyped, NetTypeOK
<1>13. ASSUME NEW b \in Modes, SetConfig(b) PROVE ClientTable'
  BY <1>13 DEF SetConfig, NetInv, NetTyped, NetTypeOK
<1>14. ASSUME Signal PROVE ClientTable'
  BY <1>14 DEF Signal, Close, NetInv, NetTyped, NetTypeOK
<1>15. ASSUME PoolStopped PROVE ClientTable'
  BY <1>15 DEF PoolStopped, NetInv, NetTyped, NetTypeOK
<1>16. ASSUME NetStop PROVE ClientTable'
  BY <1>16 DEF NetStop, NetInv, NetTyped, NetTypeOK
<1>17. ASSUME PoolCleanup PROVE ClientTable'
  BY <1>17 DEF PoolCleanup, Discard, NetInv, NetTyped, NetTypeOK
<1>18. ASSUME NetCleanup PROVE ClientTable'
  BY <1>18 DEF NetCleanup, NetInv, NetTyped, NetTypeOK
<1>19. CASE UNCHANGED netvars
  BY <1>19 DEF netvars, NetInv, NetTyped, NetTypeOK
<1> QED
  BY <1>1, <1>2, <1>3, <1>4, <1>5, <1>6, <1>7, <1>8, <1>9, <1>10, <1>11, <1>12,
     <1>13, <1>14, <1>15, <1>16, <1>17, <1>18, <1>19 DEF NetNext, ShutdownStep

LEMMA NetTypedStep ==
    ASSUME NetInv, [NetNext]_netvars
    PROVE  NetTyped'
<1> USE DEF NetTyped, NetTypeOK
<1>1. ASSUME NEW h \in Handles, OnNewConnection(h) PROVE NetTyped'
  <2>1. /\ clients' = Append(clients, h) /\ lpc = "idle" /\ server = "listening" /\ conns < MaxConns
        /\ client_capacity' = IF TableFull THEN 2 * client_capacity ELSE client_capacity
    BY <1>1 DEF OnNewConnection
  <2>2. client_capacity # 0 /\ NetTyped
    BY <2>1, NetIsLive DEF NetInv, NetLife
  <2>3. clients' \in Seq(Handles) /\ Len(clients') = Len(clients) + 1 /\ Len(clients) \in Nat
    BY ONLY <2>1, <2>2, Added, h \in Handles
  <2>4. client_capacity' \in Nat /\ Len(clients') <= client_capacity'
    BY <2>1, <2>2, <2>3 DEF TableFull
  <2>5. conns + 1 \in 0..MaxConns
    BY <2>1, <2>2, NetBoundAssumption
  <2> QED
    BY <1>1, <2>2, <2>3, <2>4, <2>5 DEF OnNewConnection
<1>2. ASSUME NEW h \in Handles, OnNewConnectionFails(h) PROVE NetTyped'
  <2>1. conns + 1 \in 0..MaxConns /\ NetTyped
    BY <1>2, NetBoundAssumption DEF OnNewConnectionFails, NetInv
  <2> QED
    BY <1>2, <2>1 DEF OnNewConnectionFails
<1>3. ASSUME NEW h \in Handles, OnReadError(h) PROVE NetTyped'
  BY <1>3 DEF OnReadError, NetInv
<1>4. ASSUME NEW h \in Handles, OnClientClose(h) PROVE NetTyped'
  <2>1. RemoveClient(h) /\ handle[h] = "closing" /\ lpc = "idle"
    BY <1>4 DEF OnClientClose
  <2>2. NetTyped /\ pdata = "live"
    BY <2>1, NetIsLive DEF NetInv
  <2>3. clients' \in Seq(Handles) /\ Len(clients') <= Len(clients)
    BY <2>1, <2>2, Removed DEF NetInv, ClientTable
  <2>4. Len(clients') \in Nat /\ Len(clients) \in Nat
    BY <2>2, <2>3, LenProperties
  <2>5. 0 \in 0..MaxConns
    BY NetBoundAssumption
  <2>6. response' \in [Tasks -> {"none", "queued", "sent", "dropped"}]
    BY <1>4, <2>2 DEF OnClientClose
  <2> QED
    BY <1>4, <2>2, <2>3, <2>4, <2>5, <2>6 DEF OnClientClose
<1>5. ASSUME NEW h \in Handles, NEW r \in Tasks, OnRead(h, r) PROVE NetTyped'
  <2>0. NetTyped /\ 0 \in 0..MaxConns
    BY NetBoundAssumption DEF NetInv
  <2>1. request' \in [Tasks -> Contexts \cup {NoRequest}]
    <3>1. /\ request' = [request EXCEPT ![r] = [client |-> h, from |-> conn[h]]]
          /\ [client |-> h, from |-> conn[h]] \in Contexts
      BY ONLY NetInv, <1>5, ReadFacts
    <3> QED
      BY <2>0, <3>1
  <2>2. CASE lpc' = "submit" /\ lreq' = r /\ UNCHANGED answers
    BY <1>5, <2>0, <2>1, <2>2 DEF OnRead
  <2>3. CASE UNCHANGED <<lpc, lreq, faults>> /\ Answer(r, "dropped", 0)
    BY <1>5, <2>0, <2>1, <2>3 DEF OnRead, Answer
  <2>4. CASE UNCHANGED <<lpc, lreq>> /\ HandleResponse(r, h)
    <3>1. PICK a \in {"queued", "dropped"}, c \in {0, conn[h]} :
              /\ response' = [response EXCEPT ![r] = a]
              /\ receiver' = [receiver EXCEPT ![r] = c]
      BY <2>4, AnswerGiven
    <3>2. c \in 0..MaxConns
      BY <2>0
    <3>3. faults' \subseteq {"use_after_free", "double_close"}
      BY <2>0, <2>4 DEF HandleResponse
    <3> QED
      BY <1>5, <2>0, <2>1, <2>4, <3>1, <3>2, <3>3 DEF OnRead
  <2> QED
    BY <1>5, <2>2, <2>3, <2>4 DEF OnRead
<1>6. ASSUME OnNewConnectionNoMemory PROVE NetTyped'
  BY <1>6 DEF OnNewConnectionNoMemory, NetInv
<1>7. ASSUME NEW r \in Tasks, OnWriteComplete(r) PROVE NetTyped'
  BY <1>7 DEF OnWriteComplete, NetInv
<1>8. ASSUME NEW r \in Tasks, WorkerBegin(r) PROVE NetTyped'
  BY <1>8 DEF WorkerBegin, Begin, NetInv
<1>9. ASSUME NEW r \in Tasks, WorkerFinish(r) PROVE NetTyped'
  <2>0. NetTyped /\ 0 \in 0..MaxConns
    BY NetBoundAssumption DEF NetInv
  <2>1. /\ r \in running /\ request[r] # NoRequest /\ HandleResponse(r, request[r].client)
        /\ running' = running \ {r} /\ finished' = finished \cup {r} /\ UNCHANGED pending
    BY <1>9 DEF WorkerFinish, Finish, NetInv, InPool
  <2>2. request[r].client \in Handles
    BY <2>0, <2>1 DEF Contexts
  <2>3. PICK a \in {"queued", "dropped"}, c \in {0, conn[request[r].client]} :
              /\ response' = [response EXCEPT ![r] = a]
              /\ receiver' = [receiver EXCEPT ![r] = c]
    BY <2>1, AnswerGiven
  <2>4. c \in 0..MaxConns
    BY <2>0, <2>2
  <2>5. faults' \subseteq {"use_after_free", "double_close"}
    BY <2>0, <2>1 DEF HandleResponse
  <2> QED
    BY <1>9, <2>0, <2>1, <2>3, <2>4, <2>5 DEF WorkerFinish, Finish
<1>10. ASSUME Submit PROVE NetTyped'
  <2>0. NetTyped /\ 0 \in 0..MaxConns /\ lreq \in Tasks
    BY <1>10, NetBoundAssumption DEF NetInv, Submit, Submitting
  <2>1. total_requests' \in Nat /\ active_requests' \in Nat
    BY <1>10, <2>0 DEF Submit, CountRequest
  <2>2. CASE Accept(lreq) /\ UNCHANGED answers
    BY <1>10, <2>0, <2>1, <2>2 DEF Submit, Accept
  <2>3. CASE Answer(lreq, "dropped", 0) /\ UNCHANGED <<tasks, faults>>
    BY <1>10, <2>0, <2>1, <2>3 DEF Submit, Answer
  <2> QED
    BY <1>10, <2>2, <2>3 DEF Submit
<1>11. ASSUME ModuleInit PROVE NetTyped'
  <2>1. NetTyped /\ (pdata = "null" => clients = <<>> /\ Len(clients) = 0) /\ InitialCapacity \in Nat
    BY NetBoundAssumption DEF NetInv, NetLife
  <2>2. CASE client_capacity' = InitialCapacity
    BY <1>11, <2>1, <2>2 DEF ModuleInit
  <2>3. CASE UNCHANGED client_capacity
    BY <1>11, <2>1, <2>3 DEF ModuleInit
  <2> QED
    BY <1>11, <2>2, <2>3 DEF ModuleInit
<1>12. ASSUME Start PROVE NetTyped'
  BY <1>12 DEF Start, NetInv
<1>13. ASSUME NEW b \in Modes, SetConfig(b) PROVE NetTyped'
  BY <1>13 DEF SetConfig, NetInv
<1>14. ASSUME Signal PROVE NetTyped'
  BY <1>14 DEF Signal, Close, NetInv
<1>15. ASSUME PoolStopped PROVE NetTyped'
  BY <1>15 DEF PoolStopped, NetInv
<1>16. ASSUME NetStop PROVE NetTyped'
  BY <1>16 DEF NetStop, NetInv
<1>17. ASSUME PoolCleanup PROVE NetTyped'
  BY <1>17 DEF PoolCleanup, Discard, NetInv
<1>18. ASSUME NetCleanup PROVE NetTyped'
  <2>1. NetTyped
    BY DEF NetInv
  <2>2. CASE clients' = <<>> /\ pdata' = "freed" /\ state' = "UNINITIALIZED"
    <3>1. clients' \in Seq(Handles) /\ Len(clients') = 0
      BY <2>2, EmptySeq
    <3> QED
      BY <1>18, <2>1, <2>2, <3>1 DEF NetCleanup
  <2>3. CASE UNCHANGED <<pdata, state, clients>>
    BY <1>18, <2>1, <2>3 DEF NetCleanup
  <2> QED
    BY <1>18, <2>2, <2>3 DEF NetCleanup
<1>19. CASE UNCHANGED netvars
  BY <1>19 DEF netvars, NetInv
<1> QED
  BY <1>1, <1>2, <1>3, <1>4, <1>5, <1>6, <1>7, <1>8, <1>9, <1>10, <1>11, <1>12,
     <1>13, <1>14, <1>15, <1>16, <1>17, <1>18, <1>19 DEF NetNext, ShutdownStep

LEMMA NetInvInit == NetInit => NetInv
<1> SUFFICES ASSUME NetInit PROVE NetInv
  OBVIOUS
<1>1. clients = <<>> /\ clients \in Seq(Handles) /\ Len(clients) = 0 /\ DOMAIN clients = {}
  BY EmptySeq DEF NetInit
<1>2. NetTyped
  BY <1>1, NetBoundAssumption DEF NetInit, TaskInit, NetTyped, NetTypeOK
<1>3. NetLife /\ ClientTable /\ Numbered
  BY <1>1 DEF NetInit, NetLife, ClientTable, Numbered
<1>4. Submitting /\ InPool /\ Unasked
  BY DEF NetInit, TaskInit, Submitting, InPool, Unasked
<1> QED
  BY <1>2, <1>3, <1>4 DEF NetInv

LEMMA NetInvStep == NetInv /\ [NetNext]_netvars => NetInv'
<1> SUFFICES ASSUME NetInv, [NetNext]_netvars PROVE NetInv'
  OBVIOUS
<1> QED
  BY NetTypedStep, NetLifeStep, ClientTableStep, NumberedStep, SubmittingStep, InPoolStep,
     UnaskedStep DEF NetInv

(* The loop thread's callbacks, the workers and the module's life cycle    *)
(* keep the types of the server's state, and add_client never writes past  *)
(* the capacity of the client table.                                       *)
THEOREM NetTypeCorrect == NetSpec => []NetTypeOK
<1>1. NetInv => NetTypeOK
  BY DEF NetInv, NetTyped
<1> QED
  BY <1>1, NetInvInit, NetInvStep, PTL DEF NetSpec

(* add_client, remove_client and on_client_close: the table that stop      *)
(* walks has every open connection once and no freed handle, for every     *)
(* number of connections and handles and whatever fails.                   *)
THEOREM ClientTableCorrect == NetSpec => []ClientTable
<1>1. NetInv => ClientTable
  BY DEF NetInv
<1> QED
  BY <1>1, NetInvInit, NetInvStep, PTL DEF NetSpec

-----------------------------------------------------------------------------
(* What is final about the answer of request q.                            *)
Final(q) ==
    response[q] # "none" =>
        /\ receiver'[q] = receiver[q]
        /\ \/ response'[q] = response[q]
           \/ response[q] = "queued" /\ response'[q] \in {"sent", "dropped"}

LEMMA AnswersFinal ==
    ASSUME NetInv, [NetNext]_netvars, NEW q \in Tasks
    PROVE  Final(q)
<1> USE DEF Final
<1>1. ASSUME NEW h \in Handles, OnNewConnection(h) PROVE Final(q)
  BY <1>1 DEF OnNewConnection
<1>2. ASSUME NEW h \in Handles, OnNewConnectionFails(h) PROVE Final(q)
  BY <1>2 DEF OnNewConnectionFails
<1>3. ASSUME NEW h \in Handles, OnReadError(h) PROVE Final(q)
  BY <1>3 DEF OnReadError
<1>4. ASSUME NEW h \in Handles, OnClientClose(h) PROVE Final(q)
  BY <1>4 DEF OnClientClose
<1>5. ASSUME NEW h \in Handles, NEW r \in Tasks, OnRead(h, r) PROVE Final(q)
  <2>1. response[r] = "none"
    BY ONLY NetInv, <1>5, ReadFacts
  <2>2. q # r => response'[q] = response[q] /\ receiver'[q] = receiver[q]
    <3>1. CASE UNCHANGED answers
      BY <3>1
    <3>2. CASE \E a \in {"queued", "dropped"}, c \in {0, conn[h]} :
                  /\ response' = [response EXCEPT ![r] = a]
                  /\ receiver' = [receiver EXCEPT ![r] = c]
      BY <3>2 DEF NetInv, NetTyped, NetTypeOK
    <3> QED
      BY <1>5, <3>1, <3>2, ReadOutcome
  <2> QED
    BY <2>1, <2>2
<1>6. ASSUME OnNewConnectionNoMemory PROVE Final(q)
  BY <1>6 DEF OnNewConnectionNoMemory
<1>7. ASSUME NEW r \in Tasks, OnWriteComplete(r) PROVE Final(q)
  BY <1>7 DEF OnWriteComplete, NetInv, NetTyped, NetTypeOK
<1>8. ASSUME NEW r \in Tasks, WorkerBegin(r) PROVE Final(q)
  BY <1>8 DEF WorkerBegin, Begin
<1>9. ASSUME NEW r \in Tasks, WorkerFinish(r) PROVE Final(q)
  <2>1. response[r] = "none"
    BY <1>9 DEF WorkerFinish, Finish, NetInv, InPool
  <2>2. PICK a \in {"queued", "dropped"}, c \in {0, conn[request[r].client]} :
              /\ response' = [response EXCEPT ![r] = a]
              /\ receiver' = [receiver EXCEPT ![r] = c]
    BY <1>9, AnswerGiven DEF WorkerFinish
  <2> QED
    BY <2>1, <2>2 DEF NetInv, NetTyped, NetTypeOK
<1>10. ASSUME Submit PROVE Final(q)
  <2>1. lreq \in Tasks /\ response[lreq] = "none"
    BY <1>10 DEF NetInv, Submit, Submitting
  <2>2. CASE UNCHANGED answers
    BY <2>2
  <2>3. CASE Answer(lreq, "dropped", 0)
    BY <2>1, <2>3 DEF Answer, NetInv, NetTyped, NetTypeOK
  <2> QED
    BY <1>10, <2>2, <2>3 DEF Submit
<1>11. ASSUME ModuleInit PROVE Final(q)
  BY <1>11 DEF ModuleInit
<1>12. ASSUME Start PROVE Final(q)
  BY <1>12 DEF Start
<1>13. ASSUME NEW b \in Modes, SetConfig(b) PROVE Final(q)
  BY <1>13 DEF SetConfig
<1>14. ASSUME Signal PROVE Final(q)
  BY <1>14 DEF Signal, Close
<1>15. ASSUME PoolStopped PROVE Final(q)
  BY <1>15 DEF PoolStopped
<1>16. ASSUME NetStop PROVE Final(q)
  BY <1>16 DEF NetStop
<1>17. ASSUME PoolCleanup PROVE Final(q)
  BY <1>17 DEF PoolCleanup, Discard
<1>18. ASSUME NetCleanup PROVE Final(q)
  BY <1>18 DEF NetCleanup
<1>19. CASE UNCHANGED netvars
  BY <1>19 DEF netvars
<1> QED
  BY <1>1, <1>2, <1>3, <1>4, <1>5, <1>6, <1>7, <1>8, <1>9, <1>10, <1>11, <1>12,
     <1>13, <1>14, <1>15, <1>16, <1>17, <1>18, <1>19 DEF NetNext, ShutdownStep

(* handle_response, on_read's failure paths and on_client_close: a request *)
(* is answered at most once, by the loop thread or by one worker, and what *)
(* became of its answer does not change.                                   *)
THEOREM AnswerCorrect == NetSpec => AnswerIsFinal
<1>1. NetInv /\ [NetNext]_netvars =>
        [\A r \in Tasks : response[r] # "none" =>
            /\ receiver'[r] = receiver[r]
            /\ \/ response'[r] = response[r]
               \/ response[r] = "queued" /\ response'[r] \in {"sent", "dropped"}]_netvars
  BY AnswersFinal DEF Final
<1> QED
  BY <1>1, NetInvInit, NetInvStep, PTL DEF NetSpec, AnswerIsFinal

-----------------------------------------------------------------------------
(* The request context keeps the address of a handle that on_client_close  *)
(* may free.  The numbers of the connections tell whose the address is.    *)

(* No two handles serve one connection, a freed handle serves none, and a  *)
(* number that has gone does not come back.                                *)
Connections ==
    /\ \A h \in Handles : conn[h] <= conns /\ (handle[h] = "freed" => conn[h] = 0)
    /\ \A h, k \in Handles : h # k /\ conn[h] = conn[k] => conn[h] = 0

(* A request's handle serves its sender, or the sender has gone.           *)
SenderKnown ==
    \A r \in Tasks : request[r] # NoRequest =>
        /\ request[r].from <= conns
        /\ conn[request[r].client] = request[r].from \/ RequesterGone(r)

GoneInv == Connections /\ SenderKnown /\ OnlyGoneMissed

(* What a step does to the connections.                                    *)
Accepted(h) == conns' = conns + 1 /\ conn' = [conn EXCEPT ![h] = conns + 1] /\ handle'[h] # "freed"
Closed(h) == conns' = conns /\ conn' = [conn EXCEPT ![h] = 0]

(* A connection that has gone stays so, and a request's handle serves its  *)
(* sender until the sender goes.                                           *)
LEMMA GoneForGood ==
    ASSUME NetInv, GoneInv, NEW r \in Tasks, request[r] # NoRequest, request'[r] = request[r],
           \/ UNCHANGED <<conn, conns>>
           \/ \E h \in Handles : Accepted(h) \/ Closed(h)
    PROVE  /\ RequesterGone(r) => RequesterGone(r)'
           /\ request[r].from <= conns'
           /\ conn'[request[r].client] = request[r].from \/ RequesterGone(r)'
<1>1. PICK f, g : f = request[r].from /\ g = request[r].client
  OBVIOUS
<1>2. /\ f \in 1..MaxConns /\ g \in Handles /\ f <= conns
      /\ conn[g] = f \/ RequesterGone(r)
  BY <1>1 DEF NetInv, NetTyped, Contexts, GoneInv, SenderKnown
<1>3. /\ conns \in Nat /\ f \in Nat /\ f # 0 /\ conn \in [Handles -> Nat]
  BY <1>2, NetBoundAssumption DEF NetInv, NetTyped, NetTypeOK
<1>4. \A h, k \in Handles : h # k /\ conn[h] = conn[k] => conn[h] = 0
  BY DEF GoneInv, Connections
<1>5. RequesterGone(r) <=> \A h \in Handles : conn[h] # f
  BY <1>1 DEF RequesterGone
<1>6. RequesterGone(r)' <=> \A h \in Handles : conn'[h] # f
  BY <1>1 DEF RequesterGone
<1>7. SUFFICES /\ (\A h \in Handles : conn[h] # f) => \A h \in Handles : conn'[h] # f
               /\ f <= conns'
               /\ conn'[g] = f \/ \A h \in Handles : conn'[h] # f
  BY ONLY <1>1, <1>5, <1>6, <1>7
<1>8. CASE UNCHANGED <<conn, conns>>
  BY ONLY <1>2, <1>5, <1>8
<1>9. ASSUME NEW h \in Handles, Accepted(h) \/ Closed(h)
      PROVE  /\ (\A k \in Handles : conn[k] # f) => \A k \in Handles : conn'[k] # f
             /\ f <= conns'
             /\ conn'[g] = f \/ \A k \in Handles : conn'[k] # f
  <2>1. /\ conns' \in {conns, conns + 1}
        /\ conn'[h] # f /\ \A k \in Handles : k # h => conn'[k] = conn[k]
    BY ONLY <1>2, <1>3, <1>9 DEF Accepted, Closed
  <2> QED
    BY ONLY <1>2, <1>3, <1>4, <1>5, <2>1
<1> QED
  BY <1>8, <1>9

(* Steps of the loop thread that leave the connections alone and answer    *)
(* nobody.                                                                 *)
LEMMA GoneQuiet ==
    ASSUME NetInv, GoneInv, UNCHANGED <<conn, conns, request, receiver>>,
           \A h \in Handles : handle'[h] = "freed" => handle[h] = "freed",
           "use_after_free" \in faults' => "use_after_free" \in faults
    PROVE  GoneInv'
BY DEF GoneInv, Connections, SenderKnown, OnlyGoneMissed, RequesterGone

(* Accepting and closing.                                                  *)
LEMMA GoneConnections ==
    ASSUME NetInv, GoneInv, NEW h \in Handles, UNCHANGED <<request, receiver, faults>>,
           \/ Accepted(h)
           \/ Closed(h),
           \A k \in Handles \ {h} : handle'[k] = handle[k]
    PROVE  GoneInv'
<1>1. Connections'
  <2>1. /\ conns \in Nat /\ conn \in [Handles -> Nat]
        /\ \A k \in Handles : conn[k] <= conns /\ (handle[k] = "freed" => conn[k] = 0)
        /\ \A j, k \in Handles : j # k /\ conn[j] = conn[k] => conn[j] = 0
    BY NetBoundAssumption DEF NetInv, NetTyped, NetTypeOK, GoneInv, Connections
  <2>2. CASE Accepted(h)
    <3>1. /\ conns' = conns + 1 /\ conn'[h] = conns + 1 /\ handle'[h] # "freed"
          /\ \A k \in Handles \ {h} : conn'[k] = conn[k] /\ handle'[k] = handle[k]
      BY <2>1, <2>2 DEF Accepted
    <3>2. \A k \in Handles : conn'[k] <= conns' /\ (handle'[k] = "freed" => conn'[k] = 0)
      BY ONLY <2>1, <3>1
    <3>3. \A j, k \in Handles : j # k /\ conn'[j] = conn'[k] => conn'[j] = 0
      <4>1. \A k \in Handles \ {h} : conn'[k] \in Nat /\ conn'[k] # conn'[h]
        BY ONLY <2>1, <3>1
      <4> QED
        BY ONLY <2>1, <3>1, <4>1
    <3> QED
      BY <3>2, <3>3 DEF Connections
  <2>3. CASE Closed(h)
    <3>1. /\ conns' = conns /\ conn'[h] = 0
          /\ \A k \in Handles \ {h} : conn'[k] = conn[k] /\ handle'[k] = handle[k]
      BY <2>1, <2>3 DEF Closed
    <3>2. \A k \in Handles : conn'[k] <= conns' /\ (handle'[k] = "freed" => conn'[k] = 0)
      BY ONLY <2>1, <3>1
    <3>3. \A j, k \in Handles : j # k /\ conn'[j] = conn'[k] => conn'[j] = 0
      BY ONLY <2>1, <3>1
    <3> QED
      BY <3>2, <3>3 DEF Connections
  <2> QED
    BY <2>2, <2>3
<1>2. \A r \in Tasks : request[r] # NoRequest =>
        /\ RequesterGone(r) => RequesterGone(r)'
        /\ request[r].from <= conns'
        /\ conn'[request[r].client] = request[r].from \/ RequesterGone(r)'
  BY GoneForGood
<1>3. SenderKnown'
  BY <1>2 DEF SenderKnown
<1>4. OnlyGoneMissed'
  <2>1. \A r \in Tasks : receiver[r] # 0 => request[r] # NoRequest
    BY DEF NetInv, Unasked
  <2> QED
    BY <1>2, <2>1 DEF GoneInv, OnlyGoneMissed
<1> QED
  BY <1>1, <1>3, <1>4 DEF GoneInv

(* handle_response through the handle of the context.                      *)
LEMMA GoneAnswered ==
    ASSUME NetInv, GoneInv, NEW r \in Tasks, WorkerFinish(r)
    PROVE  GoneInv'
<1>1. /\ request[r] # NoRequest /\ HandleResponse(r, request[r].client)
      /\ UNCHANGED <<conn, conns, handle, request>>
  BY DEF WorkerFinish, Finish, NetInv, InPool
<1>2. conn[request[r].client] = request[r].from \/ RequesterGone(r)
  BY <1>1 DEF GoneInv, SenderKnown
<1>3. Connections' /\ SenderKnown' /\ \A q \in Tasks : RequesterGone(q)' = RequesterGone(q)
  BY <1>1 DEF GoneInv, Connections, SenderKnown, RequesterGone
<1>4. PICK a \in {"queued", "dropped"}, c \in {0, conn[request[r].client]} :
            /\ response' = [response EXCEPT ![r] = a]
            /\ receiver' = [receiver EXCEPT ![r] = c]
  BY <1>1, AnswerGiven
<1>5. \A q \in Tasks : receiver'[q] \notin {0, request'[q].from} => RequesterGone(q)'
  <2>1. receiver \in [Tasks -> 0..MaxConns]
    BY DEF NetInv, NetTyped, NetTypeOK
  <2>2. receiver'[r] \in {0, request[r].from} \/ RequesterGone(r)
    BY <1>2, <1>4, <2>1
  <2>3. \A q \in Tasks \ {r} : receiver'[q] = receiver[q]
    BY <1>4, <2>1
  <2> QED
    BY <1>1, <1>3, <2>2, <2>3 DEF GoneInv, OnlyGoneMissed
<1>6. "use_after_free" \in faults' => \E q \in Tasks : request'[q] # NoRequest /\ RequesterGone(q)'
  <2>1. CASE handle[request[r].client] = "freed"
    <3>1. request[r].client \in Handles /\ request[r].from \in 1..MaxConns
      BY <1>1 DEF NetInv, NetTyped, Contexts
    <3>2. conn[request[r].client] = 0 /\ request[r].from # 0
      BY <2>1, <3>1, NetBoundAssumption DEF GoneInv, Connections
    <3> QED
      BY <1>1, <1>2, <1>3, <3>2
  <2>2. CASE handle[request[r].client] # "freed"
    BY <1>1, <1>3, <2>2 DEF HandleResponse, GoneInv, OnlyGoneMissed
  <2> QED
    BY <2>1, <2>2
<1> QED
  BY <1>3, <1>5, <1>6 DEF GoneInv, OnlyGoneMissed

(* on_read takes a request from the connection that its handle serves.     *)
LEMMA GoneRead ==
    ASSUME NetInv, GoneInv, NEW h \in Handles, NEW r \in Tasks, OnRead(h, r)
    PROVE  GoneInv'
<1>1. /\ request'[r].client = h /\ request'[r].from = conn[h] /\ receiver[r] = 0
      /\ \A q \in Tasks : q # r => request'[q] = request[q]
  BY ONLY NetInv, OnRead(h, r), ReadFacts, ZenonT(60)
<1>2. UNCHANGED <<conn, conns, handle, faults>>
  BY DEF OnRead, HandleResponse
<1>3. Connections'
  BY <1>2 DEF GoneInv, Connections
<1>4. SenderKnown'
  BY <1>1, <1>2, <1>3 DEF GoneInv, SenderKnown, Connections, RequesterGone
<1>5. /\ receiver'[r] \in {0, conn[h]}
      /\ \A q \in Tasks : q # r => receiver'[q] = receiver[q]
  <2>1. CASE UNCHANGED answers
    BY <1>1, <2>1
  <2>2. CASE \E a \in {"queued", "dropped"}, c \in {0, conn[h]} :
                /\ response' = [response EXCEPT ![r] = a]
                /\ receiver' = [receiver EXCEPT ![r] = c]
    BY <2>2 DEF NetInv, NetTyped, NetTypeOK
  <2> QED
    BY <2>1, <2>2, ReadOutcome
<1>6. OnlyGoneMissed'
  <2>1. Alive
    BY DEF OnRead
  <2> QED
    BY <1>1, <1>2, <1>5, <2>1 DEF GoneInv, OnlyGoneMissed, RequesterGone
<1> QED
  BY <1>3, <1>4, <1>6 DEF GoneInv

LEMMA GoneStep ==
    ASSUME NetInv, GoneInv, [NetNext]_netvars
    PROVE  GoneInv'
<1>1. ASSUME NEW h \in Handles, OnNewConnection(h) \/ OnNewConnectionFails(h) PROVE GoneInv'
  <2>1. handle \in [Handles -> {"freed", "open", "closing"}]
    BY DEF NetInv, NetTyped, NetTypeOK
  <2>2. /\ Accepted(h) /\ UNCHANGED <<request, receiver, faults>>
        /\ \A k \in Handles \ {h} : handle'[k] = handle[k]
    BY <1>1, <2>1 DEF OnNewConnection, OnNewConnectionFails, Accepted
  <2> QED
    BY <2>2, GoneConnections
<1>2. ASSUME NEW h \in Handles, OnClientClose(h) PROVE GoneInv'
  <2>1. /\ Closed(h) /\ UNCHANGED <<request, receiver, faults>>
        /\ \A k \in Handles \ {h} : handle'[k] = handle[k]
    BY <1>2 DEF OnClientClose, Closed, NetInv, NetTyped, NetTypeOK
  <2> QED
    BY <2>1, GoneConnections
<1>3. ASSUME NEW h \in Handles, NEW r \in Tasks, OnRead(h, r) PROVE GoneInv'
  BY <1>3, GoneRead
<1>4. ASSUME NEW r \in Tasks, WorkerFinish(r) PROVE GoneInv'
  BY <1>4, GoneAnswered
<1>5. CASE Submit
  <2>1. lreq \in Tasks /\ request[lreq] # NoRequest /\ response[lreq] = "none"
    BY <1>5 DEF NetInv, Submit, Submitting
  <2>2. UNCHANGED <<conn, conns, handle, request, faults>>
    BY <1>5 DEF Submit, Answer
  <2>3. receiver[lreq] = 0
    BY <2>1 DEF NetInv, Unasked
  <2>4. UNCHANGED receiver
    <3>1. receiver \in [Tasks -> 0..MaxConns]
      BY DEF NetInv, NetTyped, NetTypeOK
    <3>2. CASE Answer(lreq, "dropped", 0)
      BY <2>1, <2>3, <3>1, <3>2 DEF Answer
    <3> QED
      BY <1>5, <3>2 DEF Submit
  <2> QED
    BY <2>2, <2>4, GoneQuiet
<1>6. ASSUME NEW h \in Handles, OnReadError(h) PROVE GoneInv'
  BY <1>6, GoneQuiet DEF OnReadError, NetInv, NetTyped, NetTypeOK
<1>7. CASE NetStop
  BY <1>7, GoneQuiet DEF NetStop
<1>8. ASSUME \/ OnNewConnectionNoMemory \/ ModuleInit \/ Start \/ Signal
             \/ \E b \in Modes : SetConfig(b)
             \/ \E r \in Tasks : OnWriteComplete(r) \/ WorkerBegin(r)
             \/ PoolStopped \/ PoolCleanup \/ NetCleanup
             \/ UNCHANGED netvars
      PROVE  GoneInv'
  <2>1. UNCHANGED <<conn, conns, handle, request, receiver, faults>>
    BY <1>8 DEF OnNewConnectionNoMemory, ModuleInit, Start, Signal, SetConfig, OnWriteComplete,
                WorkerBegin, PoolStopped, PoolCleanup, NetCleanup, netvars
  <2> QED
    BY <2>1, GoneQuiet
<1> QED
  BY <1>1, <1>2, <1>3, <1>4, <1>5, <1>6, <1>7, <1>8 DEF NetNext, ShutdownStep

(* handle_response through the handle of the context, with clients that    *)
(* leave at any moment and addresses that are reused: a response goes      *)
(* astray, or a freed handle is used, only for a request whose connection  *)
(* has been closed for good; a client that is still connected gets the     *)
(* responses to its own requests.                                          *)
THEOREM OnlyGoneMissedCorrect == NetSpec => []OnlyGoneMissed
<1>1. NetInit => GoneInv
  BY DEF NetInit, GoneInv, Connections, SenderKnown, OnlyGoneMissed
<1>2. NetInv /\ GoneInv /\ [NetNext]_netvars => GoneInv'
  BY GoneStep
<1>3. GoneInv => OnlyGoneMissed
  BY DEF GoneInv
<1> QED
  BY <1>1, <1>2, <1>3, NetInvInit, NetInvStep, PTL DEF NetSpec

(* With enable_threadpool off the loop thread answers inside on_read.      *)
OnLoop ==
    /\ enable_threadpool = FALSE /\ pending = {} /\ running = {} /\ lpc # "submit"
    /\ "use_after_free" \notin faults

LEMMA OnLoopStep ==
    ASSUME Modes = {FALSE}, NetInv, OnLoop, ResponseToRequester, [NetNext]_netvars
    PROVE  OnLoop' /\ ResponseToRequester'
<1> USE DEF OnLoop, ResponseToRequester
<1>1. ASSUME NEW h \in Handles, OnNewConnection(h) PROVE OnLoop' /\ ResponseToRequester'
  BY <1>1 DEF OnNewConnection
<1>2. ASSUME NEW h \in Handles, OnNewConnectionFails(h) PROVE OnLoop' /\ ResponseToRequester'
  BY <1>2 DEF OnNewConnectionFails
<1>3. ASSUME NEW h \in Handles, OnReadError(h) PROVE OnLoop' /\ ResponseToRequester'
  BY <1>3 DEF OnReadError
<1>4. ASSUME NEW h \in Handles, OnClientClose(h) PROVE OnLoop' /\ ResponseToRequester'
  BY <1>4 DEF OnClientClose, RemoveClient
<1>5. ASSUME NEW h \in Handles, NEW r \in Tasks, OnRead(h, r) PROVE OnLoop' /\ ResponseToRequester'
  <2>1. OnLoop'
    BY <1>5 DEF OnRead, HandleResponse
  <2>2. /\ request'[r].from = conn[h] /\ receiver[r] = 0
        /\ \A q \in Tasks : q # r => request'[q] = request[q]
    BY ONLY NetInv, <1>5, ReadFacts, ZenonT(60)
  <2>3. PICK a \in {"queued", "dropped"}, c \in {0, conn[h]} :
              /\ response' = [response EXCEPT ![r] = a]
              /\ receiver' = [receiver EXCEPT ![r] = c]
    BY <1>5, AnswerGiven DEF OnRead
  <2> QED
    BY <2>1, <2>2, <2>3 DEF NetInv, NetTyped, NetTypeOK
<1>6. ASSUME OnNewConnectionNoMemory PROVE OnLoop' /\ ResponseToRequester'
  BY <1>6 DEF OnNewConnectionNoMemory
<1>7. ASSUME NEW r \in Tasks, OnWriteComplete(r) PROVE OnLoop' /\ ResponseToRequester'
  BY <1>7 DEF OnWriteComplete
<1>8. ASSUME NEW r \in Tasks, WorkerBegin(r) PROVE OnLoop' /\ ResponseToRequester'
  BY <1>8 DEF WorkerBegin, Begin
<1>9. ASSUME NEW r \in Tasks, WorkerFinish(r) PROVE OnLoop' /\ ResponseToRequester'
  BY <1>9 DEF WorkerFinish, HandleResponse, Answer, Finish
<1>10. ASSUME Submit PROVE OnLoop' /\ ResponseToRequester'
  BY <1>10 DEF Submit, Accept, CountRequest, Answer
<1>11. ASSUME ModuleInit PROVE OnLoop' /\ ResponseToRequester'
  BY <1>11 DEF ModuleInit
<1>12. ASSUME Start PROVE OnLoop' /\ ResponseToRequester'
  BY <1>12 DEF Start
<1>13. ASSUME NEW b \in Modes, SetConfig(b) PROVE OnLoop' /\ ResponseToRequester'
  BY <1>13 DEF SetConfig
<1>14. ASSUME Signal PROVE OnLoop' /\ ResponseToRequester'
  BY <1>14 DEF Signal, Close
<1>15. ASSUME PoolStopped PROVE OnLoop' /\ ResponseToRequester'
  BY <1>15 DEF PoolStopped
<1>16. ASSUME NetStop PROVE OnLoop' /\ ResponseToRequester'
  BY <1>16 DEF NetStop
<1>17. ASSUME PoolCleanup PROVE OnLoop' /\ ResponseToRequester'
  BY <1>17 DEF PoolCleanup, Discard
<1>18. ASSUME NetCleanup PROVE OnLoop' /\ ResponseToRequester'
  BY <1>18 DEF NetCleanup
<1>19. CASE UNCHANGED netvars
  BY <1>19 DEF netvars
<1> QED
  BY <1>1, <1>2, <1>3, <1>4, <1>5, <1>6, <1>7, <1>8, <1>9, <1>10, <1>11, <1>12,
     <1>13, <1>14, <1>15, <1>16, <1>17, <1>18, <1>19 DEF NetNext, ShutdownStep

(* on_read with the thread pool switched off: even if clients leave at any *)
(* moment, no freed handle is used and every response goes to the          *)
(* connection that sent the request.                                       *)
THEOREM OnLoopSafe ==
    ASSUME Modes = {FALSE}
    PROVE  NetSpec => []("use_after_free" \notin faults /\ ResponseToRequester)
<1>1. NetInit => OnLoop /\ ResponseToRequester
  BY DEF NetInit, TaskInit, OnLoop, ResponseToRequester
<1>2. NetInv /\ OnLoop /\ ResponseToRequester /\ [NetNext]_netvars => OnLoop' /\ ResponseToRequester'
  BY OnLoopStep
<1>3. OnLoop => "use_after_free" \notin faults
  BY DEF OnLoop
<1> QED
  BY <1>1, <1>2, <1>3, NetInvInit, NetInvStep, PTL DEF NetSpec
=============================================================================
