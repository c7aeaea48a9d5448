------------------------------ MODULE IpcStream -----------------------------
(***************************************************************************)
(* Stream connections of the IPC library: the table of connections of      *)
(* src/src/ipc/ipc_unified.c, shared by the threads of a process, and the  *)
(* messages of src/src/ipc/ipc_socket.c, a header with the length and then *)
(* the data, sent in as many pieces as the kernel takes.                   *)
(*                                                                         *)
(* The table is locked call by call.  send_message looks up the file       *)
(* descriptor and writes without the mutex, so that the connection may be  *)
(* closed, or its slot used for another one, at the same time; a call of   *)
(* send may fail in the middle of a message, and the process may end.      *)
(* One process at the other end of each connection receives.  Of the IPC   *)
(* types only sockets are modelled; of the statistics, the connection      *)
(* count.                                                                  *)
(***************************************************************************)
EXTENDS Integers, Sequences, FiniteSets

CONSTANTS
    Threads, NoThread,
    MaxConnections,     \* length of connections[]
    Length,             \* cells of data in a message
    MaxConnects,        \* bound: file descriptors
    MaxSends,           \* bound: messages
    HeaderRange,        \* the values of the header's uint32_t
    CallsMayFail        \* environment: malloc may return NULL and send -1

ASSUME ThreadsAssumption == IsFiniteSet(Threads) /\ NoThread \notin Threads
ASSUME SizesAssumption ==
    /\ MaxConnections \in Nat \ {0} /\ Length \in Nat \ {0}
    /\ MaxConnects \in Nat /\ MaxSends \in Nat /\ CallsMayFail \in BOOLEAN
(* A message of 4 GiB and more, whose size the header cannot hold, is not  *)
(* modelled.                                                               *)
ASSUME HeaderAssumption == HeaderRange \in Nat /\ Length < HeaderRange

Slots == 1..MaxConnections
Fds == 1..MaxConnects
NoFd == 0
Messages == 1..MaxSends
Cells == [msg : Messages, part : 0..Length]      \* part 0 is the header
DataSize == Length % HeaderRange                 \* what the header says
Whole(m) == [i \in 1..Length |-> [msg |-> m, part |-> i]]

VARIABLES
    initialized,
    owner,              \* of the mutex, while it sleeps in a second lock
    path,               \* the server's socket file exists
    is_connected,       \* connections[i].is_connected
    private_data,       \* connections[i].private_data: the descriptor, NoFd when NULL
    connections,        \* stats.connections
    fds,                \* descriptors opened so far; none is ever closed
    ended,              \* the sending process has ended
    pc, slot, fd, msg, total_sent,   \* per thread: send_message
    stream,             \* per descriptor: cells sent and not yet received
    rpc, data,          \* per descriptor: receive_message at the other end
    spinning,           \* per descriptor: its recv returns 0, again and again
    fault,              \* undefined behaviour reached; nothing happens after it
    sends,              \* bound, and the name of the next message
    order,              \* history: messages in the order of their headers
    received,           \* history: data handed out, in order
    overlapped,         \* history: two sends were at work on the descriptor at once
    cut,                \* history: a receive gave up inside a message
    torn                \* history: a send failed inside a message

tab == <<is_connected, private_data, connections, fds>>
send == <<pc, slot, fd, msg, total_sent>>
recv == <<rpc, data, spinning>>
rest == <<ended, fault, sends>>
history == <<order, received, overlapped, cut, torn>>
vars == <<initialized, owner, path, is_connected, private_data, connections, fds, pc, slot, fd,
          msg, total_sent, stream, rpc, data, spinning, ended, fault, sends, order, received,
          overlapped, cut, torn>>

Init ==
    /\ initialized = FALSE /\ owner = NoThread /\ path = FALSE
    /\ is_connected = [s \in Slots |-> FALSE] /\ private_data = [s \in Slots |-> NoFd]
    /\ connections = 0 /\ fds = 0
    /\ pc = [t \in Threads |-> "idle"] /\ slot = [t \in Threads |-> 1]
    /\ fd = [t \in Threads |-> NoFd] /\ msg = [t \in Threads |-> 0]
    /\ total_sent = [t \in Threads |-> 0]
    /\ stream = [f \in Fds |-> <<>>]
    /\ rpc = [f \in Fds |-> "idle"] /\ data = [f \in Fds |-> <<>>]
    /\ spinning = [f \in Fds |-> FALSE]
    /\ ended = FALSE /\ fault = "none" /\ sends = 0
    /\ order = [f \in Fds |-> <<>>] /\ received = [f \in Fds |-> <<>>]
    /\ overlapped = [f \in Fds |-> FALSE] /\ cut = [f \in Fds |-> FALSE]
    /\ torn = [f \in Fds |-> FALSE]

CanLock == owner = NoThread
Idle(t) == pc[t] = "idle"

-----------------------------------------------------------------------------
(* The table of connections.                                               *)

UnifiedInit(t) ==
    /\ Idle(t) /\ ~initialized
    /\ initialized' = TRUE
    /\ is_connected' = [s \in Slots |-> FALSE] /\ private_data' = [s \in Slots |-> NoFd]
    /\ connections' = 0
    /\ UNCHANGED <<owner, path, fds, send, stream, recv, rest, history>>

(* ipc_unified_cleanup calls disconnect, which locks the mutex that        *)
(* cleanup holds; without connections the table is freed.                  *)
UnifiedCleanup(t) ==
    /\ Idle(t) /\ initialized /\ CanLock
    /\ IF \E s \in Slots : is_connected[s]
       THEN /\ owner' = t /\ pc' = [pc EXCEPT ![t] = "stuck"]
            /\ UNCHANGED initialized
       ELSE initialized' = FALSE /\ UNCHANGED <<owner, pc>>
    /\ UNCHANGED <<path, tab, slot, fd, msg, total_sent, stream, recv, rest, history>>

(* ipc_socket_create_server in the other process.                          *)
CreateServer ==
    /\ ~path /\ path' = TRUE
    /\ UNCHANGED <<initialized, owner, tab, send, stream, recv, rest, history>>

FreeSlot == {s \in Slots : ~is_connected[s] /\ \A r \in 1..s-1 : is_connected[r]}

(* The first malloc may fail after the socket was connected, and the       *)
(* descriptor is lost; the second leaves a connection without data.        *)
Connect(t) ==
    /\ Idle(t) /\ initialized /\ CanLock /\ path /\ fds < MaxConnects
    /\ fds' = fds + 1
    /\ \E s \in FreeSlot :
          \/ /\ is_connected' = [is_connected EXCEPT ![s] = TRUE]
             /\ connections' = connections + 1
             /\ \/ private_data' = [private_data EXCEPT ![s] = fds + 1]
                \/ CallsMayFail /\ UNCHANGED private_data
          \/ CallsMayFail /\ UNCHANGED <<is_connected, connections, private_data>>
    /\ UNCHANGED <<initialized, owner, path, send, stream, recv, rest, history>>

(* Mutant: the connection count is left as it is.                          *)
Uncount_Not == connections' = connections

Uncount == connections' = IF connections > 0 THEN connections - 1 ELSE 0

(* ipc_unified_disconnect also removes the server's socket file.           *)
Disconnect(t, s) ==
    /\ Idle(t) /\ initialized /\ CanLock /\ is_connected[s]
    /\ is_connected' = [is_connected EXCEPT ![s] = FALSE]
    /\ private_data' = [private_data EXCEPT ![s] = NoFd]
    /\ Uncount
    /\ path' = FALSE
    /\ UNCHANGED <<initialized, owner, fds, send, stream, recv, rest, history>>

-----------------------------------------------------------------------------
(* ipc_unified_send_message.                                               *)

SendReturns(t) ==
    /\ pc' = [pc EXCEPT ![t] = "idle"] /\ slot' = [slot EXCEPT ![t] = 1]
    /\ fd' = [fd EXCEPT ![t] = NoFd] /\ msg' = [msg EXCEPT ![t] = 0]
    /\ total_sent' = [total_sent EXCEPT ![t] = 0]

SendCall(t, s) ==
    /\ Idle(t) /\ initialized /\ CanLock /\ is_connected[s]
    /\ sends < MaxSends
    /\ sends' = sends + 1
    /\ pc' = [pc EXCEPT ![t] = "resolve"] /\ slot' = [slot EXCEPT ![t] = s]
    /\ msg' = [msg EXCEPT ![t] = sends + 1]
    /\ UNCHANGED <<initialized, owner, path, tab, fd, total_sent, stream, recv, ended, fault,
                   history>>

(* send_message_by_type, without the mutex: private_data is tested, and    *)
(* then read again and followed.                                           *)
SendResolve(t) ==
    /\ pc[t] = "resolve"
    /\ \/ /\ ~initialized /\ fault' = "freed_table"
          /\ UNCHANGED send
       \/ /\ initialized /\ private_data[slot[t]] = NoFd
          /\ SendReturns(t) /\ UNCHANGED fault
       \/ /\ initialized /\ private_data[slot[t]] # NoFd
          /\ fd' = [fd EXCEPT ![t] = private_data[slot[t]]]
          /\ pc' = [pc EXCEPT ![t] = "follow"]
          /\ UNCHANGED <<slot, msg, total_sent, fault>>
    /\ UNCHANGED <<initialized, owner, path, tab, stream, recv, ended, sends, history>>

(* When a disconnect came in between, the pointer is null or to freed      *)
(* memory, or it is the one of the connection that has the slot now.       *)
SendFollow(t) ==
    /\ pc[t] = "follow"
    /\ \/ /\ private_data[slot[t]] # fd[t] \/ ~initialized
          /\ fault' = "freed_data"
          /\ UNCHANGED send
       \/ /\ initialized /\ private_data[slot[t]] # NoFd
          /\ fd' = [fd EXCEPT ![t] = private_data[slot[t]]]
          /\ pc' = [pc EXCEPT ![t] = "header"]
          /\ UNCHANGED <<slot, msg, total_sent, fault>>
    /\ UNCHANGED <<initialized, owner, path, tab, stream, recv, ended, sends, history>>

Sending(f) == {t \in Threads : pc[t] = "body" /\ fd[t] = f}

Write(f, cells) == stream' = [stream EXCEPT ![f] = @ \o cells]

(* The call of send that fails writes nothing; nor is more sent after it.  *)
SendHeader(t) ==
    /\ pc[t] = "header"
    /\ \/ /\ Write(fd[t], <<[msg |-> msg[t], part |-> 0]>>)
          /\ order' = [order EXCEPT ![fd[t]] = Append(@, msg[t])]
          /\ overlapped' = [overlapped EXCEPT ![fd[t]] = @ \/ Sending(fd[t]) # {}]
          /\ pc' = [pc EXCEPT ![t] = "body"]
          /\ UNCHANGED <<slot, fd, msg, total_sent>>
       \/ CallsMayFail /\ SendReturns(t) /\ UNCHANGED <<stream, order, overlapped>>
    /\ UNCHANGED <<initialized, owner, path, tab, recv, rest, received, cut, torn>>

(* Mutant: one call of send is taken to have sent everything.              *)
SentAll_Once(n) == TRUE

SentAll(n) == n = Length

(* One call of send takes some of the cells, or fails: the message is      *)
(* left as it is.                                                          *)
SendBody(t) ==
    /\ pc[t] = "body"
    /\ \/ /\ \E n \in total_sent[t]+1..Length :
                /\ Write(fd[t], SubSeq(Whole(msg[t]), total_sent[t] + 1, n))
                /\ total_sent' = [total_sent EXCEPT ![t] = n]
                /\ pc' = [pc EXCEPT ![t] = IF SentAll(n) THEN "stats" ELSE "body"]
          /\ UNCHANGED <<slot, fd, msg, torn>>
       \/ CallsMayFail /\ SendReturns(t) /\ torn' = [torn EXCEPT ![fd[t]] = TRUE] /\ UNCHANGED stream
    /\ UNCHANGED <<initialized, owner, path, tab, recv, rest, order, received, overlapped, cut>>

(* The statistics are updated under the mutex, if there still is one.      *)
SendStats(t) ==
    /\ pc[t] = "stats"
    /\ \/ ~initialized /\ fault' = "freed_table" /\ UNCHANGED send
       \/ initialized /\ CanLock /\ SendReturns(t) /\ UNCHANGED fault
    /\ UNCHANGED <<initialized, owner, path, tab, stream, recv, ended, sends, history>>

(* The process exits or is killed, which closes its descriptors.           *)
ProcessEnds ==
    /\ ~ended /\ ended' = TRUE
    /\ UNCHANGED <<initialized, owner, path, tab, send, stream, recv, fault, sends, history>>

-----------------------------------------------------------------------------
(* ipc_socket_receive_message at the other end.                            *)

(* The call, up to its header.  A call that times out before there is one, *)
(* or finds the end of the stream, fails and changes nothing.  Data that   *)
(* is taken for a header has some length: nothing more is said.            *)
ReceiveHeader(f) ==
    /\ rpc[f] = "idle" /\ stream[f] # <<>>
    /\ stream' = [stream EXCEPT ![f] = Tail(@)]
    /\ \/ /\ rpc' = [rpc EXCEPT ![f] = IF Head(stream[f]).part = 0 THEN "body" ELSE "garbled"]
          /\ UNCHANGED cut
       \/ CallsMayFail /\ cut' = [cut EXCEPT ![f] = TRUE] /\ UNCHANGED rpc
    /\ UNCHANGED <<initialized, owner, path, tab, send, data, spinning, rest, order, received,
                   overlapped, torn>>

(* Mutant: the data is read up to the end of the stream.                   *)
ReadLimit_Stream(f) == Len(stream[f])

(* At most what is missing is asked for.                                   *)
ReadLimit(f) ==
    IF Len(stream[f]) < DataSize - Len(data[f]) THEN Len(stream[f]) ELSE DataSize - Len(data[f])

(* At the end of the stream recv returns 0, and the loop runs for ever.    *)
ReceiveBody(f) ==
    /\ rpc[f] = "body"
    /\ \/ \E n \in 1..ReadLimit(f) :
             LET d == data[f] \o SubSeq(stream[f], 1, n)
             IN  /\ stream' = [stream EXCEPT ![f] = SubSeq(@, n + 1, Len(@))]
                 /\ UNCHANGED spinning
                 /\ IF Len(d) >= DataSize
                    THEN /\ received' = [received EXCEPT ![f] = Append(@, d)]
                         /\ data' = [data EXCEPT ![f] = <<>>]
                         /\ rpc' = [rpc EXCEPT ![f] = "idle"]
                    ELSE /\ data' = [data EXCEPT ![f] = d]
                         /\ UNCHANGED <<rpc, received>>
       \/ /\ stream[f] = <<>> /\ ended
          /\ spinning' = [spinning EXCEPT ![f] = TRUE]
          /\ UNCHANGED <<stream, rpc, data, received>>
    /\ UNCHANGED <<initialized, owner, path, tab, send, rest, order, overlapped, cut, torn>>

(* recv fails: what was read of the message is thrown away.  A timeout     *)
(* stays on the socket for the calls after the one that set it, so that    *)
(* any recv may time out.                                                  *)
ReceiveTimeout(f) ==
    /\ rpc[f] = "body" /\ stream[f] = <<>> /\ ~ended
    /\ rpc' = [rpc EXCEPT ![f] = "idle"] /\ data' = [data EXCEPT ![f] = <<>>]
    /\ cut' = [cut EXCEPT ![f] = TRUE]
    /\ UNCHANGED <<initialized, owner, path, tab, send, stream, spinning, rest, order,
                   received, overlapped, torn>>

-----------------------------------------------------------------------------
SendStep(t) ==
    /\ fault = "none" /\ ~ended
    /\ SendResolve(t) \/ SendFollow(t) \/ SendHeader(t) \/ SendBody(t) \/ SendStats(t)
ReceiveStep(f) == fault = "none" /\ ReceiveBody(f)

Call ==
    \/ ProcessEnds
    \/ \E t \in Threads :
          \/ UnifiedInit(t) \/ UnifiedCleanup(t) \/ Connect(t)
          \/ \E s \in Slots : Disconnect(t, s) \/ SendCall(t, s)

PeerCall ==
    \/ CreateServer
    \/ \E f \in Fds : ReceiveHeader(f) \/ ReceiveTimeout(f)

Next ==
    \/ fault = "none" /\ ~ended /\ Call
    \/ fault = "none" /\ PeerCall
    \/ \E t \in Threads : SendStep(t)
    \/ \E f \in Fds : ReceiveStep(f)

Spec == Init /\ [][Next]_vars

(* A thread inside send_message goes on while the process lives, and so    *)
(* does a receiver of data with some, or the end of the stream, before it. *)
FairSpec == Spec /\ \A t \in Threads : WF_vars(SendStep(t))
                 /\ \A f \in Fds : WF_vars(ReceiveStep(f))

-----------------------------------------------------------------------------
(* Properties.                                                             *)

(* Types.                                                                  *)
TypeOK ==
    /\ initialized \in BOOLEAN /\ owner \in Threads \cup {NoThread} /\ path \in BOOLEAN
    /\ is_connected \in [Slots -> BOOLEAN] /\ private_data \in [Slots -> Fds \cup {NoFd}]
    /\ connections \in Nat /\ fds \in 0..MaxConnects
    /\ pc \in [Threads -> {"idle", "resolve", "follow", "header", "body", "stats", "stuck"}]
    /\ slot \in [Threads -> Slots] /\ fd \in [Threads -> Fds \cup {NoFd}]
    /\ msg \in [Threads -> 0..MaxSends] /\ total_sent \in [Threads -> 0..Length]
    /\ stream \in [Fds -> Seq(Cells)] /\ data \in [Fds -> Seq(Cells)]
    /\ rpc \in [Fds -> {"idle", "body", "garbled"}] /\ spinning \in [Fds -> BOOLEAN]
    /\ ended \in BOOLEAN /\ fault \in {"none", "freed_table", "freed_data"}
    /\ sends \in 0..MaxSends
    /\ overlapped \in [Fds -> BOOLEAN] /\ cut \in [Fds -> BOOLEAN]
    /\ torn \in [Fds -> BOOLEAN]

(* Nothing has disturbed the stream of the connection: no two sends were   *)
(* at work on it at once, no receive gave up and no send failed inside a   *)
(* message.                                                                *)
Undisturbed(f) == ~overlapped[f] /\ ~cut[f] /\ ~torn[f]

(* ipc_socket_send_message and _receive_message: on an undisturbed stream  *)
(* the messages arrive whole, once and in order, also when headers could   *)
(* not be sent, the connection was closed and its slot used for another    *)
(* one in the middle of a send, or the sending process has ended.          *)
StreamIntact ==
    \A f \in Fds :
        Undisturbed(f) =>
            /\ rpc[f] # "garbled"
            /\ Len(received[f]) <= Len(order[f])
            /\ \A i \in DOMAIN received[f] : received[f][i] = Whole(order[f][i])

(* The connection count is the number of slots in use, and only a slot in  *)
(* use has a descriptor; no two slots have the same one.                   *)
TableExact ==
    /\ initialized => connections = Cardinality({s \in Slots : is_connected[s]})
    /\ \A s \in Slots : private_data[s] # NoFd => is_connected[s]
    /\ \A r, s \in Slots : private_data[r] = private_data[s] /\ r # s => private_data[r] = NoFd

(* ipc_socket_receive_message: a receiver that has seen a header gets the  *)
(* whole message, although the sender's connection may be closed in the    *)
(* middle of it, unless the stream is disturbed or the sending process     *)
(* ends.                                                                   *)
MessageCompletes ==
    \A f \in Fds : (rpc[f] = "body" /\ Undisturbed(f))
                      ~> (rpc[f] = "idle" \/ ~Undisturbed(f) \/ ended \/ fault # "none")
=============================================================================
