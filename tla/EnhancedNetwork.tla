-------------------------- MODULE EnhancedNetwork ---------------------------
(***************************************************************************)
(* The TCP server of src/src/net/enhanced_network_module.c on top of the   *)
(* worker pool.  The libuv loop thread accepts connections, reads requests *)
(* and hands them to the pool; a worker answers through the client handle  *)
(* that the request carries.  The pool is TaskPool, which ThreadPool       *)
(* implements, with its queue limit and its number of workers added.       *)
(*                                                                         *)
(* A loop callback is one step, except that on_read may block inside       *)
(* threadpool_submit_work.  The memory of a handle that on_client_close    *)
(* frees may be given to a later connection.  A signal makes the loop      *)
(* thread leave the loop for good: it shuts the modules down and exits.    *)
(***************************************************************************)
EXTENDS Integers, Sequences, FiniteSets, TaskPool

CONSTANTS
    Handles,           \* addresses of uv_tcp_t that malloc returns
    InitialCapacity,   \* INITIAL_CLIENT_CAPACITY
    WorkerCount, MaxQueueSize,   \* of the thread pool
    Modes,             \* values of config.enable_threadpool
    MaxConns,          \* bound: connections ever accepted
    ClientsMayLeave,   \* environment: a read may end in EOF or an error
    NetCallsMayFail    \* environment: malloc, realloc, bind or listen may fail

ASSUME HandlesAssumption == IsFiniteSet(Handles) /\ IsFiniteSet(Tasks)
ASSUME NetBoundAssumption ==
    /\ InitialCapacity \in Nat \ {0} /\ WorkerCount \in Nat \ {0} /\ MaxQueueSize \in Nat \ {0}
    /\ MaxConns \in Nat
ASSUME NetSwitchAssumption ==
    Modes \subseteq BOOLEAN /\ ClientsMayLeave \in BOOLEAN /\ NetCallsMayFail \in BOOLEAN

VARIABLES
    pdata,             \* self->private_data: "null", "live", "freed"
    state,             \* module->state
    enable_threadpool,
    server,            \* "none", "listening", "stalled", "closing"
    handle,            \* per address: "freed", "open", "closing"
    conn,              \* per address: the number of the connection it serves
    conns,             \* connections so far
    clients, client_capacity,
    total_requests, active_requests,
    lpc, lreq,         \* the loop thread, and the request it is submitting
    request,           \* per request: the context's client, and its connection
    response,          \* per request: "none", "queued", "sent", "dropped"
    receiver,          \* per request: the connection its response was written to
    faults             \* history: undefined behaviour met

table == <<clients, client_capacity>>
socket == <<handle, conn, conns>>
counts == <<total_requests, active_requests>>
answers == <<response, receiver, faults>>
tasks == <<open, pending, running, finished>>
netvars == <<open, pending, running, finished, pdata, state, enable_threadpool, server, handle,
          conn, conns, clients, client_capacity, total_requests, active_requests, lpc, lreq,
          request, response, receiver, faults>>

NoRequest == [client |-> "null", from |-> 0]
None == "none"

NetInit ==
    /\ TaskInit
    /\ pdata = "null" /\ state = "UNINITIALIZED" /\ server = "none"
    /\ enable_threadpool \in Modes
    /\ handle = [h \in Handles |-> "freed"] /\ conn = [h \in Handles |-> 0] /\ conns = 0
    /\ clients = <<>> /\ client_capacity = 0
    /\ total_requests = 0 /\ active_requests = 0
    /\ lpc = "idle" /\ lreq = None
    /\ request = [r \in Tasks |-> NoRequest]
    /\ response = [r \in Tasks |-> "none"] /\ receiver = [r \in Tasks |-> 0]
    /\ faults = {}

Alive == faults = {}
LoopIdle == Alive /\ lpc = "idle"

-----------------------------------------------------------------------------
(* Connections.                                                            *)

InTable(h) == \E n \in DOMAIN clients : clients[n] = h

TableFull == Len(clients) >= client_capacity

(* on_new_connection: accepted, added to the client table and read from.   *)
OnNewConnection(h) ==
    /\ LoopIdle /\ server = "listening" /\ handle[h] = "freed" /\ conns < MaxConns
    /\ conns' = conns + 1
    /\ conn' = [conn EXCEPT ![h] = conns + 1]
    /\ handle' = [handle EXCEPT ![h] = "open"]
    /\ clients' = Append(clients, h)
    /\ client_capacity' = IF TableFull THEN 2 * client_capacity ELSE client_capacity
    /\ UNCHANGED <<tasks, pdata, state, enable_threadpool, server, counts, lpc, lreq, request,
                   answers>>

(* uv_accept or add_client fails: the handle is closed at once.            *)
OnNewConnectionFails(h) ==
    /\ LoopIdle /\ server = "listening" /\ handle[h] = "freed" /\ conns < MaxConns
    /\ NetCallsMayFail
    /\ conns' = conns + 1
    /\ conn' = [conn EXCEPT ![h] = conns + 1]
    /\ handle' = [handle EXCEPT ![h] = "closing"]
    /\ UNCHANGED <<tasks, pdata, state, enable_threadpool, server, table, counts, lpc, lreq,
                   request, answers>>

(* No memory for the handle: uv_accept is not called, and libuv polls the  *)
(* listening socket again only after uv_accept.                            *)
OnNewConnectionNoMemory ==
    /\ LoopIdle /\ server = "listening" /\ NetCallsMayFail
    /\ server' = "stalled"
    /\ UNCHANGED <<tasks, pdata, state, enable_threadpool, socket, table, counts, lpc, lreq,
                   request, answers>>

(* on_read with EOF or an error.                                           *)
OnReadError(h) ==
    /\ LoopIdle /\ handle[h] = "open" /\ ClientsMayLeave
    /\ handle' = [handle EXCEPT ![h] = "closing"]
    /\ UNCHANGED <<tasks, pdata, state, enable_threadpool, server, conn, conns, table, counts,
                   lpc, lreq, request, answers>>

(* Mutant: client_count is decremented and nothing is moved.               *)
RemoveClient_NoShift(h) ==
    clients' = IF InTable(h)
               THEN SubSeq(clients, 1, Len(clients) - 1) ELSE clients

(* remove_client: the first entry of the client goes, the later ones move  *)
(* up; a client that was never added is not found.                         *)
RemoveClient(h) ==
    \/ \E n \in DOMAIN clients :
          /\ clients[n] = h /\ \A m \in 1..(n - 1) : clients[m] # h
          /\ clients' = [k \in 1..(Len(clients) - 1) |->
                            IF k < n THEN clients[k] ELSE clients[k + 1]]
    \/ ~InTable(h) /\ UNCHANGED clients

(* libuv first completes the writes that are queued on the handle.         *)
OnClientClose(h) ==
    /\ LoopIdle /\ handle[h] = "closing"
    /\ RemoveClient(h)
    /\ handle' = [handle EXCEPT ![h] = "freed"]
    /\ conn' = [conn EXCEPT ![h] = 0]
    /\ response' = [r \in Tasks |->
          IF response[r] = "queued" /\ request[r].client = h THEN "dropped" ELSE response[r]]
    /\ UNCHANGED <<tasks, pdata, state, enable_threadpool, server, conns, client_capacity, counts,
                   lpc, lreq, request, receiver, faults>>

-----------------------------------------------------------------------------
(* Requests.                                                               *)

Answer(r, a, c) ==
    /\ response' = [response EXCEPT ![r] = a]
    /\ receiver' = [receiver EXCEPT ![r] = c]

(* handle_response: uv_write refuses a handle that is being closed.        *)
HandleResponse(r, h) ==
    \/ /\ handle[h] = "open" /\ Answer(r, "queued", conn[h])
       /\ UNCHANGED faults
    \/ /\ handle[h] = "closing" \/ (NetCallsMayFail /\ handle[h] = "open")
       /\ Answer(r, "dropped", 0)
       /\ UNCHANGED faults
    \/ /\ handle[h] = "freed" /\ Answer(r, "dropped", 0)
       /\ faults' = faults \cup {"use_after_free"}

OnWriteComplete(r) ==
    /\ LoopIdle /\ response[r] = "queued" /\ handle[request[r].client] = "open"
    /\ response' = [response EXCEPT ![r] = "sent"]
    /\ UNCHANGED <<tasks, pdata, state, enable_threadpool, server, socket, table, counts, lpc,
                   lreq, request, receiver, faults>>

(* on_read with data: a context for the pool, or an answer at once.        *)
OnRead(h, r) ==
    /\ LoopIdle /\ handle[h] = "open" /\ request[r] = NoRequest
    /\ request' = [request EXCEPT ![r] = [client |-> h, from |-> conn[h]]]
    /\ \/ /\ enable_threadpool
          /\ lpc' = "submit" /\ lreq' = r
          /\ UNCHANGED answers
       \/ /\ enable_threadpool /\ NetCallsMayFail     \* no memory for the context
          /\ Answer(r, "dropped", 0)
          /\ UNCHANGED <<lpc, lreq, faults>>
       \/ /\ ~enable_threadpool
          /\ HandleResponse(r, h)
          /\ UNCHANGED <<lpc, lreq>>
    /\ UNCHANGED <<tasks, pdata, state, enable_threadpool, server, socket, table, counts>>

(* Mutant: the queue keeps one slot free.                                  *)
PoolHasRoom_OffByOne == Cardinality(pending) + 1 < MaxQueueSize

(* threadpool_submit_work blocks the loop thread while the queue is full.  *)
PoolHasRoom == Cardinality(pending) < MaxQueueSize

(* active_requests only ever grows.                                        *)
CountRequest(ok) ==
    /\ total_requests' = IF ok THEN total_requests + 1 ELSE total_requests
    /\ active_requests' = IF ok THEN active_requests + 1 ELSE active_requests

Submit ==
    /\ Alive /\ lpc = "submit" /\ PoolHasRoom
    /\ lpc' = "idle" /\ lreq' = None
    /\ \/ /\ Accept(lreq) /\ CountRequest(TRUE)
          /\ UNCHANGED answers
       \/ /\ NetCallsMayFail /\ CountRequest(FALSE)   \* -1: the context is freed
          /\ Answer(lreq, "dropped", 0)
          /\ UNCHANGED <<tasks, faults>>
    /\ UNCHANGED <<pdata, state, enable_threadpool, server, socket, table, request>>

(* process_request_in_threadpool, on a worker thread.                      *)
WorkerBegin(r) ==
    /\ Alive /\ Cardinality(running) < WorkerCount
    /\ Begin(r)
    /\ UNCHANGED <<pdata, state, enable_threadpool, server, socket, table, counts, lpc, lreq,
                   request, answers>>

(* Mutant: the response callback is not called.                            *)
WorkerFinish_NoCallback(r) ==
    /\ Alive
    /\ Finish(r)
    /\ UNCHANGED <<pdata, state, enable_threadpool, server, socket, table, counts, lpc, lreq,
                   request, answers>>

WorkerFinish(r) ==
    /\ Alive
    /\ Finish(r)
    /\ HandleResponse(r, request[r].client)
    /\ UNCHANGED <<pdata, state, enable_threadpool, server, socket, table, counts, lpc, lreq,
                   request>>

-----------------------------------------------------------------------------
(* The module life cycle.                                                  *)

ModuleInit ==
    /\ LoopIdle /\ pdata = "null" /\ state = "UNINITIALIZED"
    /\ \/ /\ pdata' = "live" /\ state' = "INITIALIZED" /\ client_capacity' = InitialCapacity
       \/ /\ NetCallsMayFail /\ pdata' = pdata /\ state' = "ERROR" /\ UNCHANGED client_capacity
    /\ UNCHANGED <<tasks, enable_threadpool, server, socket, clients, counts, lpc, lreq, request,
                   answers>>

Start ==
    /\ LoopIdle /\ state = "INITIALIZED"
    /\ \/ state' = "STARTED" /\ server' = "listening"
       \/ NetCallsMayFail /\ state' = "ERROR" /\ UNCHANGED server
    /\ UNCHANGED <<tasks, pdata, enable_threadpool, socket, table, counts, lpc, lreq, request,
                   answers>>

SetConfig(b) ==
    /\ LoopIdle /\ pdata = "live"
    /\ enable_threadpool' = b
    /\ UNCHANGED <<tasks, pdata, state, server, socket, table, counts, lpc, lreq, request, answers>>

(* A signal: cleanup_and_exit stops the thread pool first.                 *)
Signal ==
    /\ LoopIdle /\ state \in {"STARTED", "ERROR"}
    /\ lpc' = "pool_stop"
    /\ Close
    /\ UNCHANGED <<pdata, state, enable_threadpool, server, socket, table, counts, lreq, request,
                   answers>>

(* Mutant: the queue is drained before the workers are joined.             *)
WorkersDone_Drained == running = {} /\ pending = {}

(* uv_thread_join returns when the running requests are done.              *)
WorkersDone == running = {}

PoolStopped ==
    /\ Alive /\ lpc = "pool_stop" /\ WorkersDone
    /\ lpc' = "net_stop"
    /\ UNCHANGED <<tasks, pdata, state, enable_threadpool, server, socket, table, counts, lreq,
                   request, answers>>

(* uv_close on every client in the table, also on one that is closing.     *)
NetStop ==
    /\ Alive /\ lpc = "net_stop"
    /\ lpc' = "pool_cleanup"
    /\ \/ /\ state = "STARTED"
          /\ state' = "STOPPED" /\ server' = "closing"
          /\ handle' = [h \in Handles |-> IF InTable(h) THEN "closing" ELSE handle[h]]
          /\ faults' = IF \E h \in Handles : InTable(h) /\ handle[h] = "closing"
                       THEN faults \cup {"double_close"} ELSE faults
       \/ /\ state # "STARTED"
          /\ UNCHANGED <<state, server, handle, faults>>
    /\ UNCHANGED <<tasks, pdata, enable_threadpool, conn, conns, table, counts, lreq, request,
                   response, receiver>>

(* threadpool_module_cleanup throws away what is still queued.             *)
PoolCleanup ==
    /\ Alive /\ lpc = "pool_cleanup"
    /\ lpc' = "net_cleanup"
    /\ Discard
    /\ UNCHANGED <<pdata, state, enable_threadpool, server, socket, table, counts, lreq, request,
                   answers>>

NetCleanup ==
    /\ Alive /\ lpc = "net_cleanup"
    /\ lpc' = "exited"
    /\ \/ pdata = "live" /\ pdata' = "freed" /\ state' = "UNINITIALIZED" /\ clients' = <<>>
       \/ pdata # "live" /\ UNCHANGED <<pdata, state, clients>>
    /\ UNCHANGED <<tasks, enable_threadpool, server, socket, client_capacity, counts, lreq,
                   request, answers>>

-----------------------------------------------------------------------------
ShutdownStep == PoolStopped \/ NetStop \/ PoolCleanup \/ NetCleanup

NetNext ==
    \/ \E h \in Handles :
          \/ OnNewConnection(h) \/ OnNewConnectionFails(h) \/ OnReadError(h) \/ OnClientClose(h)
          \/ \E r \in Tasks : OnRead(h, r)
    \/ OnNewConnectionNoMemory
    \/ \E r \in Tasks : OnWriteComplete(r) \/ WorkerBegin(r) \/ WorkerFinish(r)
    \/ Submit
    \/ ModuleInit \/ Start \/ (\E b \in Modes : SetConfig(b))
    \/ Signal \/ ShutdownStep

NetSpec == NetInit /\ [][NetNext]_netvars

(* Workers run, libuv calls back for writes that can be completed, and the *)
(* loop thread goes on when nothing holds it up.  No client has to connect *)
(* or send anything, and no signal has to come.                            *)
NetFairness ==
    /\ \A r \in Tasks :
          /\ WF_netvars(WorkerBegin(r)) /\ WF_netvars(WorkerFinish(r))
          /\ WF_netvars(OnWriteComplete(r))
    /\ WF_netvars(Submit) /\ WF_netvars(ShutdownStep)

NetFairSpec == NetSpec /\ NetFairness

-----------------------------------------------------------------------------
(* Properties.                                                             *)

(* Types, and the client table is never written past its capacity.         *)
NetTypeOK ==
    /\ pdata \in {"null", "live", "freed"}
    /\ state \in {"UNINITIALIZED", "INITIALIZED", "STARTED", "STOPPED", "ERROR"}
    /\ server \in {"none", "listening", "stalled", "closing"}
    /\ enable_threadpool \in Modes /\ open \in BOOLEAN
    /\ handle \in [Handles -> {"freed", "open", "closing"}]
    /\ conn \in [Handles -> 0..MaxConns] /\ conns \in 0..MaxConns
    /\ clients \in Seq(Handles) /\ client_capacity \in Nat /\ Len(clients) <= client_capacity
    /\ total_requests \in Nat /\ active_requests \in Nat
    /\ lpc \in {"idle", "submit", "pool_stop", "net_stop", "pool_cleanup", "net_cleanup", "exited"}
    /\ lreq \in Tasks \cup {None}
    /\ response \in [Tasks -> {"none", "queued", "sent", "dropped"}]
    /\ receiver \in [Tasks -> 0..MaxConns]
    /\ faults \subseteq {"use_after_free", "double_close"}

(* The client table that stop walks holds every open connection once and   *)
(* no handle that on_client_close has freed, whatever the order in which   *)
(* connections come, go and fail.                                          *)
ClientTable ==
    pdata = "live" =>
        /\ \A j, k \in DOMAIN clients : j # k => clients[j] # clients[k]
        /\ \A n \in DOMAIN clients : handle[clients[n]] # "freed"
        /\ \A h \in Handles : handle[h] = "open" => InTable(h)

ClientHere(r) ==
    /\ request[r] # NoRequest
    /\ handle[request[r].client] = "open" /\ conn[request[r].client] = request[r].from

(* A request that the pool has taken is answered, or uv_write has refused  *)
(* its answer for want of memory, unless its client has gone, a freed      *)
(* handle has been used or the server is shut down.                        *)
RequestAnswered ==
    \A r \in Tasks :
        (r \in pending) ~> \/ response[r] = "sent" \/ (NetCallsMayFail /\ response[r] = "dropped")
                           \/ ~ClientHere(r) \/ ~Alive \/ ~open

(* The loop thread does not stay blocked in threadpool_submit_work.        *)
LoopUnblocks == (lpc = "submit") ~> (lpc # "submit" \/ ~Alive)

(* Once cleanup_and_exit has come to the thread pool, the pool and the     *)
(* server are shut down to the end, also with requests queued and running. *)
(* The modules that are stopped before the pool, the logger among them,    *)
(* are not part of this.                                                   *)
ShutdownEnds == (lpc = "pool_stop") ~> (lpc = "exited" \/ ~Alive)

(* A request is answered at most once, and what became of its answer is    *)
(* final, although the loop thread, the pool's failure path and a worker   *)
(* all answer.  StreamServerProofs proves it; no run checks it.            *)
AnswerIsFinal ==
    [][\A r \in Tasks : response[r] # "none" =>
          /\ receiver'[r] = receiver[r]
          /\ \/ response'[r] = response[r]
             \/ response[r] = "queued" /\ response'[r] \in {"sent", "dropped"}]_netvars

(* A response goes to the connection that sent the request.  This does not *)
(* hold when a freed handle's memory serves the next connection, so no run *)
(* checks it; StreamServerProofs proves it of servers that answer on the   *)
(* loop thread.                                                            *)
ResponseToRequester ==
    \A r \in Tasks : receiver[r] # 0 => receiver[r] = request[r].from

(* on_client_close has run for the connection that sent the request.       *)
RequesterGone(r) == \A h \in Handles : conn[h] # request[r].from

(* What the handle in a context costs at worst: a response goes to another *)
(* connection, and a freed handle is used, only for a request whose sender *)
(* has gone for good.  A client that is still connected is never passed    *)
(* over, whoever else comes and goes on reused memory.  StreamServerProofs *)
(* proves it; no run checks it.                                            *)
OnlyGoneMissed ==
    /\ \A r \in Tasks : receiver[r] \notin {0, request[r].from} => RequesterGone(r)
    /\ "use_after_free" \in faults =>
          \E r \in Tasks : request[r] # NoRequest /\ RequesterGone(r)
=============================================================================
