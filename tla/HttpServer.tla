----------------------------- MODULE HttpServer -----------------------------
(***************************************************************************)
(* The HTTP server of src/src/http/http_module.c: connections and their    *)
(* read buffers on the loop thread, and a table of routes that other       *)
(* threads change under routes_mutex.                                      *)
(*                                                                         *)
(* TCP delivers a client's bytes in pieces of any size.  A request is      *)
(* three cells: the request line up to some place inside it, the rest of   *)
(* the line with its end, and the headers.  A buffer is what was received  *)
(* since it was last reset.  The parser does not stop at read_buffer_used: *)
(* behind it lie the bytes of older requests, or what malloc left there,   *)
(* so a line that has not arrived as a whole may be read as any other one. *)
(* Left out: headers, bodies and the text of responses, a buffer that      *)
(* could not be allocated with its client, failing strdup in the parser.   *)
(***************************************************************************)
EXTENDS Integers, Sequences, FiniteSets

CONSTANTS
    Clients, None,     \* connections; each of them is made once
    MaxRequests,       \* bound: requests per connection
    MaxSent,           \* bound: requests on all connections
    Paths, Asks,       \* method and path of a route; what the n-th request asks for
    BufferSize,        \* cells of a new read_buffer
    MaxRoutes,         \* bound: calls of http_add_route
    CallsMayFail       \* environment: malloc, realloc, uv_accept, uv_tcp_bind may fail

ASSUME ClientsAssumption == IsFiniteSet(Clients) /\ None \notin Clients
ASSUME SizesAssumption ==
    /\ MaxRequests \in Nat /\ MaxSent \in Nat /\ MaxRoutes \in Nat
    /\ BufferSize \in Nat \ {0}
    /\ Asks \in [1..MaxRequests -> Paths]
    /\ CallsMayFail \in BOOLEAN

Requests == 1..MaxRequests
Garbled == 0                       \* not the request line of one request
NoRoute == 0
Cells == [req : Requests, part : 1..3]
Request(n) == <<[req |-> n, part |-> 1], [req |-> n, part |-> 2], [req |-> n, part |-> 3]>>

VARIABLES
    state,             \* module->state; "GONE": the module has no data any more
    server,            \* "none", "listening", "stalled" (accept not called), "closed"
    conn,              \* per client: "none", "open", "closing", "freed"
    wire,              \* per client: cells on their way to the server
    sent,              \* per client: requests sent
    buffer, size,      \* per client: read_buffer up to read_buffer_used, _size
    client_pool, active_clients,
    routes,            \* list of [id, path], the newest first
    lclient, lreq, lroute,  \* loop thread: a request between lookup and handler
    answers,           \* per client: [req, route] of the responses, in order
    added,             \* history: path of every route that was added
    clean,             \* history: each read of the client brought one whole request,
                       \* and no memory was missing for its answer
    fault

net == <<wire, sent, buffer, size>>
pool == <<client_pool, active_clients>>
loop == <<lclient, lreq, lroute>>
vars == <<state, server, conn, wire, sent, buffer, size, client_pool, active_clients,
          routes, lclient, lreq, lroute, answers, added, clean, fault>>

Init ==
    /\ state = "UNINITIALIZED" /\ server = "none"
    /\ conn = [c \in Clients |-> "none"] /\ wire = [c \in Clients |-> <<>>]
    /\ sent = [c \in Clients |-> 0] /\ buffer = [c \in Clients |-> <<>>]
    /\ size = [c \in Clients |-> BufferSize]
    /\ client_pool = <<>> /\ active_clients = 0
    /\ routes = <<>> /\ lclient = None /\ lreq = Garbled /\ lroute = NoRoute
    /\ answers = [c \in Clients |-> <<>>] /\ added = <<>>
    /\ clean = [c \in Clients |-> TRUE] /\ fault = "none"

Alive == fault = "none"
LoopIdle == Alive /\ lclient = None /\ state = "STARTED"

Faults(f) ==
    /\ fault' = f
    /\ UNCHANGED <<state, server, conn, net, pool, routes, loop, answers, added, clean>>

-----------------------------------------------------------------------------
(* Life cycle.  stop closes the listening socket only; the loop does not   *)
(* run any more between stop and the end of the program.  Shutdown cleans  *)
(* up every module that was initialized, started or not.                   *)

ModuleInit ==
    /\ Alive /\ state = "UNINITIALIZED"
    /\ state' \in {"INITIALIZED"} \cup (IF CallsMayFail THEN {"GONE"} ELSE {})
    /\ UNCHANGED <<server, conn, net, pool, routes, loop, answers, added, clean, fault>>

Start ==
    /\ Alive /\ state = "INITIALIZED"
    /\ \/ state' = "STARTED" /\ server' = "listening"
       \/ CallsMayFail /\ state' = "ERROR" /\ server' = server
    /\ UNCHANGED <<conn, net, pool, routes, loop, answers, added, clean, fault>>

Stop ==
    /\ LoopIdle
    /\ state' = "STOPPED" /\ server' = "closed"
    /\ UNCHANGED <<conn, net, pool, routes, loop, answers, added, clean, fault>>

Cleanup ==
    /\ Alive /\ state \in {"INITIALIZED", "STOPPED", "ERROR"}
    /\ state' = "GONE" /\ routes' = <<>>
    /\ UNCHANGED <<server, conn, net, pool, loop, answers, added, clean, fault>>

-----------------------------------------------------------------------------
(* The clients and the network.                                            *)

SendRequest(c) ==
    /\ Alive /\ conn[c] = "open" /\ sent[c] < MaxRequests
    /\ Cardinality({x \in Clients \X Requests : x[2] <= sent[x[1]]}) < MaxSent
    /\ sent' = [sent EXCEPT ![c] = @ + 1]
    /\ wire' = [wire EXCEPT ![c] = @ \o Request(sent[c] + 1)]
    /\ UNCHANGED <<state, server, conn, buffer, size, pool, routes, loop, answers, added,
                   clean, fault>>

-----------------------------------------------------------------------------
(* Connections.                                                            *)

OnNewConnection(c) ==
    /\ LoopIdle /\ server = "listening" /\ conn[c] = "none"
    /\ conn' = [conn EXCEPT ![c] = "open"]
    /\ client_pool' = <<c>> \o client_pool
    /\ active_clients' = active_clients + 1
    /\ UNCHANGED <<state, server, net, routes, loop, answers, added, clean, fault>>

(* Without memory uv_accept is not called, and libuv does not poll the     *)
(* socket again; when uv_accept fails the handle is freed without being    *)
(* closed, while the loop still knows it.                                  *)
OnNewConnectionFails ==
    /\ CallsMayFail /\ LoopIdle /\ server = "listening"
    /\ \/ /\ server' = "stalled"
          /\ UNCHANGED <<state, conn, net, pool, routes, loop, answers, added, clean, fault>>
       \/ Faults("freed_handle")

StartClose(c) == conn' = [conn EXCEPT ![c] = "closing"]

(* on_client_read with an error or the end of the stream.                  *)
OnReadError(c) ==
    /\ LoopIdle /\ conn[c] = "open"
    /\ StartClose(c)
    /\ UNCHANGED <<state, server, net, pool, routes, loop, answers, added, clean, fault>>

(* Mutant: only the head of the list is compared.                          *)
Unlink_HeadOnly(c) ==
    client_pool' = IF Head(client_pool) = c THEN Tail(client_pool) ELSE client_pool

(* The list is walked to the client, and it is unlinked where it stands.   *)
Unlink(c) ==
    LET found == {i \in DOMAIN client_pool : client_pool[i] = c}
        k == CHOOSE i \in found : \A j \in found : i <= j
    IN  client_pool' = IF found = {} THEN client_pool
                       ELSE SubSeq(client_pool, 1, k - 1)
                            \o SubSeq(client_pool, k + 1, Len(client_pool))

OnClientClose(c) ==
    /\ LoopIdle /\ conn[c] = "closing"
    /\ Unlink(c)
    /\ active_clients' = active_clients - 1
    /\ conn' = [conn EXCEPT ![c] = "freed"]
    /\ wire' = [wire EXCEPT ![c] = <<>>] /\ buffer' = [buffer EXCEPT ![c] = <<>>]
    /\ UNCHANGED <<state, server, sent, size, routes, loop, answers, added, clean, fault>>

-----------------------------------------------------------------------------
(* Requests.                                                               *)

(* The buffer begins with the whole request line of one request.           *)
Whole(b) == Len(b) > 1 /\ b[1].part = 1 /\ b[2] = [req |-> b[1].req, part |-> 2]

(* parse_http_request looks for a line end and takes three words: of which *)
(* request, and what the words ask for (None: nothing that a route has).   *)
Parsings(b) ==
    IF Whole(b) THEN {[req |-> b[1].req, path |-> Asks[b[1].req]]}
    ELSE {[req |-> Garbled, path |-> p] : p \in Paths \cup {None}}

(* Mutant: the first route of the list is taken.                           *)
FindMatchingRoute_First(p) == IF routes = <<>> THEN NoRoute ELSE routes[1].id

(* find_matching_route: the newest route with this method and path.        *)
FindMatchingRoute(p) ==
    LET fits == {i \in DOMAIN routes : routes[i].path = p}
    IN  IF fits = {} THEN NoRoute
        ELSE routes[CHOOSE i \in fits : \A j \in fits : i <= j].id

(* The buffer is doubled once, whatever the data needs.                    *)
Grown(c, n) == IF Len(buffer[c]) + n > size[c] THEN 2 * size[c] ELSE size[c]

(* Mutant: read_buffer_used is not reset after a request.                  *)
AfterRequest_Kept(b) == b

(* All that was received is dropped, also what came behind the request.    *)
AfterRequest(b) == <<>>

(* on_client_read with n cells.                                            *)
OnClientRead(c, n) ==
    /\ LoopIdle /\ conn[c] = "open"
    /\ LET data == SubSeq(wire[c], 1, n)
           b == buffer[c] \o data
       IN  /\ Len(b) <= Grown(c, n)
           /\ wire' = [wire EXCEPT ![c] = SubSeq(@, n + 1, Len(@))]
           /\ size' = [size EXCEPT ![c] = Grown(c, n)]
           /\ clean' = [clean EXCEPT ![c] = @ /\ \E r \in Requests : data = Request(r)]
           /\ \/ /\ \E x \in Parsings(b) : lreq' = x.req /\ lroute' = FindMatchingRoute(x.path)
                 /\ lclient' = c
                 /\ buffer' = [buffer EXCEPT ![c] = AfterRequest(b)]
              \/ /\ ~Whole(b)
                 /\ buffer' = [buffer EXCEPT ![c] = b]
                 /\ UNCHANGED loop
    /\ UNCHANGED <<state, server, conn, sent, pool, routes, answers, added, fault>>

(* realloc fails: the data is lost and the connection closed; or the       *)
(* doubled buffer is still too small and the copy runs over its end.       *)
OnClientReadFails(c, n) ==
    /\ LoopIdle /\ conn[c] = "open" /\ Len(buffer[c]) + n > size[c]
    /\ \/ /\ CallsMayFail
          /\ StartClose(c)
          /\ UNCHANGED <<state, server, net, pool, routes, loop, answers, added, clean, fault>>
       \/ Len(buffer[c]) + n > Grown(c, n) /\ Faults("overrun")

(* create_http_response and send_response: the route that was found is     *)
(* used after routes_mutex was released.  A missing route is a 404.        *)
Respond ==
    /\ Alive /\ lclient # None
    /\ \/ /\ lroute # NoRoute /\ \A i \in DOMAIN routes : routes[i].id # lroute
          /\ Faults("freed_route")
       \/ /\ lroute = NoRoute \/ \E i \in DOMAIN routes : routes[i].id = lroute
          /\ \/ /\ answers' = [answers EXCEPT ![lclient] = Append(@, [req |-> lreq, route |-> lroute])]
                /\ UNCHANGED clean
             \/ /\ CallsMayFail
                /\ clean' = [clean EXCEPT ![lclient] = FALSE]
                /\ UNCHANGED answers
          /\ lclient' = None /\ lreq' = Garbled /\ lroute' = NoRoute
          /\ UNCHANGED <<state, server, conn, net, pool, routes, added, fault>>

-----------------------------------------------------------------------------
(* Routes, changed by any thread while the module has its data.            *)

HasData == state \notin {"UNINITIALIZED", "GONE"}

AddRoute(p) ==
    /\ Alive /\ HasData /\ Len(added) < MaxRoutes
    /\ added' = Append(added, p)
    /\ routes' = <<[id |-> Len(added) + 1, path |-> p]>> \o routes
    /\ UNCHANGED <<state, server, conn, net, pool, loop, answers, clean, fault>>

(* The newest route with this method and path is unlinked and freed.       *)
RemoveRoute(p) ==
    /\ Alive /\ HasData
    /\ \E i \in DOMAIN routes :
          /\ routes[i].path = p /\ \A j \in 1..i-1 : routes[j].path # p
          /\ routes' = SubSeq(routes, 1, i - 1) \o SubSeq(routes, i + 1, Len(routes))
    /\ UNCHANGED <<state, server, conn, net, pool, loop, answers, added, clean, fault>>

(* http_clear_routes                                                       *)
ClearRoutes ==
    /\ Alive /\ HasData /\ routes # <<>>
    /\ routes' = <<>>
    /\ UNCHANGED <<state, server, conn, net, pool, loop, answers, added, clean, fault>>

-----------------------------------------------------------------------------
Next ==
    \/ ModuleInit \/ Start \/ Stop \/ Cleanup \/ OnNewConnectionFails \/ Respond \/ ClearRoutes
    \/ \E c \in Clients :
          \/ OnNewConnection(c) \/ SendRequest(c) \/ OnReadError(c) \/ OnClientClose(c)
          \/ \E n \in 1..Len(wire[c]) : OnClientRead(c, n) \/ OnClientReadFails(c, n)
    \/ \E p \in Paths : AddRoute(p) \/ RemoveRoute(p)

Spec == Init /\ [][Next]_vars

-----------------------------------------------------------------------------
(* Properties.                                                             *)

(* Types.                                                                  *)
TypeOK ==
    /\ state \in {"UNINITIALIZED", "INITIALIZED", "STARTED", "STOPPED", "ERROR", "GONE"}
    /\ server \in {"none", "listening", "stalled", "closed"}
    /\ conn \in [Clients -> {"none", "open", "closing", "freed"}]
    /\ wire \in [Clients -> Seq(Cells)] /\ buffer \in [Clients -> Seq(Cells)]
    /\ sent \in [Clients -> 0..MaxRequests]
    /\ size \in [Clients -> Nat]
    /\ client_pool \in Seq(Clients) /\ active_clients \in Int
    /\ added \in Seq(Paths)
    /\ lclient \in Clients \cup {None} /\ lreq \in Requests \cup {Garbled} /\ lroute \in Nat
    /\ clean \in [Clients -> BOOLEAN]
    /\ fault \in {"none", "freed_handle", "freed_route", "overrun"}

(* The list of clients holds every connection that is not yet freed, once, *)
(* and active_clients is its length, in whatever order clients come and    *)
(* leave.                                                                  *)
PoolExact ==
    /\ active_clients = Len(client_pool)
    /\ \A c \in Clients :
          Cardinality({i \in DOMAIN client_pool : client_pool[i] = c})
          = IF conn[c] \in {"open", "closing"} THEN 1 ELSE 0

(* A client whose requests arrive in one piece each gets one answer per    *)
(* request, in the order of the requests, whatever earlier requests have   *)
(* left in the buffer.  (A request that arrives in two pieces may be       *)
(* answered twice, or as another request, or block the connection.)        *)
AnsweredOnce ==
    \A c \in Clients :
        clean[c] /\ conn[c] = "open" =>
            /\ \A i \in DOMAIN answers[c] : answers[c][i].req = i
            /\ Len(answers[c]) + (IF lclient = c THEN 1 ELSE 0)
               = sent[c] - (Len(wire[c]) \div 3)

(* A request whose line was read as it was sent is answered by a route for *)
(* its own path or by none, also while routes with equal paths are added   *)
(* and removed between the lookup and the handler.  (A line that came in   *)
(* pieces may have been read as another one: any route may answer it.)     *)
RightRoute ==
    \A c \in Clients : \A i \in DOMAIN answers[c] :
        answers[c][i].route # NoRoute /\ answers[c][i].req # Garbled =>
            added[answers[c][i].route] = Asks[answers[c][i].req]
=============================================================================
