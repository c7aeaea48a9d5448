-------------------------- MODULE HttpServerProofs --------------------------
(***************************************************************************)
(* Proofs about HttpServer, for every number of clients, requests, paths   *)
(* and routes, every buffer size and every way in which TCP cuts the data. *)
(***************************************************************************)
EXTENDS HttpServer, SequenceTheorems, FiniteSetTheorems, WellFoundedInduction, TLAPS

USE DEF net, pool, loop

-----------------------------------------------------------------------------
(***************************************************************************)
(* The buffers.                                                            *)
(***************************************************************************)

(* A non-empty set of natural numbers has a least element.                 *)
LEMMA LeastNatural ==
    ASSUME NEW T \in SUBSET Nat, T # {}
    PROVE  \E x \in T : \A y \in T : x <= y
<1>1. PICK x \in T : \A y \in T : ~(<<y, x>> \in OpToRel(<, Nat))
  BY NatLessThanWellFounded, WFMin
<1>2. \A y \in T : ~(y < x)
  BY <1>1 DEF OpToRel
<1> QED
  BY <1>2

(* A piece of a sequence, and the rest behind it.                          *)
LEMMA Pieces ==
    ASSUME NEW S, NEW s \in Seq(S), NEW n \in 1..Len(s),
           NEW p, p = SubSeq(s, 1, n), NEW r, r = SubSeq(s, n + 1, Len(s))
    PROVE  /\ p \in Seq(S) /\ Len(p) = n
           /\ r \in Seq(S) /\ r = [i \in 1..Len(s) - n |-> s[i + n]]
<1>1. Len(s) \in Nat /\ DOMAIN s = 1..Len(s) /\ \A i \in 1..Len(s) : s[i] \in S
  BY LenProperties, ElementOfSeq
<1>2. p = [i \in 1..n |-> s[i]] /\ p \in Seq(S)
  <2>1. p = [i \in 1..n |-> s[i]]
    BY <1>1
  <2>2. n \in Nat /\ \A i \in 1..n : s[i] \in S
    BY <1>1
  <2> QED
    BY <2>1, <2>2, IsASeq
<1>3. Len(p) = n
  BY <1>1, <1>2, LenProperties
<1>4. r \in Seq(S) /\ r = [i \in 1..Len(s) - n |-> s[i + n]]
  <2>1. r = [i \in 1..Len(s) - n |-> s[i + n]]
    BY <1>1
  <2>2. Len(s) - n \in Nat /\ \A i \in 1..Len(s) - n : s[i + n] \in S
    BY <1>1
  <2> QED
    BY <2>1, <2>2, IsASeq
<1> QED
  BY <1>2, <1>3, <1>4

(* What is left of a sequence without its k-th element.                    *)
LEMMA Without ==
    ASSUME NEW S, NEW s \in Seq(S), NEW k \in 1..Len(s),
           NEW r, r = SubSeq(s, 1, k - 1) \o SubSeq(s, k + 1, Len(s))
    PROVE  /\ r \in Seq(S) /\ Len(r) = Len(s) - 1
           /\ r = [i \in 1..Len(s) - 1 |-> IF i < k THEN s[i] ELSE s[i + 1]]
<1>1. Len(s) \in Nat /\ DOMAIN s = 1..Len(s) /\ \A i \in 1..Len(s) : s[i] \in S
  BY LenProperties, ElementOfSeq
<1>2. PICK p, t : p = SubSeq(s, 1, k - 1) /\ t = SubSeq(s, k + 1, Len(s))
  OBVIOUS
<1>3. p = [i \in 1..k - 1 |-> s[i]] /\ p \in Seq(S)
  <2>1. p = [i \in 1..k - 1 |-> s[i]]
    BY <1>1, <1>2
  <2>2. k - 1 \in Nat /\ \A i \in 1..k - 1 : s[i] \in S
    BY <1>1
  <2> QED
    BY <2>1, <2>2, IsASeq
<1>4. t = [i \in 1..Len(s) - k |-> s[i + k]] /\ t \in Seq(S)
  <2>1. PICK u : u = SubSeq(s, 1, k)
    OBVIOUS
  <2> QED
    BY <1>2, <2>1, Pieces
<1>5. Len(p) = k - 1 /\ Len(t) = Len(s) - k
  BY <1>1, <1>3, <1>4, LenProperties
<1>6. /\ r \in Seq(S) /\ Len(r) = Len(p) + Len(t)
      /\ \A i \in 1..Len(p) + Len(t) : r[i] = IF i <= Len(p) THEN p[i] ELSE t[i - Len(p)]
  <2>1. r = p \o t
    BY <1>2
  <2>2. p \in Seq(S) /\ t \in Seq(S)
    BY <1>3, <1>4
  <2> QED
    BY ONLY <2>1, <2>2, ConcatProperties
<1>7. Len(r) = Len(s) - 1 /\ DOMAIN r = 1..Len(s) - 1
  <2>1. Len(r) = Len(s) - 1
    BY ONLY <1>1, <1>5, <1>6, k \in 1..Len(s)
  <2>2. DOMAIN r = 1..Len(r)
    BY ONLY <1>6, LenProperties
  <2> QED
    BY <2>1, <2>2
<1>8. ASSUME NEW i \in 1..Len(s) - 1
      PROVE  r[i] = IF i < k THEN s[i] ELSE s[i + 1]
  <2>1. CASE i < k
    <3>1. i \in 1..k - 1 /\ i <= Len(p) /\ i \in 1..Len(p) + Len(t)
      BY <1>1, <1>5, <2>1
    <3> QED
      BY <1>3, <1>6, <2>1, <3>1
  <2>2. CASE ~(i < k)
    <3>1. /\ i - Len(p) \in 1..Len(s) - k /\ ~(i <= Len(p)) /\ i \in 1..Len(p) + Len(t)
          /\ (i - Len(p)) + k = i + 1
      BY <1>1, <1>5, <2>2
    <3> QED
      BY <1>4, <1>6, <2>2, <3>1
  <2> QED
    BY <2>1, <2>2
<1>9. r = [i \in 1..Len(s) - 1 |-> r[i]]
  BY <1>6, <1>7, LenProperties
<1> QED
  BY <1>6, <1>7, <1>8, <1>9

(* What is parsed is the request whose line it is, or a garbled one.       *)
LEMMA ParsingFits ==
    ASSUME NEW b \in Seq(Cells), NEW x \in Parsings(b)
    PROVE  x.req \in Requests \cup {Garbled} /\ (x.req # Garbled => x.path = Asks[x.req])
<1>1. Len(b) \in Nat /\ \A i \in 1..Len(b) : b[i] \in Cells
  BY LenProperties, ElementOfSeq
<1>2. CASE Whole(b)
  <2>1. b[1].req \in Requests
    BY <1>1, <1>2 DEF Whole, Cells
  <2>2. x = [req |-> b[1].req, path |-> Asks[b[1].req]]
    BY <1>2 DEF Parsings
  <2> QED
    BY <2>1, <2>2
<1>3. CASE ~Whole(b)
  BY <1>3 DEF Parsings
<1> QED
  BY <1>2, <1>3

(* find_matching_route returns a route of the list, for what was asked.    *)
LEMMA RouteFits ==
    ASSUME NEW p, DOMAIN routes \subseteq Nat, FindMatchingRoute(p) # NoRoute
    PROVE  \E i \in DOMAIN routes : /\ routes[i].path = p
                                    /\ FindMatchingRoute(p) = routes[i].id
<1> DEFINE fits == {i \in DOMAIN routes : routes[i].path = p}
<1>1. fits # {}
  BY DEF FindMatchingRoute
<1>2. \E i \in fits : \A j \in fits : i <= j
  BY <1>1, LeastNatural
<1>3. PICK i \in fits : i = CHOOSE k \in fits : \A j \in fits : k <= j
  BY <1>2
<1>4. FindMatchingRoute(p) = routes[i].id
  BY <1>1, <1>3 DEF FindMatchingRoute
<1> QED
  BY <1>4

-----------------------------------------------------------------------------
(***************************************************************************)
(* The inductive invariant.  Routes are never changed after they were      *)
(* added, so what the loop thread has looked up stays right even when the  *)
(* list is changed before the handler runs.                                *)
(***************************************************************************)

Answers == [req : Requests \cup {Garbled}, route : Nat]
Routes == [id : Nat, path : Paths]

Buffers ==
    /\ conn \in [Clients -> {"none", "open", "closing", "freed"}]
    /\ wire \in [Clients -> Seq(Cells)] /\ buffer \in [Clients -> Seq(Cells)]
    /\ sent \in [Clients -> 0..MaxRequests]

Listed ==
    /\ added \in Seq(Paths) /\ routes \in Seq(Routes)
    /\ \A i \in 1..Len(routes) : /\ routes[i].id \in 1..Len(added)
                                 /\ routes[i].path = added[routes[i].id]

(* Route n may answer request q.                                           *)
Fits(q, n) ==
    n # NoRoute => n \in 1..Len(added) /\ (q # Garbled => added[n] = Asks[q])

Looked ==
    /\ lclient \in Clients \cup {None} /\ lreq \in Requests \cup {Garbled} /\ lroute \in Nat
    /\ Fits(lreq, lroute)

Answered ==
    /\ answers \in [Clients -> Seq(Answers)]
    /\ \A c \in Clients : \A i \in 1..Len(answers[c]) :
          Fits(answers[c][i].req, answers[c][i].route)

IInv == Buffers /\ Listed /\ Looked /\ Answered

LEMMA InitIInv == Init => IInv
<1> SUFFICES ASSUME Init PROVE IInv
  OBVIOUS
<1>1. /\ <<>> \in Seq(Cells) /\ <<>> \in Seq(Paths) /\ <<>> \in Seq(Routes)
      /\ <<>> \in Seq(Answers) /\ Len(<<>>) = 0 /\ 0 \in 0..MaxRequests
  BY SizesAssumption
<1>2. Buffers
  BY <1>1 DEF Init, Buffers
<1>3. Listed
  BY <1>1 DEF Init, Listed
<1>4. Looked
  BY DEF Init, Looked, Fits, NoRoute
<1>5. Answered
  BY <1>1 DEF Init, Answered
<1> QED
  BY <1>2, <1>3, <1>4, <1>5 DEF IInv

(* Steps that leave the parts of the state alone.                          *)
LEMMA KeepsBuffers ==
    ASSUME Buffers, UNCHANGED <<conn, wire, buffer, sent>>
    PROVE  Buffers'
  BY DEF Buffers

LEMMA KeepsListed ==
    ASSUME Listed, UNCHANGED <<added, routes>>
    PROVE  Listed'
  BY DEF Listed

LEMMA KeepsLooked ==
    ASSUME Looked, UNCHANGED <<lclient, lreq, lroute, added>>
    PROVE  Looked'
  BY DEF Looked, Fits

LEMMA KeepsAnswered ==
    ASSUME Answered, UNCHANGED <<answers, added>>
    PROVE  Answered'
  BY DEF Answered, Fits

(* A client connects, sends, or goes.                                      *)
LEMMA ClientBuffers ==
    ASSUME Buffers, NEW c \in Clients,
           OnNewConnection(c) \/ SendRequest(c) \/ OnReadError(c) \/ OnClientClose(c)
    PROVE  Buffers'
<1> USE DEF Buffers
<1>1. CASE OnNewConnection(c)
  BY <1>1 DEF OnNewConnection
<1>2. CASE SendRequest(c)
  <2>1. sent[c] + 1 \in Requests /\ sent[c] + 1 \in 0..MaxRequests
    BY <1>2, SizesAssumption DEF SendRequest, Requests
  <2>2. PICK q : q = Request(sent[c] + 1)
    OBVIOUS
  <2>3. q \in Seq(Cells)
    <3>1. \A k \in 1..3 : [req |-> sent[c] + 1, part |-> k] \in Cells
      BY <2>1 DEF Cells
    <3>2. /\ [req |-> sent[c] + 1, part |-> 1] \in Cells
          /\ [req |-> sent[c] + 1, part |-> 2] \in Cells
          /\ [req |-> sent[c] + 1, part |-> 3] \in Cells
      BY <3>1
    <3> QED
      BY <2>2, <3>2 DEF Request
  <2>4. wire[c] \o q \in Seq(Cells)
    BY <2>3, ConcatProperties
  <2>5. wire' \in [Clients -> Seq(Cells)]
    BY <1>2, <2>2, <2>4 DEF SendRequest
  <2>6. sent' \in [Clients -> 0..MaxRequests]
    BY <1>2, <2>1 DEF SendRequest
  <2> QED
    BY <1>2, <2>5, <2>6 DEF SendRequest
<1>3. CASE OnReadError(c)
  BY <1>3 DEF OnReadError, StartClose
<1>4. CASE OnClientClose(c)
  <2>1. <<>> \in Seq(Cells)
    OBVIOUS
  <2> QED
    BY <1>4, <2>1 DEF OnClientClose
<1> QED
  BY <1>1, <1>2, <1>3, <1>4

(* on_client_read.                                                         *)
LEMMA ReadIInv ==
    ASSUME IInv, NEW c \in Clients, NEW n \in 1..Len(wire[c]), OnClientRead(c, n)
    PROVE  IInv'
<1> USE DEF IInv
<1>1. PICK data, b, left : /\ data = SubSeq(wire[c], 1, n)
                           /\ left = SubSeq(wire[c], n + 1, Len(wire[c]))
                           /\ b = buffer[c] \o data
  OBVIOUS
<1>2. wire[c] \in Seq(Cells) /\ buffer[c] \in Seq(Cells)
  BY DEF Buffers
<1>3. data \in Seq(Cells) /\ Len(data) = n /\ left \in Seq(Cells)
  BY <1>1, <1>2, Pieces
<1>4. b \in Seq(Cells)
  BY <1>1, <1>2, <1>3, ConcatProperties
<1>5. /\ wire' = [wire EXCEPT ![c] = left]
      /\ \/ /\ \E x \in Parsings(b) : lreq' = x.req /\ lroute' = FindMatchingRoute(x.path)
            /\ lclient' = c /\ buffer' = [buffer EXCEPT ![c] = AfterRequest(b)]
         \/ buffer' = [buffer EXCEPT ![c] = b] /\ UNCHANGED <<lclient, lreq, lroute>>
      /\ UNCHANGED <<state, server, conn, sent, pool, routes, answers, added, fault>>
  BY <1>1 DEF OnClientRead
<1>7. Buffers'
  <2>1. <<>> \in Seq(Cells)
    OBVIOUS
  <2>2. wire' \in [Clients -> Seq(Cells)] /\ buffer' \in [Clients -> Seq(Cells)]
    BY <1>3, <1>4, <1>5, <2>1 DEF Buffers, AfterRequest
  <2> QED
    BY <1>5, <2>2 DEF Buffers
<1>8. Looked'
  <2>1. CASE \E x \in Parsings(b) : /\ lreq' = x.req /\ lroute' = FindMatchingRoute(x.path)
                                    /\ lclient' = c
    <3>0. PICK x \in Parsings(b) : /\ lreq' = x.req /\ lroute' = FindMatchingRoute(x.path)
                                   /\ lclient' = c
      BY <2>1
    <3>1. lreq' \in Requests \cup {Garbled} /\ (lreq' # Garbled => x.path = Asks[lreq'])
      BY <1>4, <3>0, ParsingFits
    <3>2. /\ DOMAIN routes = 1..Len(routes) /\ Len(routes) \in Nat
          /\ \A i \in 1..Len(routes) : routes[i] \in Routes
      BY LenProperties, ElementOfSeq DEF Listed
    <3>3. DOMAIN routes \subseteq Nat
      BY <3>2
    <3>4. CASE lroute' = NoRoute
      BY <3>0, <3>1, <3>4 DEF Looked, Fits, NoRoute
    <3>5. CASE lroute' # NoRoute
      <4>1. \E i \in DOMAIN routes : routes[i].path = x.path /\ lroute' = routes[i].id
        BY <3>0, <3>3, <3>5, RouteFits
      <4>2. PICK i \in 1..Len(routes) : routes[i].path = x.path /\ lroute' = routes[i].id
        BY <3>2, <4>1
      <4>3. lroute' \in 1..Len(added) /\ added[lroute'] = x.path
        BY <4>2 DEF Listed
      <4>4. lroute' \in Nat
        BY <3>2, <4>2 DEF Routes
      <4>5. Fits(lreq, lroute)'
        BY <1>5, <3>1, <4>3 DEF Fits
      <4> QED
        BY <3>0, <3>1, <4>4, <4>5 DEF Looked
    <3> QED
      BY <3>4, <3>5
  <2>2. CASE UNCHANGED <<lclient, lreq, lroute>>
    BY <1>5, <2>2, KeepsLooked
  <2> QED
    BY <1>5, <2>1, <2>2
<1>9. Listed' /\ Answered'
  BY <1>5, KeepsListed, KeepsAnswered
<1> QED
  BY <1>7, <1>8, <1>9

(* create_http_response and send_response.                                 *)
LEMMA RespondIInv ==
    ASSUME IInv, Respond
    PROVE  IInv'
<1> USE DEF IInv
<1>1. CASE Faults("freed_route")
  BY <1>1, KeepsBuffers, KeepsListed, KeepsLooked, KeepsAnswered DEF Faults
<1>2. CASE ~Faults("freed_route")
  <2>1. /\ lclient # None
        /\ \/ answers' = [answers EXCEPT ![lclient] = Append(@, [req |-> lreq, route |-> lroute])]
           \/ UNCHANGED answers
        /\ lclient' = None /\ lreq' = Garbled /\ lroute' = NoRoute
        /\ UNCHANGED <<state, server, conn, net, pool, routes, added, fault>>
    BY <1>2 DEF Respond
  <2>2. Buffers' /\ Listed'
    BY <2>1, KeepsBuffers, KeepsListed
  <2>3. Looked'
    BY <2>1 DEF Looked, Fits, NoRoute
  <2>4. Answered'
    <3>1. CASE UNCHANGED answers
      BY <2>1, <3>1, KeepsAnswered
    <3>2. CASE answers' = [answers EXCEPT ![lclient] = Append(@, [req |-> lreq, route |-> lroute])]
      <4>1. PICK x : x = [req |-> lreq, route |-> lroute]
        OBVIOUS
      <4>2. x \in Answers /\ Fits(x.req, x.route) /\ lclient \in Clients
        BY <2>1, <4>1 DEF Looked, Answers
      <4>3. PICK r : r = Append(answers[lclient], x)
        OBVIOUS
      <4>4. /\ answers[lclient] \in Seq(Answers) /\ Len(answers[lclient]) \in Nat
            /\ r \in Seq(Answers) /\ Len(r) = Len(answers[lclient]) + 1
            /\ r[Len(answers[lclient]) + 1] = x
            /\ \A i \in 1..Len(answers[lclient]) : r[i] = answers[lclient][i]
        <5>1. answers[lclient] \in Seq(Answers)
          BY <4>2 DEF Answered
        <5> QED
          BY <4>2, <4>3, <5>1, AppendProperties, LenProperties
      <4>5. \A i \in 1..Len(r) : Fits(r[i].req, r[i].route)
        <5>1. \A i \in 1..Len(r) : i \in 1..Len(answers[lclient]) \/ i = Len(answers[lclient]) + 1
          BY <4>4
        <5> QED
          BY <4>2, <4>4, <5>1 DEF Answered
      <4>6. answers' = [answers EXCEPT ![lclient] = r]
        BY <3>2, <4>1, <4>3
      <4>7. answers' \in [Clients -> Seq(Answers)]
        BY <4>4, <4>6 DEF Answered
      <4>8. \A c \in Clients : \A i \in 1..Len(answers'[c]) :
               Fits(answers'[c][i].req, answers'[c][i].route)
        BY <4>2, <4>5, <4>6 DEF Answered
      <4> QED
        BY <2>1, <4>7, <4>8 DEF Answered, Fits
    <3> QED
      BY <2>1, <3>1, <3>2
  <2> QED
    BY <2>2, <2>3, <2>4
<1> QED
  BY <1>1, <1>2

(* A route that has answered, or was looked up, stays in the history.      *)
LEMMA AddRouteIInv ==
    ASSUME IInv, NEW p \in Paths, AddRoute(p)
    PROVE  IInv'
<1> USE DEF IInv
<1>1. PICK x : x = [id |-> Len(added) + 1, path |-> p]
  OBVIOUS
<1>2. /\ added' = Append(added, p) /\ routes' = <<x>> \o routes
      /\ UNCHANGED <<state, server, conn, net, pool, loop, answers, clean, fault>>
  BY <1>1 DEF AddRoute
<1>3. /\ added \in Seq(Paths) /\ Len(added) \in Nat
      /\ routes \in Seq(Routes) /\ Len(routes) \in Nat
  BY LenProperties DEF Listed
<1>4. PICK a : a = Append(added, p)
  OBVIOUS
<1>5. /\ a \in Seq(Paths) /\ Len(a) = Len(added) + 1 /\ a[Len(added) + 1] = p
      /\ \A i \in 1..Len(added) : a[i] = added[i]
  BY <1>3, <1>4, AppendProperties
<1>6. \A i \in 1..Len(added) : i \in 1..Len(a)
  BY <1>3, <1>5
<1>7. \A q, n : Fits(q, n) => (n # NoRoute => /\ n \in 1..Len(a)
                                              /\ q # Garbled => a[n] = Asks[q])
  BY <1>5, <1>6 DEF Fits
<1>8. Looked'
  BY <1>2, <1>4, <1>7 DEF Looked, Fits
<1>9. Answered'
  BY <1>2, <1>4, <1>7 DEF Answered, Fits
<1>10. Listed'
  <2>1. x \in Routes /\ x.id = Len(added) + 1 /\ x.path = p
    BY <1>1, <1>3 DEF Routes
  <2>2. <<x>> \in Seq(Routes) /\ Len(<<x>>) = 1 /\ <<x>>[1] = x
    BY <2>1
  <2>3. PICK o : o = <<x>>
    OBVIOUS
  <2>4. PICK r : r = o \o routes
    OBVIOUS
  <2>5. /\ r \in Seq(Routes) /\ Len(r) = 1 + Len(routes)
        /\ \A i \in 1..1 + Len(routes) : r[i] = IF i <= 1 THEN o[i] ELSE routes[i - 1]
    BY <1>3, <2>2, <2>3, <2>4, ConcatProperties
  <2>6. \A i \in 1..Len(r) : r[i].id \in 1..Len(a) /\ r[i].path = a[r[i].id]
    <3> SUFFICES ASSUME NEW i \in 1..Len(r)
                 PROVE  r[i].id \in 1..Len(a) /\ r[i].path = a[r[i].id]
      OBVIOUS
    <3>1. CASE i = 1
      <4>1. r[i] = x
        BY <1>3, <2>2, <2>3, <2>5, <3>1
      <4> QED
        BY <1>3, <1>5, <2>1, <4>1
    <3>2. CASE i # 1
      <4>1. r[i] = routes[i - 1] /\ i - 1 \in 1..Len(routes)
        BY <1>3, <2>5, <3>2
      <4> QED
        BY <1>5, <1>6, <4>1 DEF Listed
    <3> QED
      BY <3>1, <3>2
  <2> QED
    BY <1>2, <1>4, <1>5, <2>3, <2>4, <2>5, <2>6 DEF Listed
<1>11. Buffers'
  BY <1>2, KeepsBuffers
<1> QED
  BY <1>8, <1>9, <1>10, <1>11

(* Removing a route leaves the others as they are.                         *)
LEMMA RemoveRouteIInv ==
    ASSUME IInv, NEW p \in Paths, RemoveRoute(p)
    PROVE  IInv'
<1> USE DEF IInv
<1>1. PICK k \in DOMAIN routes :
          routes' = SubSeq(routes, 1, k - 1) \o SubSeq(routes, k + 1, Len(routes))
  BY DEF RemoveRoute
<1>2. UNCHANGED <<state, server, conn, net, pool, loop, answers, added, clean, fault>>
  BY DEF RemoveRoute
<1>3. /\ routes \in Seq(Routes) /\ Len(routes) \in Nat /\ DOMAIN routes = 1..Len(routes)
      /\ \A i \in 1..Len(routes) : routes[i] \in Routes
  BY LenProperties, ElementOfSeq DEF Listed
<1>4. k \in 1..Len(routes)
  BY <1>3
<1>5. PICK r : r = SubSeq(routes, 1, k - 1) \o SubSeq(routes, k + 1, Len(routes))
  OBVIOUS
<1>6. /\ r = [i \in 1..Len(routes) - 1 |-> IF i < k THEN routes[i] ELSE routes[i + 1]]
      /\ r \in Seq(Routes) /\ Len(r) = Len(routes) - 1
  BY ONLY <1>3, <1>4, <1>5, Without, ZenonT(60)
<1>7. r \in Seq(Routes) /\ Len(r) = Len(routes) - 1 /\ routes' = r
  BY <1>1, <1>5, <1>6
<1>8. \A i \in 1..Len(r) : \E j \in 1..Len(routes) : r[i] = routes[j]
  BY <1>3, <1>4, <1>6
<1>9. Listed'
  BY <1>2, <1>7, <1>8 DEF Listed
<1>10. Buffers' /\ Looked' /\ Answered'
  BY <1>2, KeepsBuffers, KeepsLooked, KeepsAnswered
<1> QED
  BY <1>9, <1>10

LEMMA InvariantHolds == Spec => []IInv
<1>1. IInv /\ [Next]_vars => IInv'
  <2> SUFFICES ASSUME IInv, [Next]_vars PROVE IInv'
    OBVIOUS
  <2> USE DEF IInv
  <2>1. CASE ModuleInit \/ Start \/ Stop
    BY <2>1, KeepsBuffers, KeepsListed, KeepsLooked, KeepsAnswered DEF ModuleInit, Start, Stop
  <2>2. CASE Cleanup \/ ClearRoutes
    <3>1. /\ routes' = <<>>
          /\ UNCHANGED <<conn, net, pool, loop, answers, added>>
      BY <2>2 DEF Cleanup, ClearRoutes
    <3>2. <<>> \in Seq(Routes) /\ Len(<<>>) = 0
      OBVIOUS
    <3>3. Listed'
      BY <3>1, <3>2 DEF Listed
    <3> QED
      BY <3>1, <3>3, KeepsBuffers, KeepsLooked, KeepsAnswered
  <2>3. CASE OnNewConnectionFails
    BY <2>3, KeepsBuffers, KeepsListed, KeepsLooked, KeepsAnswered DEF OnNewConnectionFails, Faults
  <2>4. CASE Respond
    BY <2>4, RespondIInv
  <2>5. CASE \E c \in Clients : OnNewConnection(c) \/ SendRequest(c) \/ OnReadError(c) \/ OnClientClose(c)
    <3>0. PICK c \in Clients :
              OnNewConnection(c) \/ SendRequest(c) \/ OnReadError(c) \/ OnClientClose(c)
      BY <2>5
    <3>1. Buffers'
      BY <3>0, ClientBuffers
    <3> QED
      BY <3>0, <3>1, KeepsListed, KeepsLooked, KeepsAnswered
      DEF OnNewConnection, SendRequest, OnReadError, OnClientClose
  <2>6. CASE \E c \in Clients : \E n \in 1..Len(wire[c]) : OnClientRead(c, n)
    <3>1. PICK c \in Clients : \E n \in 1..Len(wire[c]) : OnClientRead(c, n)
      BY <2>6
    <3>2. PICK n \in 1..Len(wire[c]) : OnClientRead(c, n)
      BY <3>1
    <3>3. IInv
      OBVIOUS
    <3> HIDE DEF IInv
    <3> QED
      BY <3>2, <3>3, ReadIInv
  <2>7. CASE \E c \in Clients : \E n \in 1..Len(wire[c]) : OnClientReadFails(c, n)
    <3>1. PICK c \in Clients : \E n \in 1..Len(wire[c]) : OnClientReadFails(c, n)
      BY <2>7
    <3>2. /\ conn' = conn \/ conn' = [conn EXCEPT ![c] = "closing"]
          /\ conn[c] = "open"
          /\ UNCHANGED <<wire, buffer, sent, routes, loop, answers, added>>
      BY <3>1 DEF OnClientReadFails, StartClose, Faults
    <3>3. Buffers'
      BY <3>2 DEF Buffers
    <3> QED
      BY <3>2, <3>3, KeepsListed, KeepsLooked, KeepsAnswered
  <2>8. CASE \E p \in Paths : AddRoute(p) \/ RemoveRoute(p)
    BY <2>8, AddRouteIInv, RemoveRouteIInv
  <2>9. CASE UNCHANGED vars
    BY <2>9, KeepsBuffers, KeepsListed, KeepsLooked, KeepsAnswered DEF vars
  <2> QED
    BY <2>1, <2>2, <2>3, <2>4, <2>5, <2>6, <2>7, <2>8, <2>9 DEF Next
<1> QED
  BY <1>1, InitIInv, PTL DEF Spec

(* find_matching_route, http_add_route, _remove_route and _clear_routes: a *)
(* request whose line the parser has read as it was sent is answered by no *)
(* handler that was registered for something else, although the list may   *)
(* be changed between the lookup and the call of the handler.              *)
THEOREM RouteCorrect == Spec => []RightRoute
<1>1. IInv => RightRoute
  <2> SUFFICES ASSUME IInv, NEW c \in Clients, NEW i \in DOMAIN answers[c],
                      answers[c][i].route # NoRoute, answers[c][i].req # Garbled
               PROVE  added[answers[c][i].route] = Asks[answers[c][i].req]
    BY DEF RightRoute
  <2>1. DOMAIN answers[c] = 1..Len(answers[c])
    BY LenProperties DEF IInv, Answered
  <2> QED
    BY <2>1 DEF IInv, Answered, Fits
<1> QED
  BY <1>1, InvariantHolds, PTL
-----------------------------------------------------------------------------
(***************************************************************************)
(* The list of clients.  It holds every connection that is not yet freed,  *)
(* and none twice: so the walk of on_client_close finds the one it is      *)
(* called for, and unlinks no other.                                       *)
(***************************************************************************)

Linked(c) == \E i \in DOMAIN client_pool : client_pool[i] = c

PoolInv ==
    /\ conn \in [Clients -> {"none", "open", "closing", "freed"}]
    /\ client_pool \in Seq(Clients) /\ active_clients = Len(client_pool)
    /\ \A i, j \in DOMAIN client_pool : client_pool[i] = client_pool[j] => i = j
    /\ \A c \in Clients : Linked(c) <=> conn[c] \in {"open", "closing"}

(* A connection changes, but none comes or goes.                           *)
LEMMA KeepsPool ==
    ASSUME PoolInv, UNCHANGED <<client_pool, active_clients>>,
           conn' \in [Clients -> {"none", "open", "closing", "freed"}],
           \A c \in Clients : conn'[c] \in {"open", "closing"} <=> conn[c] \in {"open", "closing"}
    PROVE  PoolInv'
  BY DEF PoolInv, Linked

(* on_new_connection puts the client in front.                             *)
LEMMA ConnectPool ==
    ASSUME PoolInv, NEW c \in Clients, OnNewConnection(c)
    PROVE  PoolInv'
<1> USE DEF PoolInv
<1>1. PICK o, r : o = <<c>> /\ r = o \o client_pool
  OBVIOUS
<1>2. /\ conn[c] = "none" /\ conn' = [conn EXCEPT ![c] = "open"]
      /\ client_pool' = r /\ active_clients' = active_clients + 1
  BY <1>1 DEF OnNewConnection
<1>3. client_pool \in Seq(Clients) /\ Len(client_pool) \in Nat
      /\ DOMAIN client_pool = 1..Len(client_pool)
  BY LenProperties
<1>4. o \in Seq(Clients) /\ Len(o) = 1 /\ o[1] = c
  BY <1>1
<1>5. /\ r \in Seq(Clients) /\ Len(r) = 1 + Len(client_pool)
      /\ \A i \in 1..1 + Len(client_pool) : r[i] = IF i <= 1 THEN o[i] ELSE client_pool[i - 1]
  BY <1>1, <1>3, <1>4, ConcatProperties
<1>6. DOMAIN r = 1..1 + Len(client_pool)
  BY <1>5, LenProperties
<1>7. r[1] = c /\ 1 \in DOMAIN r
  BY <1>3, <1>4, <1>5, <1>6
<1>8. \A i \in DOMAIN r : i # 1 => i - 1 \in DOMAIN client_pool /\ r[i] = client_pool[i - 1]
  BY <1>3, <1>5, <1>6
<1>9. \A j \in DOMAIN client_pool : j + 1 \in DOMAIN r /\ r[j + 1] = client_pool[j]
  BY <1>3, <1>5, <1>6
<1>10. ~Linked(c)
  BY <1>2
<1>11. \A i, j \in DOMAIN r : r[i] = r[j] => i = j
  <2> SUFFICES ASSUME NEW i \in DOMAIN r, NEW j \in DOMAIN r, r[i] = r[j]
               PROVE  i = j
    OBVIOUS
  <2>1. CASE i = 1 \/ j = 1
    BY <1>7, <1>8, <1>10, <2>1 DEF Linked
  <2>2. CASE i # 1 /\ j # 1
    <3>1. i - 1 = j - 1
      BY <1>8, <2>2
    <3> QED
      BY <1>3, <1>6, <3>1
  <2> QED
    BY <2>1, <2>2
<1>12. \A d \in Clients : (\E i \in DOMAIN r : r[i] = d) <=> d = c \/ Linked(d)
  BY <1>7, <1>8, <1>9 DEF Linked
<1>13. \A d \in Clients : Linked(d)' <=> conn'[d] \in {"open", "closing"}
  <2>1. \A d \in Clients : conn'[d] = IF d = c THEN "open" ELSE conn[d]
    BY <1>2
  <2> QED
    BY <1>2, <1>12, <2>1 DEF Linked
<1>14. active_clients' = Len(r)
  BY <1>2, <1>3, <1>5
<1>15. conn' \in [Clients -> {"none", "open", "closing", "freed"}]
  BY <1>2
<1> QED
  BY <1>2, <1>5, <1>11, <1>13, <1>14, <1>15

(* on_client_close finds the client and unlinks it.                        *)
LEMMA ClosePool ==
    ASSUME PoolInv, NEW c \in Clients, OnClientClose(c)
    PROVE  PoolInv'
<1> USE DEF PoolInv
<1> DEFINE found == {i \in DOMAIN client_pool : client_pool[i] = c}
<1>1. /\ conn[c] = "closing" /\ conn' = [conn EXCEPT ![c] = "freed"]
      /\ active_clients' = active_clients - 1
  BY DEF OnClientClose
<1>2. client_pool \in Seq(Clients) /\ Len(client_pool) \in Nat
      /\ DOMAIN client_pool = 1..Len(client_pool)
  BY LenProperties
<1>3. found # {} /\ found \in SUBSET Nat
  BY <1>1, <1>2 DEF Linked
<1>4. \E i \in found : \A j \in found : i <= j
  BY <1>3, LeastNatural
<1>5. PICK k \in found : k = CHOOSE i \in found : \A j \in found : i <= j
  BY <1>4
<1>6. PICK r : r = SubSeq(client_pool, 1, k - 1) \o SubSeq(client_pool, k + 1, Len(client_pool))
  OBVIOUS
<1>7. client_pool' = r
  BY <1>3, <1>5, <1>6 DEF OnClientClose, Unlink
<1>8. k \in 1..Len(client_pool) /\ client_pool[k] = c
  BY <1>2
<1> HIDE DEF found
<1>9. /\ r \in Seq(Clients) /\ Len(r) = Len(client_pool) - 1
      /\ r = [i \in 1..Len(client_pool) - 1 |->
                 IF i < k THEN client_pool[i] ELSE client_pool[i + 1]]
  BY ONLY <1>2, <1>6, <1>8, Without, ZenonT(60)
<1>10. /\ DOMAIN r = 1..Len(client_pool) - 1
       /\ \A i \in 1..Len(client_pool) - 1 :
             r[i] = IF i < k THEN client_pool[i] ELSE client_pool[i + 1]
  BY <1>9
<1>11. \A i \in DOMAIN r : \E j \in DOMAIN client_pool :
          r[i] = client_pool[j] /\ j # k /\ j = IF i < k THEN i ELSE i + 1
  BY <1>2, <1>8, <1>10
<1>12. \A i, j \in DOMAIN r : r[i] = r[j] => i = j
  <2> SUFFICES ASSUME NEW i \in DOMAIN r, NEW j \in DOMAIN r, r[i] = r[j]
               PROVE  i = j
    OBVIOUS
  <2>1. PICK a \in DOMAIN client_pool : r[i] = client_pool[a] /\ a = IF i < k THEN i ELSE i + 1
    BY <1>11
  <2>2. PICK b \in DOMAIN client_pool : r[j] = client_pool[b] /\ b = IF j < k THEN j ELSE j + 1
    BY <1>11
  <2>3. a = b
    BY <2>1, <2>2
  <2>4. i \in Nat /\ j \in Nat /\ k \in Nat
    BY <1>2, <1>8, <1>10
  <2> QED
    BY ONLY <2>1, <2>2, <2>3, <2>4
<1>13. ~\E i \in DOMAIN r : r[i] = c
  <2> SUFFICES ASSUME NEW i \in DOMAIN r, r[i] = c PROVE FALSE
    OBVIOUS
  <2>1. PICK j \in DOMAIN client_pool : r[i] = client_pool[j] /\ j # k
    BY <1>11
  <2> QED
    BY <1>2, <1>8, <2>1
<1>14. \A d \in Clients \ {c} : Linked(d) => \E i \in DOMAIN r : r[i] = d
  <2> SUFFICES ASSUME NEW d \in Clients \ {c}, NEW j \in DOMAIN client_pool, client_pool[j] = d
               PROVE  \E i \in DOMAIN r : r[i] = d
    BY DEF Linked
  <2>1. j # k /\ j \in 1..Len(client_pool)
    BY <1>2, <1>8
  <2>2. CASE j < k
    BY <1>2, <1>8, <1>10, <2>1, <2>2
  <2>3. CASE j > k
    <3>1. PICK i : i = j - 1
      OBVIOUS
    <3>2. i \in 1..Len(client_pool) - 1 /\ ~(i < k) /\ i + 1 = j
      BY <1>2, <1>8, <2>1, <2>3, <3>1
    <3> QED
      BY <1>10, <3>2
  <2> QED
    BY <1>2, <1>8, <2>1, <2>2, <2>3
<1>15. \A d \in Clients : Linked(d)' <=> conn'[d] \in {"open", "closing"}
  <2>1. \A d \in Clients : conn'[d] = IF d = c THEN "freed" ELSE conn[d]
    BY <1>1
  <2>2. \A d \in Clients : Linked(d)' <=> \E i \in DOMAIN r : r[i] = d
    BY <1>7 DEF Linked
  <2>3. \A d \in Clients : (\E i \in DOMAIN r : r[i] = d) => Linked(d)
    BY <1>11 DEF Linked
  <2> QED
    BY <1>13, <1>14, <2>1, <2>2, <2>3
<1>16. active_clients' = Len(r)
  BY <1>1, <1>2, <1>9
<1>17. conn' \in [Clients -> {"none", "open", "closing", "freed"}]
  BY <1>1
<1> QED
  BY <1>7, <1>9, <1>12, <1>15, <1>16, <1>17, ZenonT(60)

LEMMA StepPool == PoolInv /\ [Next]_vars => PoolInv'
<1> SUFFICES ASSUME PoolInv, [Next]_vars PROVE PoolInv'
  OBVIOUS
<1>0. conn \in [Clients -> {"none", "open", "closing", "freed"}]
  BY DEF PoolInv
<1>1. CASE UNCHANGED <<conn, client_pool, active_clients>>
  BY <1>0, <1>1, KeepsPool
<1>2. CASE \E c \in Clients : /\ conn[c] = "open" /\ conn' = [conn EXCEPT ![c] = "closing"]
                              /\ UNCHANGED <<client_pool, active_clients>>
  <2>1. PICK c \in Clients : conn[c] = "open" /\ conn' = [conn EXCEPT ![c] = "closing"]
    BY <1>2
  <2>2. \A d \in Clients : conn'[d] = IF d = c THEN "closing" ELSE conn[d]
    BY <1>0, <2>1
  <2>3. conn' \in [Clients -> {"none", "open", "closing", "freed"}]
    BY <1>0, <2>1
  <2>4. \A d \in Clients : conn'[d] \in {"open", "closing"} <=> conn[d] \in {"open", "closing"}
    BY <2>1, <2>2
  <2> QED
    BY <1>2, <2>3, <2>4, KeepsPool
<1>3. CASE ModuleInit \/ Start \/ Stop \/ Cleanup \/ OnNewConnectionFails \/ Respond \/ ClearRoutes
  BY <1>1, <1>3
  DEF ModuleInit, Start, Stop, Cleanup, OnNewConnectionFails, Respond, ClearRoutes, Faults
<1>4. CASE \E p \in Paths : AddRoute(p) \/ RemoveRoute(p)
  BY <1>1, <1>4 DEF AddRoute, RemoveRoute
<1>5. CASE \E c \in Clients : SendRequest(c) \/ OnReadError(c)
  BY <1>1, <1>2, <1>5 DEF SendRequest, OnReadError, StartClose
<1>6. CASE \E c \in Clients : \E n \in 1..Len(wire[c]) : OnClientRead(c, n)
  <2>1. UNCHANGED <<conn, client_pool, active_clients>>
    BY <1>6 DEF OnClientRead
  <2> QED
    BY <1>1, <2>1
<1>7. CASE \E c \in Clients : \E n \in 1..Len(wire[c]) : OnClientReadFails(c, n)
  BY <1>1, <1>2, <1>7 DEF OnClientReadFails, StartClose, Faults
<1>8. CASE \E c \in Clients : OnNewConnection(c) \/ OnClientClose(c)
  BY <1>8, ConnectPool, ClosePool
<1>9. CASE UNCHANGED vars
  BY <1>1, <1>9 DEF vars
<1> QED
  BY <1>3, <1>4, <1>5, <1>6, <1>7, <1>8, <1>9 DEF Next

LEMMA PoolCounted == PoolInv => PoolExact
<1> SUFFICES ASSUME PoolInv, NEW c \in Clients
             PROVE  Cardinality({i \in DOMAIN client_pool : client_pool[i] = c})
                    = IF conn[c] \in {"open", "closing"} THEN 1 ELSE 0
  BY DEF PoolInv, PoolExact
<1> DEFINE found == {i \in DOMAIN client_pool : client_pool[i] = c}
<1>1. CASE Linked(c)
  <2>1. PICK i \in DOMAIN client_pool : client_pool[i] = c
    BY <1>1 DEF Linked
  <2>2. found = {i}
    BY <2>1 DEF PoolInv
  <2>3. Cardinality(found) = 1
    BY <2>2, FS_Singleton
  <2> QED
    BY <1>1, <2>3 DEF PoolInv
<1>2. CASE ~Linked(c)
  <2>1. found = {}
    BY <1>2 DEF Linked
  <2>2. Cardinality(found) = 0
    BY <2>1, FS_EmptySet
  <2> QED
    BY <1>2, <2>2 DEF PoolInv
<1> QED
  BY <1>1, <1>2

(* on_new_connection and on_client_close: the list holds every connection  *)
(* that is not yet freed, once, and active_clients is its length.          *)
THEOREM PoolCorrect == Spec => []PoolExact
<1>1. Init => PoolInv
  BY DEF Init, PoolInv, Linked
<1> QED
  BY <1>1, StepPool, PoolCounted, PTL DEF Spec

-----------------------------------------------------------------------------
(***************************************************************************)
(* The answers.  A cell has its place among all cells of its connection:   *)
(* what is on the wire of a client whose reads were all whole requests     *)
(* goes on where the requests that were taken end, and its buffer is empty *)
(* between two reads.                                                      *)
(***************************************************************************)

Place(x) == 3 * (x.req - 1) + x.part

(* Requests of c that the loop thread has read.                            *)
Taken(c) == Len(answers[c]) + (IF lclient = c THEN 1 ELSE 0)

Exchange(c) ==
    /\ buffer[c] = <<>>
    /\ Taken(c) <= sent[c] /\ Len(wire[c]) = 3 * (sent[c] - Taken(c))
    /\ \A j \in 1..Len(wire[c]) : Place(wire[c][j]) = 3 * Taken(c) + j
    /\ \A i \in 1..Len(answers[c]) : answers[c][i].req = i
    /\ lclient = c => lreq = Len(answers[c]) + 1

ExchangeInv ==
    /\ clean \in [Clients -> BOOLEAN]
    /\ \A c \in Clients : clean[c] /\ conn[c] \in {"none", "open"} => Exchange(c)

(* A request on the wire.                                                  *)
LEMMA RequestCells ==
    ASSUME NEW n \in Requests, NEW q, q = Request(n)
    PROVE  /\ q \in Seq(Cells) /\ Len(q) = 3
           /\ \A k \in 1..3 : q[k].req = n /\ q[k].part = k /\ Place(q[k]) = 3 * (n - 1) + k
<1>0. n \in Nat
  BY SizesAssumption DEF Requests
<1>1. PICK x, y, z : /\ x = [req |-> n, part |-> 1] /\ y = [req |-> n, part |-> 2]
                     /\ z = [req |-> n, part |-> 3]
  OBVIOUS
<1>2. x \in Cells /\ y \in Cells /\ z \in Cells
  BY <1>1 DEF Cells
<1>3. q = <<x, y, z>>
  BY <1>1 DEF Request
<1>4. q \in Seq(Cells) /\ Len(q) = 3 /\ q[1] = x /\ q[2] = y /\ q[3] = z
  BY <1>2, <1>3
<1>5. /\ x.req = n /\ x.part = 1 /\ y.req = n /\ y.part = 2 /\ z.req = n /\ z.part = 3
  BY <1>1
<1>6. \A k \in 1..3 : k = 1 \/ k = 2 \/ k = 3
  OBVIOUS
<1> QED
  BY ONLY <1>0, <1>4, <1>5, <1>6 DEF Place

(* Types of what is counted.                                               *)
LEMMA Counts ==
    ASSUME IInv, NEW c \in Clients
    PROVE  /\ sent[c] \in Nat /\ Len(answers[c]) \in Nat /\ Taken(c) \in Nat
           /\ wire[c] \in Seq(Cells) /\ Len(wire[c]) \in Nat
           /\ DOMAIN answers[c] = 1..Len(answers[c])
<1>1. sent[c] \in Nat /\ wire[c] \in Seq(Cells) /\ answers[c] \in Seq(Answers)
  BY SizesAssumption DEF IInv, Buffers, Answered
<1>2. /\ Len(answers[c]) \in Nat /\ DOMAIN answers[c] = 1..Len(answers[c])
      /\ Len(wire[c]) \in Nat
  BY <1>1, LenProperties
<1>3. Taken(c) \in Nat
  <2>1. PICK n \in Nat : n = Len(answers[c])
    BY <1>2
  <2>2. PICK h \in {0, 1} : Taken(c) = n + h
    BY <2>1 DEF Taken
  <2> QED
    BY <2>2
<1> QED
  BY <1>1, <1>2, <1>3

(* A client that the step is not about.                                    *)
Apart(d) ==
    /\ buffer'[d] = buffer[d] /\ wire'[d] = wire[d] /\ sent'[d] = sent[d]
    /\ answers'[d] = answers[d]
    /\ (lclient' = d) = (lclient = d)
    /\ lclient' = d => lreq' = lreq

LEMMA ApartExchange ==
    ASSUME NEW d \in Clients, Exchange(d), Apart(d)
    PROVE  Exchange(d)'
<1>1. Taken(d)' = Taken(d)
  BY DEF Taken, Apart
<1> QED
  BY <1>1 DEF Exchange, Apart

(* Steps that leave the data of the clients alone; none becomes open that  *)
(* was closing.                                                            *)
LEMMA KeepsExchange ==
    ASSUME ExchangeInv, UNCHANGED <<buffer, wire, sent, answers, lclient, lreq, clean>>,
           \A c \in Clients : conn'[c] \in {"none", "open"} => conn[c] \in {"none", "open"}
    PROVE  ExchangeInv'
<1>1. \A d \in Clients : Apart(d)
  BY DEF Apart
<1> QED
  BY <1>1, ApartExchange DEF ExchangeInv

(* A client sends its next request.                                        *)
LEMMA SendExchange ==
    ASSUME IInv, ExchangeInv, NEW c \in Clients, SendRequest(c)
    PROVE  ExchangeInv'
<1>1. PICK q, r : q = Request(sent[c] + 1) /\ r = wire[c] \o q
  OBVIOUS
<1>2. /\ sent' = [sent EXCEPT ![c] = sent[c] + 1] /\ wire' = [wire EXCEPT ![c] = r]
      /\ UNCHANGED <<conn, buffer, lclient, lreq, answers, clean>> /\ conn[c] = "open"
  BY <1>1 DEF SendRequest
<1>3. /\ sent \in [Clients -> 0..MaxRequests] /\ wire \in [Clients -> Seq(Cells)]
  BY DEF IInv, Buffers
<1>4. /\ sent[c] \in Nat /\ Len(answers[c]) \in Nat /\ Taken(c) \in Nat
      /\ wire[c] \in Seq(Cells) /\ Len(wire[c]) \in Nat
  BY Counts
<1>5. sent[c] + 1 \in Requests
  BY <1>4, SizesAssumption DEF SendRequest, Requests
<1>6. /\ q \in Seq(Cells) /\ Len(q) = 3
      /\ \A k \in 1..3 : Place(q[k]) = 3 * ((sent[c] + 1) - 1) + k
  BY <1>1, <1>5, RequestCells
<1>7. /\ Len(r) = Len(wire[c]) + 3
      /\ \A i \in 1..Len(wire[c]) + 3 :
            r[i] = IF i <= Len(wire[c]) THEN wire[c][i] ELSE q[i - Len(wire[c])]
  <2>1. PICK w : w = wire[c] /\ w \in Seq(Cells) /\ r = w \o q
    BY <1>1, <1>4
  <2>2. /\ Len(r) = Len(w) + Len(q)
        /\ \A i \in 1..Len(w) + Len(q) : r[i] = IF i <= Len(w) THEN w[i] ELSE q[i - Len(w)]
    BY ONLY <1>6, <2>1, ConcatProperties
  <2> QED
    BY <1>6, <2>1, <2>2
<1>8. \A d \in Clients \ {c} : Apart(d)
  BY <1>2, <1>3 DEF Apart
<1>9. ASSUME Exchange(c) PROVE Exchange(c)'
  <2>1. PICK t, w, n : t = Taken(c) /\ w = wire[c] /\ n = sent[c]
    OBVIOUS
  <2>2. /\ t <= n /\ Len(w) = 3 * (n - t)
        /\ \A j \in 1..Len(w) : Place(w[j]) = 3 * t + j
    BY <1>9, <2>1 DEF Exchange
  <2>3. Taken(c)' = t
    BY <1>2, <2>1 DEF Taken
  <2>4. wire'[c] = r /\ sent'[c] = n + 1
    BY <1>2, <1>3, <2>1
  <2>5. \A j \in 1..Len(r) : Place(r[j]) = 3 * t + j
    <3> SUFFICES ASSUME NEW j \in 1..Len(r) PROVE Place(r[j]) = 3 * t + j
      OBVIOUS
    <3>0. t \in Nat /\ n \in Nat /\ Len(w) \in Nat /\ j \in 1..Len(w) + 3
      BY <1>4, <1>7, <2>1
    <3>1. CASE j <= Len(w)
      <4>1. r[j] = w[j] /\ j \in 1..Len(w)
        BY <1>7, <2>1, <3>0, <3>1
      <4> QED
        BY <2>2, <4>1
    <3>2. CASE ~(j <= Len(w))
      <4>1. PICK k : k = j - Len(w)
        OBVIOUS
      <4>2. k \in 1..3 /\ j = Len(w) + k
        BY ONLY <3>0, <3>2, <4>1
      <4>3. r[j] = q[k]
        BY <1>7, <2>1, <3>0, <3>2, <4>1
      <4>4. Place(r[j]) = 3 * ((n + 1) - 1) + k
        BY <1>6, <2>1, <4>2, <4>3
      <4> QED
        BY ONLY <2>2, <3>0, <4>2, <4>4
    <3> QED
      BY <3>1, <3>2
  <2>6. Len(r) = 3 * ((n + 1) - t) /\ t <= n + 1
    BY <1>4, <1>7, <2>1, <2>2
  <2>7. /\ buffer'[c] = <<>> /\ \A i \in 1..Len(answers'[c]) : answers'[c][i].req = i
        /\ lclient' = c => lreq' = Len(answers'[c]) + 1
    BY <1>2, <1>9 DEF Exchange
  <2> QED
    BY <2>3, <2>4, <2>5, <2>6, <2>7 DEF Exchange
<1> QED
  BY <1>2, <1>8, <1>9, ApartExchange DEF ExchangeInv

(* A whole request in an empty buffer is parsed as what it is.             *)
LEMMA WholeParsed ==
    ASSUME NEW n \in Requests, NEW q, q = Request(n), NEW b, b = <<>> \o q
    PROVE  Whole(b) /\ \A x \in Parsings(b) : x.req = n
<1>1. /\ q \in Seq(Cells) /\ Len(q) = 3
      /\ \A k \in 1..3 : q[k].req = n /\ q[k].part = k
  BY RequestCells
<1>2. b = q
  BY ONLY <1>1, b = <<>> \o q, ConcatEmptySeq
<1>3. q[2] \in Cells
  BY <1>1, ElementOfSeq
<1>4. Whole(b)
  <2>1. q[2] = [req |-> q[2].req, part |-> q[2].part]
    BY <1>3 DEF Cells
  <2>2. q[1].part = 1 /\ q[1].req = n /\ q[2].req = n /\ q[2].part = 2
    BY <1>1
  <2>3. Len(q) > 1 /\ q[2] = [req |-> q[1].req, part |-> 2]
    BY <1>1, <2>1, <2>2
  <2> QED
    BY ONLY <1>2, <2>2, <2>3 DEF Whole
<1>5. b[1].req = n
  BY <1>1, <1>2
<1> QED
  BY <1>4, <1>5 DEF Parsings

(* on_client_read: a read that brings a whole request takes the next one.  *)
LEMMA ReadExchange ==
    ASSUME IInv, ExchangeInv, NEW c \in Clients, NEW n \in 1..Len(wire[c]), OnClientRead(c, n)
    PROVE  ExchangeInv'
<1>1. PICK data, b, left : /\ data = SubSeq(wire[c], 1, n)
                           /\ left = SubSeq(wire[c], n + 1, Len(wire[c]))
                           /\ b = buffer[c] \o data
  OBVIOUS
<1>2. /\ wire' = [wire EXCEPT ![c] = left]
      /\ clean' = [clean EXCEPT ![c] = clean[c] /\ \E r \in Requests : data = Request(r)]
      /\ \/ /\ \E x \in Parsings(b) : lreq' = x.req
            /\ lclient' = c /\ buffer' = [buffer EXCEPT ![c] = AfterRequest(b)]
         \/ /\ ~Whole(b) /\ buffer' = [buffer EXCEPT ![c] = b] /\ UNCHANGED <<lclient, lreq>>
      /\ UNCHANGED <<conn, sent, answers>>
  BY <1>1 DEF OnClientRead
<1>3. lclient = None /\ None \notin Clients /\ conn[c] = "open"
  BY ClientsAssumption DEF OnClientRead, LoopIdle
<1>4. /\ wire \in [Clients -> Seq(Cells)] /\ buffer \in [Clients -> Seq(Cells)]
      /\ clean \in [Clients -> BOOLEAN]
  BY DEF IInv, Buffers, ExchangeInv
<1>5. \A d \in Clients \ {c} : Apart(d) /\ clean'[d] = clean[d]
  <2> SUFFICES ASSUME NEW d \in Clients \ {c} PROVE Apart(d) /\ clean'[d] = clean[d]
    OBVIOUS
  <2>1. /\ wire'[d] = wire[d] /\ buffer'[d] = buffer[d] /\ clean'[d] = clean[d]
        /\ sent'[d] = sent[d] /\ answers'[d] = answers[d]
    BY <1>2, <1>4
  <2>2. lclient # d /\ lclient' # d
    BY <1>2, <1>3
  <2> QED
    BY <2>1, <2>2 DEF Apart
<1>6. /\ sent[c] \in Nat /\ Len(answers[c]) \in Nat /\ Taken(c) = Len(answers[c])
      /\ wire[c] \in Seq(Cells) /\ Len(wire[c]) \in Nat
  <2>1. /\ sent[c] \in Nat /\ Len(answers[c]) \in Nat
        /\ wire[c] \in Seq(Cells) /\ Len(wire[c]) \in Nat
    BY Counts
  <2>2. Taken(c) = Len(answers[c]) + 0
    BY <1>3 DEF Taken
  <2> QED
    BY <2>1, <2>2
<1>7. /\ data \in Seq(Cells) /\ Len(data) = n
      /\ left \in Seq(Cells) /\ left = [i \in 1..Len(wire[c]) - n |-> wire[c][i + n]]
  <2>1. PICK w : w = wire[c]
    OBVIOUS
  <2>2. w \in Seq(Cells) /\ n \in 1..Len(w)
    BY <1>6, <2>1
  <2>3. /\ SubSeq(w, 1, n) \in Seq(Cells) /\ Len(SubSeq(w, 1, n)) = n
        /\ SubSeq(w, n + 1, Len(w)) \in Seq(Cells)
        /\ SubSeq(w, n + 1, Len(w)) = [i \in 1..Len(w) - n |-> w[i + n]]
    BY ONLY <2>2, Pieces
  <2>4. data = SubSeq(w, 1, n) /\ left = SubSeq(w, n + 1, Len(w))
    BY <1>1, <2>1
  <2> QED
    BY ONLY <2>1, <2>3, <2>4
<1>8. ASSUME clean'[c] PROVE Exchange(c)'
  <2>1. PICK r \in Requests : data = Request(r)
    BY <1>2, <1>4, <1>8
  <2>2. Exchange(c)
    BY <1>2, <1>3, <1>4, <1>8 DEF ExchangeInv
  <2>3. PICK t, w, m : t = Len(answers[c]) /\ w = wire[c] /\ m = sent[c]
    OBVIOUS
  <2>4. /\ t <= m /\ Len(w) = 3 * (m - t) /\ buffer[c] = <<>>
        /\ \A j \in 1..Len(w) : Place(w[j]) = 3 * t + j
        /\ \A i \in 1..t : answers[c][i].req = i
    BY <1>6, <2>2, <2>3 DEF Exchange
  <2>5. Whole(b) /\ \A x \in Parsings(b) : x.req = r
    <3>1. b = <<>> \o data
      BY <1>1, <2>4
    <3> QED
      BY ONLY <2>1, <3>1, WholeParsed
  <2>6. n = 3 /\ Place(data[1]) = 3 * (r - 1) + 1
    <3>1. /\ Len(data) = 3
          /\ \A k \in 1..3 : Place(data[k]) = 3 * (r - 1) + k
      BY <2>1, RequestCells
    <3> QED
      BY <1>7, <3>1
  <2>7. data[1] = w[1] /\ 1 \in 1..Len(w)
    BY <1>1, <1>6, <2>3
  <2>8. r = t + 1
    <3>1. 3 * t + 1 = 3 * (r - 1) + 1
      BY <2>4, <2>6, <2>7
    <3>2. r \in Nat /\ t \in Nat
      BY <1>6, <2>3, SizesAssumption DEF Requests
    <3> QED
      BY ONLY <3>1, <3>2
  <2>9. /\ lclient' = c /\ lreq' = t + 1 /\ buffer'[c] = <<>> /\ wire'[c] = left
        /\ sent'[c] = m /\ answers'[c] = answers[c]
    BY <1>2, <1>4, <2>3, <2>5, <2>8 DEF AfterRequest
  <2>10. Taken(c)' = t + 1
    BY <2>3, <2>9 DEF Taken
  <2>11. left = [i \in 1..Len(w) - 3 |-> w[i + 3]] /\ left \in Seq(Cells)
    BY <1>7, <2>3, <2>6
  <2>12. t \in Nat /\ m \in Nat /\ Len(w) \in Nat /\ 3 <= Len(w)
    BY <1>6, <2>3, <2>6
  <2>13. Len(left) = Len(w) - 3
    BY <2>11, <2>12, LenProperties
  <2>14. Len(left) = 3 * (m - (t + 1)) /\ t + 1 <= m
    BY ONLY <2>4, <2>12, <2>13
  <2>15. \A j \in 1..Len(left) : Place(left[j]) = 3 * (t + 1) + j
    <3> SUFFICES ASSUME NEW j \in 1..Len(left) PROVE Place(left[j]) = 3 * (t + 1) + j
      OBVIOUS
    <3>1. left[j] = w[j + 3]
      BY <2>11, <2>13
    <3>2. j + 3 \in 1..Len(w)
      BY <2>12, <2>13
    <3>3. Place(left[j]) = 3 * t + (j + 3)
      BY <2>4, <3>1, <3>2
    <3> QED
      BY <2>12, <2>13, <3>3
  <2> QED
    BY <2>3, <2>4, <2>9, <2>10, <2>14, <2>15 DEF Exchange
<1>9. clean' \in [Clients -> BOOLEAN]
  BY <1>2, <1>4
<1> QED
  BY <1>2, <1>5, <1>8, <1>9, ApartExchange DEF ExchangeInv

(* The request that was taken last is answered.                            *)
LEMMA RespondExchange ==
    ASSUME IInv, ExchangeInv, Respond
    PROVE  ExchangeInv'
<1>1. CASE UNCHANGED <<conn, buffer, wire, sent, answers, lclient, lreq, clean>>
  BY <1>1, KeepsExchange
<1>2. CASE ~UNCHANGED <<conn, buffer, wire, sent, answers, lclient, lreq, clean>>
  <2>1. PICK a, c : a = [req |-> lreq, route |-> lroute] /\ c = lclient
    OBVIOUS
  <2>2. /\ \/ answers' = [answers EXCEPT ![c] = Append(answers[c], a)] /\ UNCHANGED clean
           \/ clean' = [clean EXCEPT ![c] = FALSE] /\ UNCHANGED answers
        /\ lclient' = None /\ UNCHANGED <<conn, buffer, wire, sent>>
    BY <1>2, <2>1 DEF Respond, Faults
  <2>3. c \in Clients /\ None \notin Clients /\ lroute \in Nat /\ lreq \in Requests \cup {Garbled}
    BY <2>1, ClientsAssumption DEF Respond, IInv, Looked
  <2>4. answers \in [Clients -> Seq(Answers)] /\ clean \in [Clients -> BOOLEAN]
    BY DEF IInv, Answered, ExchangeInv
  <2>5. \A d \in Clients \ {c} : Apart(d) /\ clean'[d] = clean[d]
    BY <2>1, <2>2, <2>3, <2>4 DEF Apart
  <2>6. clean' \in [Clients -> BOOLEAN]
    BY <2>2, <2>4
  <2>7. ASSUME Exchange(c), clean'[c] PROVE Exchange(c)'
    <3>1. PICK s, r : s = answers[c] /\ r = Append(s, a)
      OBVIOUS
    <3>2. answers' = [answers EXCEPT ![c] = r]
      BY <2>2, <2>3, <2>4, <2>7, <3>1
    <3>3. a \in Answers /\ a.req = lreq /\ s \in Seq(Answers)
      BY <2>1, <2>3, <2>4, <3>1 DEF Answers
    <3>4. /\ Len(s) \in Nat /\ Len(r) = Len(s) + 1 /\ r[Len(s) + 1] = a
          /\ \A i \in 1..Len(s) : r[i] = s[i]
      BY ONLY <3>1, <3>3, AppendProperties, LenProperties
    <3>5. answers'[c] = r
      BY <2>3, <2>4, <3>2
    <3>6. Taken(c) = Len(s) + 1 /\ Taken(c)' = Len(s) + 1
      <4>1. Taken(c) = Len(s) + 1
        BY <2>1, <3>1 DEF Taken
      <4>2. lclient' # c
        BY <2>2, <2>3
      <4>3. Taken(c)' = Len(r) + 0
        BY <3>5, <4>2 DEF Taken
      <4> QED
        BY <3>4, <4>1, <4>3
    <3>7. lreq = Len(s) + 1 /\ \A i \in 1..Len(s) : s[i].req = i
      BY <2>1, <2>7, <3>1 DEF Exchange
    <3>8. \A i \in 1..Len(r) : r[i].req = i
      <4> SUFFICES ASSUME NEW i \in 1..Len(r) PROVE r[i].req = i
        OBVIOUS
      <4>1. CASE i = Len(s) + 1
        BY <3>3, <3>4, <3>7, <4>1
      <4>2. CASE i \in 1..Len(s)
        BY <3>4, <3>7, <4>2
      <4> QED
        BY <3>4, <4>1, <4>2
    <3>9. lclient' # c /\ Taken(c)' = Taken(c)
      BY <2>2, <2>3, <3>6
    <3> QED
      BY <2>2, <2>7, <3>5, <3>8, <3>9 DEF Exchange
  <2>8. clean'[c] => clean[c]
    BY <2>2, <2>3, <2>4
  <2> QED
    BY <2>2, <2>5, <2>6, <2>7, <2>8, ApartExchange DEF ExchangeInv
<1> QED
  BY <1>1, <1>2

LEMMA StepExchange == IInv /\ ExchangeInv /\ [Next]_vars => ExchangeInv'
<1> SUFFICES ASSUME IInv, ExchangeInv, [Next]_vars PROVE ExchangeInv'
  OBVIOUS
<1>0. conn \in [Clients -> {"none", "open", "closing", "freed"}]
  BY DEF IInv, Buffers
<1>1. CASE UNCHANGED <<conn, buffer, wire, sent, answers, lclient, lreq, clean>>
  BY <1>1, KeepsExchange
<1>2. CASE ModuleInit \/ Start \/ Stop \/ Cleanup \/ OnNewConnectionFails \/ ClearRoutes
  BY <1>1, <1>2 DEF ModuleInit, Start, Stop, Cleanup, OnNewConnectionFails, ClearRoutes, Faults
<1>3. CASE \E p \in Paths : AddRoute(p) \/ RemoveRoute(p)
  BY <1>1, <1>3 DEF AddRoute, RemoveRoute
<1>4. CASE \E c \in Clients : OnNewConnection(c) \/ OnReadError(c)
  <2>1. PICK c \in Clients : /\ \/ conn' = [conn EXCEPT ![c] = "open"] /\ conn[c] = "none"
                                \/ conn' = [conn EXCEPT ![c] = "closing"]
                             /\ UNCHANGED <<buffer, wire, sent, answers, lclient, lreq, clean>>
    BY <1>4 DEF OnNewConnection, OnReadError, StartClose
  <2>2. \A d \in Clients : conn'[d] \in {"none", "open"} => conn[d] \in {"none", "open"}
    BY <1>0, <2>1
  <2> QED
    BY <2>1, <2>2, KeepsExchange
<1>5. CASE \E c \in Clients : SendRequest(c)
  BY <1>5, SendExchange
<1>6. CASE \E c \in Clients : OnClientClose(c)
  <2>1. PICK c \in Clients : OnClientClose(c)
    BY <1>6
  <2>2. /\ conn' = [conn EXCEPT ![c] = "freed"] /\ wire' = [wire EXCEPT ![c] = <<>>]
        /\ buffer' = [buffer EXCEPT ![c] = <<>>]
        /\ UNCHANGED <<sent, answers, lclient, lreq, clean>>
    BY <2>1 DEF OnClientClose
  <2>3. wire \in [Clients -> Seq(Cells)] /\ buffer \in [Clients -> Seq(Cells)]
    BY DEF IInv, Buffers
  <2>4. \A d \in Clients \ {c} : Apart(d) /\ conn'[d] = conn[d]
    BY <1>0, <2>2, <2>3 DEF Apart
  <2>5. conn'[c] = "freed"
    BY <1>0, <2>2
  <2> QED
    BY <2>2, <2>4, <2>5, ApartExchange DEF ExchangeInv
<1>7. CASE \E c \in Clients : \E n \in 1..Len(wire[c]) : OnClientRead(c, n)
  <2>1. PICK c \in Clients : \E n \in 1..Len(wire[c]) : OnClientRead(c, n)
    BY <1>7
  <2>2. PICK n \in 1..Len(wire[c]) : OnClientRead(c, n)
    BY <2>1
  <2> QED
    BY <2>2, ReadExchange
<1>8. CASE \E c \in Clients : \E n \in 1..Len(wire[c]) : OnClientReadFails(c, n)
  <2>1. PICK c \in Clients : /\ conn' = conn \/ conn' = [conn EXCEPT ![c] = "closing"]
                             /\ UNCHANGED <<buffer, wire, sent, answers, lclient, lreq, clean>>
    BY <1>8 DEF OnClientReadFails, StartClose, Faults
  <2>2. \A d \in Clients : conn'[d] \in {"none", "open"} => conn[d] \in {"none", "open"}
    BY <1>0, <2>1
  <2> QED
    BY <2>1, <2>2, KeepsExchange
<1>9. CASE Respond
  BY <1>9, RespondExchange
<1>10. CASE UNCHANGED vars
  BY <1>1, <1>10 DEF vars
<1> QED
  BY <1>2, <1>3, <1>4, <1>5, <1>6, <1>7, <1>8, <1>9, <1>10 DEF Next

LEMMA InitExchange == Init => ExchangeInv
<1> SUFFICES ASSUME Init PROVE ExchangeInv
  OBVIOUS
<1>1. clean \in [Clients -> BOOLEAN] /\ lclient = None /\ None \notin Clients
  BY ClientsAssumption DEF Init
<1>2. ASSUME NEW c \in Clients PROVE Exchange(c)
  <2>1. /\ buffer[c] = <<>> /\ sent[c] = 0 /\ wire[c] = <<>> /\ answers[c] = <<>>
        /\ Len(<<>>) = 0
    BY DEF Init
  <2>2. Taken(c) = 0
    BY <1>1, <2>1 DEF Taken
  <2>3. \A j \in 1..0 : FALSE
    OBVIOUS
  <2> QED
    BY <1>1, <2>1, <2>2, <2>3 DEF Exchange
<1> QED
  BY <1>1, <1>2 DEF ExchangeInv

(* on_client_read and send_response: a client whose requests come in one   *)
(* piece each is answered once per request and in their order, for any     *)
(* number of requests, clients and route changes between them.             *)
THEOREM AnswersCorrect == Spec => []AnsweredOnce
<1>1. IInv /\ ExchangeInv => AnsweredOnce
  <2> SUFFICES ASSUME IInv, ExchangeInv, NEW c \in Clients, clean[c], conn[c] = "open"
               PROVE  /\ \A i \in DOMAIN answers[c] : answers[c][i].req = i
                      /\ Len(answers[c]) + (IF lclient = c THEN 1 ELSE 0)
                         = sent[c] - (Len(wire[c]) \div 3)
    BY DEF AnsweredOnce
  <2>1. Exchange(c)
    BY DEF ExchangeInv
  <2>2. /\ sent[c] \in Nat /\ Taken(c) \in Nat /\ Len(wire[c]) \in Nat
        /\ DOMAIN answers[c] = 1..Len(answers[c])
    BY Counts
  <2>3. Taken(c) <= sent[c] /\ Len(wire[c]) = 3 * (sent[c] - Taken(c))
    BY <2>1 DEF Exchange
  <2>4. Taken(c) = sent[c] - (Len(wire[c]) \div 3)
    BY ONLY <2>2, <2>3, SMTT(40)
  <2> QED
    BY <2>1, <2>2, <2>4 DEF Exchange, Taken
<1> QED
  BY <1>1, InitExchange, StepExchange, InvariantHolds, PTL DEF Spec
=============================================================================
