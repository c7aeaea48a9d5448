--------------------------- MODULE MemoryPoolProofs ---------------------------
(***************************************************************************)
(* Proofs about MemoryPool, for every number of size classes and threads,  *)
(* all block sizes and request sizes, and every bound.                     *)
(***************************************************************************)
EXTENDS MemoryPool, FiniteSetTheorems, FunctionTheorems, SequenceTheorems,
        WellFoundedInduction, TLAPS

Elements(q) == {q[n] : n \in DOMAIN q}
Distinct(q) == \A m, n \in DOMAIN q : q[m] = q[n] => m = n

Ops == {"none", "alloc", "realloc", "free"}
Counters == [allocation_count : Nat, free_count : Nat]

(* The values of the variables; blocks that are linked, held or about to be*)
(* handed out have been obtained from malloc.                              *)
Types ==
    /\ pool \in {"null", "live", "freed"}
    /\ state \in {"UNINITIALIZED", "INITIALIZED", "STARTED", "STOPPED", "ERROR"}
    /\ made \in 0..MaxBlocks
    /\ block_size \in [Classes -> Nat] /\ free_list \in [Classes -> Seq(1..made)]
    /\ free_blocks \in [Classes -> Nat] /\ total_blocks \in [Classes -> Nat]
    /\ origin \in [Blocks -> Classes \cup {System}] /\ capacity \in [Blocks -> Nat]
    /\ asked \in [Blocks -> Nat]
    /\ held \in [Threads -> SUBSET (1..made)] /\ got \in [Threads -> 0..made]
    /\ tpc \in [Threads -> TPCs] /\ want \in [Threads -> Nat]
    /\ call \in [Threads -> [op : Ops, size : Nat, old : 0..made]]
    /\ stats \in Counters /\ reg \in [Threads -> Counters] /\ overlap \in BOOLEAN

Counts == \A c \in Classes : free_blocks[c] = Len(free_list[c])

Carrying == {"load", "store", "return"}
Allocating == {"pop", "plan", "grow", "take", "malloc"} \cup Carrying

(* What a thread has in its hands at each step of its call.                *)
WorkOf(t) ==
    /\ tpc[t] \in Carrying => got[t] # None
    /\ tpc[t] \notin Carrying \cup {"lost"} => got[t] = None
    /\ tpc[t] \in Allocating /\ call[t].op = "realloc" => call[t].old \in held[t]
    /\ tpc[t] = "give" => call[t].old \in held[t]
    /\ tpc[t] \in {"plan", "grow", "take"} => Fitting(call[t].size) # {}
    /\ tpc[t] = "lost" => pool = "freed"

Work == \A t \in Threads : WorkOf(t)

(* Nobody calls the module before start has returned.                      *)
Quiet ==
    /\ pool = "null" =>
          /\ state \in {"UNINITIALIZED", "ERROR"} /\ stats = ZeroStats
          /\ \A c \in Classes : free_list[c] = <<>>
          /\ state = "UNINITIALIZED" => made = 0
    /\ pool = "live" => state # "UNINITIALIZED"
    /\ state = "INITIALIZED" =>
          /\ pool = "live" /\ \A c \in Classes : block_size[c] = 0 => free_list[c] = <<>>
    /\ state \in {"UNINITIALIZED", "INITIALIZED"} /\ pool # "freed" =>
          \A t \in Threads : held[t] = {} /\ tpc[t] = "idle"

Linked(c) == Elements(free_list[c])

(* Every block has one owner: a place on one free list, a caller, or a     *)
(* thread that is about to return it.                                      *)
Owner ==
    pool = "live" =>
        /\ \A c \in Classes : Distinct(free_list[c])
        /\ \A c, d \in Classes : c # d => Linked(c) \cap Linked(d) = {}
        /\ \A c \in Classes, t \in Threads :
              held[t] \cap Linked(c) = {} /\ got[t] \notin Linked(c)
        /\ \A t, u \in Threads :
              /\ got[t] \notin held[u]
              /\ t # u => held[t] \cap held[u] = {}
              /\ t # u /\ got[t] # None => got[t] # got[u]
        /\ \A b \in 1..made : \/ \E c \in Classes : b \in Linked(c)
                              \/ \E t \in Threads : b \in held[t] \/ got[t] = b

(* Block b is as good for a request of n bytes as BlockFits asks for.      *)
Good(b, n) == origin[b] # System /\ capacity[b] > 0 => capacity[b] >= n

Fits ==
    /\ \A b \in Blocks : origin[b] # System => capacity[b] \in {0, BlockSize[origin[b]]}
    /\ \A c \in Classes : block_size[c] \in {0, BlockSize[c]}
    /\ \A c \in Classes : \A b \in Linked(c) : Good(b, BlockSize[c])
    /\ \A t \in Threads : tpc[t] \in Carrying => Good(got[t], call[t].size)
    /\ BlockFits

Storing == {"store", "free_store"}
Due == {t \in Threads : tpc[t] \in {"return", "free_load", "free_store"}}
Owned == UNION {held[t] : t \in Threads}

(* Without overlap the loaded statistics are current, and they are ahead   *)
(* of what callers hold by the calls that have counted a block and not yet *)
(* returned it, or taken a block back and not yet counted it.              *)
Exact ==
    ~overlap =>
        /\ \A t, u \in Threads : tpc[t] \in Storing /\ tpc[u] \in Storing => t = u
        /\ \A t \in Threads : tpc[t] \in Storing => reg[t] = stats
        /\ pool = "live" =>
              stats.allocation_count - stats.free_count = Cardinality(Owned) + Cardinality(Due)

IInv == Types /\ Counts /\ Work /\ Quiet /\ Owner /\ Fits /\ Exact

-----------------------------------------------------------------------------
(* The operators of the model.                                             *)

(* The constants.                                                          *)
LEMMA Constants ==
    /\ NumClasses \in Nat /\ NumClasses >= 1 /\ 1 \in Classes /\ Classes \subseteq Nat
    /\ System = 0 /\ None = 0 /\ System \notin Classes
    /\ BlockSize \in [Classes -> Nat \ {0}] /\ InitialBlocks \in [Classes -> Nat \ {0}]
    /\ \A c, d \in Classes : c < d => BlockSize[c] < BlockSize[d]
    /\ \A c \in Classes : BlockSize[1] <= BlockSize[c]
    /\ Sizes \subseteq Nat /\ MaxBlocks \in Nat /\ Blocks = 1..MaxBlocks
    /\ IsFiniteSet(Threads)
<1>1. /\ NumClasses \in Nat /\ NumClasses >= 1 /\ 1 \in Classes /\ Classes \subseteq Nat
      /\ System = 0 /\ None = 0 /\ System \notin Classes
  BY ClassAssumption DEF Classes, System, None
<1>2. /\ BlockSize \in [Classes -> Nat \ {0}] /\ InitialBlocks \in [Classes -> Nat \ {0}]
      /\ \A c, d \in Classes : c < d => BlockSize[c] < BlockSize[d]
  BY ClassAssumption
<1>3. \A c \in Classes : BlockSize[1] <= BlockSize[c]
  <2> SUFFICES ASSUME NEW c \in Classes PROVE BlockSize[1] <= BlockSize[c]
    OBVIOUS
  <2>1. BlockSize[1] \in Nat /\ BlockSize[c] \in Nat
    BY <1>1, <1>2
  <2>2. c = 1 \/ 1 < c
    BY <1>1 DEF Classes
  <2> QED
    BY <1>1, <1>2, <2>1, <2>2
<1> QED
  BY <1>1, <1>2, <1>3, SizesAssumption, BoundAssumption, ThreadsAssumption DEF Blocks

(* A set of natural numbers has a least element.                           *)
LEMMA LeastNat ==
    ASSUME NEW T, T \subseteq Nat, T # {}
    PROVE  \E x \in T : \A y \in T : x <= y
<1>1. PICK x \in T : \A y \in T : <<y, x>> \notin OpToRel(<, Nat)
  BY WFMin, NatLessThanWellFounded
<1>2. \A y \in T : <<y, x>> \notin {ss \in Nat \X Nat : ss[1] < ss[2]}
  BY <1>1 DEF OpToRel
<1>3. \A y \in T : ~(y < x)
  BY <1>2
<1> QED
  BY <1>3

(* select_memory_pool finds a class that is large enough if there is one.  *)
LEMMA SelectedFits ==
    ASSUME NEW t \in Threads
    PROVE  /\ Selected(t) # System => pool = "live" /\ Fitting(call[t].size) # {}
           /\ pool = "live" /\ Fitting(call[t].size) # {} =>
                 /\ Selected(t) \in Classes /\ Selected(t) # System
                 /\ call[t].size <= BlockSize[Selected(t)]
<1> DEFINE F == Fitting(call[t].size)
<1>1. F \subseteq Classes /\ F \subseteq Nat /\ \A c \in F : call[t].size <= BlockSize[c]
  BY Constants DEF Fitting
<1>2. CASE pool = "live" /\ F # {}
  <2>1. \E c \in F : \A d \in F : c <= d
    BY <1>1, <1>2, LeastNat
  <2>2. Selected(t) = CHOOSE c \in F : \A d \in F : c <= d
    BY <1>2 DEF Selected, SelectPool
  <2>3. Selected(t) \in F
    BY <2>1, <2>2
  <2> QED
    BY <1>1, <1>2, <2>3, Constants
<1>3. CASE ~(pool = "live" /\ F # {})
  BY <1>3 DEF Selected, SelectPool
<1> QED
  BY <1>2, <1>3

(* Taking the head off a free list.                                        *)
LEMMA TailElements ==
    ASSUME NEW S, NEW q \in Seq(S), q # <<>>, Distinct(q)
    PROVE  /\ Distinct(Tail(q)) /\ Head(q) \in Elements(q)
           /\ Elements(Tail(q)) = Elements(q) \ {Head(q)}
<1>1. /\ Len(q) \in Nat /\ Len(q) >= 1 /\ DOMAIN q = 1..Len(q) /\ Head(q) = q[1]
      /\ Tail(q) \in Seq(S) /\ Len(Tail(q)) = Len(q) - 1
      /\ \A n \in 1..Len(Tail(q)) : Tail(q)[n] = q[n + 1]
      /\ DOMAIN Tail(q) = 1..Len(Tail(q))
  BY HeadTailProperties, LenProperties
<1>2. Distinct(Tail(q))
  BY <1>1 DEF Distinct
<1>3. Head(q) \in Elements(q)
  BY <1>1 DEF Elements
<1>4. \A x : x \in Elements(Tail(q)) => x \in Elements(q) \ {Head(q)}
  <2> SUFFICES ASSUME NEW n \in 1..Len(Tail(q)) PROVE Tail(q)[n] \in Elements(q) \ {Head(q)}
    BY <1>1 DEF Elements
  <2>1. n + 1 \in DOMAIN q /\ n + 1 # 1 /\ 1 \in DOMAIN q
    BY <1>1
  <2> QED
    BY <1>1, <2>1 DEF Elements, Distinct
<1>5. \A x : x \in Elements(q) \ {Head(q)} => x \in Elements(Tail(q))
  <2> SUFFICES ASSUME NEW n \in DOMAIN q, q[n] # Head(q) PROVE q[n] \in Elements(Tail(q))
    BY DEF Elements
  <2>1. n - 1 \in 1..Len(Tail(q)) /\ Tail(q)[n - 1] = q[n]
    BY <1>1
  <2> QED
    BY <1>1, <2>1 DEF Elements
<1> QED
  BY <1>2, <1>3, <1>4, <1>5

(* Putting blocks that are not on it in front of a free list.              *)
LEMMA ConcatElements ==
    ASSUME NEW S, NEW p \in Seq(S), NEW q \in Seq(S), Distinct(p), Distinct(q),
           Elements(p) \cap Elements(q) = {}
    PROVE  /\ p \o q \in Seq(S) /\ Len(p \o q) = Len(p) + Len(q)
           /\ Distinct(p \o q) /\ Elements(p \o q) = Elements(p) \cup Elements(q)
<1> DEFINE r == p \o q
<1>1. /\ Len(p) \in Nat /\ Len(q) \in Nat /\ DOMAIN p = 1..Len(p) /\ DOMAIN q = 1..Len(q)
      /\ r \in Seq(S) /\ Len(r) = Len(p) + Len(q) /\ DOMAIN r = 1..(Len(p) + Len(q))
      /\ \A n \in 1..(Len(p) + Len(q)) : r[n] = IF n <= Len(p) THEN p[n] ELSE q[n - Len(p)]
  BY ConcatProperties, LenProperties
<1>2. \A n \in DOMAIN r : \/ n \in DOMAIN p /\ r[n] = p[n]
                          \/ n - Len(p) \in DOMAIN q /\ r[n] = q[n - Len(p)] /\ n > Len(p)
  BY <1>1
<1>3. /\ \A n \in DOMAIN p : n \in DOMAIN r /\ r[n] = p[n]
      /\ \A n \in DOMAIN q : n + Len(p) \in DOMAIN r /\ r[n + Len(p)] = q[n]
  BY <1>1
<1>4. Distinct(r)
  <2> SUFFICES ASSUME NEW m \in DOMAIN r, NEW n \in DOMAIN r, r[m] = r[n] PROVE m = n
    BY DEF Distinct
  <2>1. CASE m \in DOMAIN p /\ n \in DOMAIN p
    BY <1>3, <2>1 DEF Distinct
  <2>2. CASE m \in DOMAIN p /\ n \notin DOMAIN p
    <3>1. r[m] = p[m] /\ n - Len(p) \in DOMAIN q /\ r[n] = q[n - Len(p)]
      BY <1>2, <1>3, <2>2
    <3>2. r[m] \in Elements(p) /\ r[n] \in Elements(q)
      BY <2>2, <3>1 DEF Elements
    <3> QED
      BY <3>2
  <2>3. CASE n \in DOMAIN p /\ m \notin DOMAIN p
    <3>1. r[n] = p[n] /\ m - Len(p) \in DOMAIN q /\ r[m] = q[m - Len(p)]
      BY <1>2, <1>3, <2>3
    <3>2. r[n] \in Elements(p) /\ r[m] \in Elements(q)
      BY <2>3, <3>1 DEF Elements
    <3> QED
      BY <3>2
  <2>4. CASE m \notin DOMAIN p /\ n \notin DOMAIN p
    <3>1. /\ m - Len(p) \in DOMAIN q /\ n - Len(p) \in DOMAIN q
          /\ q[m - Len(p)] = q[n - Len(p)]
      BY <1>2, <2>4
    <3>2. m - Len(p) = n - Len(p)
      BY <3>1 DEF Distinct
    <3> QED
      BY <1>1, <3>2
  <2> QED
    BY <2>1, <2>2, <2>3, <2>4
<1>5. \A x : x \in Elements(r) => x \in Elements(p) \cup Elements(q)
  BY <1>2 DEF Elements
<1>6. \A x : x \in Elements(p) \cup Elements(q) => x \in Elements(r)
  <2>1. ASSUME NEW n \in DOMAIN p PROVE p[n] \in Elements(r)
    BY <1>3 DEF Elements
  <2>2. ASSUME NEW n \in DOMAIN q PROVE q[n] \in Elements(r)
    <3>1. n + Len(p) \in DOMAIN r /\ r[n + Len(p)] = q[n]
      BY <1>3
    <3> QED
      BY <3>1 DEF Elements
  <2> QED
    BY <2>1, <2>2 DEF Elements
<1> QED
  BY <1>1, <1>4, <1>5, <1>6

(* A block linked in front.                                                *)
LEMMA OneElement ==
    ASSUME NEW S, NEW b \in S
    PROVE  <<b>> \in Seq(S) /\ Len(<<b>>) = 1 /\ Distinct(<<b>>) /\ Elements(<<b>>) = {b}
  BY DEF Distinct, Elements

(* The blocks that memory_pool_expand_pool links.                          *)
LEMMA FreshElements ==
    ASSUME NEW n \in Nat, made \in Nat
    PROVE  /\ Fresh(n) \in Seq(1..(made + n)) /\ Len(Fresh(n)) = n
           /\ Distinct(Fresh(n)) /\ Elements(Fresh(n)) = (made + 1)..(made + n)
<1>1. DOMAIN Fresh(n) = 1..n /\ \A k \in 1..n : Fresh(n)[k] = made + n + 1 - k
  BY DEF Fresh
<1>2. \A k \in 1..n : made + n + 1 - k \in (made + 1)..(made + n)
  OBVIOUS
<1>3. Fresh(n) \in Seq(1..(made + n)) /\ Len(Fresh(n)) = n
  <2>1. \A k \in 1..n : made + n + 1 - k \in 1..(made + n)
    OBVIOUS
  <2> QED
    BY <2>1 DEF Fresh
<1>4. Distinct(Fresh(n))
  BY <1>1 DEF Distinct
<1>5. \A x \in (made + 1)..(made + n) : x \in Elements(Fresh(n))
  <2> SUFFICES ASSUME NEW x \in (made + 1)..(made + n) PROVE x \in Elements(Fresh(n))
    OBVIOUS
  <2>1. made + n + 1 - x \in 1..n /\ made + n + 1 - (made + n + 1 - x) = x
    OBVIOUS
  <2> QED
    BY <1>1, <2>1 DEF Elements
<1>6. \A x \in Elements(Fresh(n)) : x \in (made + 1)..(made + n)
  BY <1>1, <1>2 DEF Elements
<1> QED
  BY <1>3, <1>4, <1>5, <1>6

-----------------------------------------------------------------------------
(* What a step leaves alone.                                               *)

USE DEF pools, heap

(* Nothing changes hands.                                                  *)
LEMMA OwnerStays ==
    ASSUME Counts, Owner, UNCHANGED <<pool, free_list, free_blocks, held, got, made>>
    PROVE  Counts' /\ Owner'
  BY DEF Counts, Owner, Linked

(* Only the thread that moves can disturb Work.                            *)
LEMMA WorkMoves ==
    ASSUME Work, NEW t \in Threads, pool' = pool, WorkOf(t)',
           \A u \in Threads \ {t} :
               /\ tpc'[u] = tpc[u] /\ call'[u] = call[u]
               /\ got'[u] = got[u] /\ held'[u] = held[u]
    PROVE  Work'
<1> SUFFICES ASSUME NEW u \in Threads, u # t PROVE WorkOf(u)'
  BY DEF Work
<1> QED
  BY DEF Work, WorkOf, Fitting

(* A thread that moves, or may call, shows that start is over.             *)
LEMMA QuietStays ==
    ASSUME Quiet, NEW t \in Threads, tpc[t] # "idle" \/ Running, UNCHANGED <<pool, state>>,
           pool = "null" => UNCHANGED <<stats, free_list>>
    PROVE  Quiet' /\ (pool # "freed" => state \notin {"UNINITIALIZED", "INITIALIZED"})
  BY DEF Quiet, Running

(* Blocks, their sizes and their owners stay.                              *)
LEMMA FitsStays ==
    ASSUME Fits, UNCHANGED <<block_size, free_list, origin, capacity, held, asked>>,
           \A t \in Threads : tpc'[t] \in Carrying => Good(got'[t], call'[t].size)
    PROVE  Fits'
<1>1. \A b, n : Good(b, n)' <=> Good(b, n)
  BY DEF Good
<1>2. \A c \in Classes : Linked(c)' = Linked(c)
  BY DEF Linked
<1>3. (\A t \in Threads : tpc[t] \in Carrying => Good(got[t], call[t].size))'
  BY DEF Good
<1> QED
  BY <1>1, <1>2, <1>3 DEF Fits, BlockFits

(* The statistics stay and nobody comes to store any.                      *)
LEMMA ExactStays ==
    ASSUME Exact, UNCHANGED <<stats, reg, held, overlap>>,
           pool' = "live" => pool = "live" /\ Due' = Due,
           \A t \in Threads : tpc'[t] \in Storing => tpc[t] \in Storing
    PROVE  Exact'
<1>1. Owned' = Owned
  BY DEF Owned
<1> QED
  BY <1>1 DEF Exact

(* Who counts as Due.                                                      *)
LEMMA DueMoves ==
    ASSUME Types, NEW t \in Threads, NEW x, tpc' = [tpc EXCEPT ![t] = x]
    PROVE  /\ IsFiniteSet(Due) /\ Cardinality(Due) \in Nat
           /\ x \in {"return", "free_load", "free_store"} =>
                 /\ Due' = Due \cup {t}
                 /\ t \notin Due => Cardinality(Due') = Cardinality(Due) + 1
           /\ x \notin {"return", "free_load", "free_store"} =>
                 /\ Due' = Due \ {t}
                 /\ t \in Due => Cardinality(Due') = Cardinality(Due) - 1
<1>1. tpc \in [Threads -> TPCs]
  BY DEF Types
<1>2. Due \subseteq Threads
  BY DEF Due
<1>3. IsFiniteSet(Due) /\ Cardinality(Due) \in Nat
  BY <1>2, Constants, FS_Subset, FS_CardinalityType
<1>4. x \in {"return", "free_load", "free_store"} => Due' = Due \cup {t}
  BY <1>1 DEF Due
<1>5. x \notin {"return", "free_load", "free_store"} => Due' = Due \ {t}
  BY <1>1 DEF Due
<1>6. t \notin Due => Cardinality(Due \cup {t}) = Cardinality(Due) + 1
  BY <1>3, FS_AddElement
<1>7. t \in Due => Cardinality(Due \ {t}) = Cardinality(Due) - 1
  BY <1>3, FS_RemoveElement
<1> QED
  BY <1>3, <1>4, <1>5, <1>6, <1>7

-----------------------------------------------------------------------------
(* The steps that move no block.                                           *)

(* A call begins.                                                          *)
LEMMA CallIInv ==
    ASSUME IInv, NEW t \in Threads, Call(t)
    PROVE  IInv'
<1>0. Types /\ Counts /\ Work /\ Quiet /\ Owner /\ Fits /\ Exact
  BY DEF IInv
<1>1. PICK c, x :
         /\ StartCall(t, c) /\ tpc' = [tpc EXCEPT ![t] = x] /\ x \in {"pop", "give"}
         /\ c \in [op : Ops, size : Nat, old : 0..made]
         /\ c.op = "realloc" \/ x = "give" => c.old \in held[t]
  <2>1. made \in Nat /\ held \in [Threads -> SUBSET (1..made)]
    BY <1>0 DEF Types
  <2>2. CASE \E size \in Sizes : AllocCall(t, size)
    <3>1. PICK size \in Sizes : AllocCall(t, size)
      BY <2>2
    <3> DEFINE c == [op |-> "alloc", size |-> size, old |-> None]
    <3>2. c \in [op : Ops, size : Nat, old : 0..made] /\ c.op # "realloc"
      BY <2>1, Constants DEF Ops
    <3>3. StartCall(t, c) /\ tpc' = [tpc EXCEPT ![t] = "pop"]
      BY <3>1 DEF AllocCall
    <3>4. c.op = "realloc" \/ "pop" = "give" => c.old \in held[t]
      BY <3>2
    <3> HIDE DEF c
    <3> QED
      BY <3>2, <3>3, <3>4
  <2>3. CASE \E b \in held[t], size \in Sizes : ReallocCall(t, b, size)
    <3>1. PICK b \in held[t], size \in Sizes : ReallocCall(t, b, size)
      BY <2>3
    <3> DEFINE c == [op |-> "realloc", size |-> size, old |-> b]
    <3>2. c \in [op : Ops, size : Nat, old : 0..made] /\ c.old = b
      BY <2>1, Constants DEF Ops
    <3>3. StartCall(t, c) /\ tpc' = [tpc EXCEPT ![t] = "pop"]
      BY <3>1 DEF ReallocCall
    <3> HIDE DEF c
    <3> QED
      BY <3>2, <3>3
  <2>4. CASE \E b \in held[t] : FreeCall(t, b)
    <3>1. PICK b \in held[t] : FreeCall(t, b)
      BY <2>4
    <3> DEFINE c == [op |-> "free", size |-> 0, old |-> b]
    <3>2. c \in [op : Ops, size : Nat, old : 0..made] /\ c.old = b
      BY <2>1 DEF Ops
    <3>3. StartCall(t, c) /\ tpc' = [tpc EXCEPT ![t] = "give"]
      BY <3>1 DEF FreeCall
    <3> HIDE DEF c
    <3> QED
      BY <3>2, <3>3
  <2> QED
    BY <2>2, <2>3, <2>4 DEF Call
<1>2. /\ tpc[t] = "idle" /\ call' = [call EXCEPT ![t] = c] /\ Running
      /\ UNCHANGED <<pool, state, block_size, free_list, free_blocks, total_blocks, made, origin,
                     capacity, held, asked, want, got, stats, reg, overlap>>
  BY <1>1 DEF StartCall, Call
<1>3. /\ tpc \in [Threads -> TPCs] /\ call \in [Threads -> [op : Ops, size : Nat, old : 0..made]]
      /\ x \in TPCs
  BY <1>0, <1>1 DEF Types, TPCs
<1>4. /\ tpc' \in [Threads -> TPCs] /\ call' \in [Threads -> [op : Ops, size : Nat, old : 0..made]]
      /\ tpc'[t] = x /\ call'[t] = c
      /\ \A u \in Threads \ {t} : tpc'[u] = tpc[u] /\ call'[u] = call[u]
  BY <1>1, <1>2, <1>3
<1>5. Types'
  BY ONLY <1>0, <1>2, <1>4 DEF Types
<1>6. Counts' /\ Owner' /\ Quiet'
  BY <1>0, <1>2, OwnerStays, QuietStays
<1>7. Work'
  <2>1. got[t] = None
    BY <1>0, <1>2 DEF Work, WorkOf, Carrying
  <2>2. WorkOf(t)'
    BY <1>1, <1>2, <1>4, <2>1 DEF WorkOf, Carrying, Allocating
  <2> QED
    BY <1>0, <1>2, <1>4, <2>2, WorkMoves
<1>8. Fits'
  <2>1. \A u \in Threads : tpc'[u] \in Carrying => Good(got'[u], call'[u].size)
    BY <1>0, <1>1, <1>2, <1>4 DEF Fits, Carrying
  <2> QED
    BY <1>0, <1>2, <2>1, FitsStays
<1>9. Exact'
  <2>1. Due' = Due
    BY <1>0, <1>1, <1>2, DueMoves DEF Due
  <2>2. \A u \in Threads : tpc'[u] \in Storing => tpc[u] \in Storing
    BY <1>1, <1>4 DEF Storing
  <2> QED
    BY <1>0, <1>2, <2>1, <2>2, ExactStays
<1> QED
  BY <1>5, <1>6, <1>7, <1>8, <1>9 DEF IInv

(* A thread finds its pool empty, plans to grow it, or finds it gone.      *)
LEMMA ControlIInv ==
    ASSUME IInv, NEW t \in Threads, AllocEmpty(t) \/ AllocPlan(t) \/ TouchFreed(t)
    PROVE  IInv'
<1>0. Types /\ Counts /\ Work /\ Quiet /\ Owner /\ Fits /\ Exact
  BY DEF IInv
<1>1. /\ UNCHANGED <<pool, state, block_size, free_list, free_blocks, total_blocks, made, origin,
                     capacity, held, asked, call, got, stats, reg, overlap>>
      /\ tpc[t] # "idle"
  BY DEF AllocEmpty, AllocPlan, TouchFreed
<1>2. PICK x \in {"plan", "grow", "malloc", "lost"} :
         /\ tpc' = [tpc EXCEPT ![t] = x]
         /\ x = "lost" => pool = "freed"
         /\ x # "lost" => tpc[t] \in {"pop", "plan"}
         /\ x \in {"plan", "grow"} => Fitting(call[t].size) # {}
  <2>1. CASE AllocEmpty(t)
    <3>1. Selected(t) # System => Fitting(call[t].size) # {}
      BY SelectedFits
    <3> QED
      BY <2>1, <3>1 DEF AllocEmpty
  <2>2. CASE AllocPlan(t)
    BY <1>0, <2>2 DEF AllocPlan, Work, WorkOf
  <2>3. CASE TouchFreed(t)
    BY <2>3 DEF TouchFreed
  <2> QED
    BY <2>1, <2>2, <2>3
<1>3. want' \in [Threads -> Nat]
  <2>1. want \in [Threads -> Nat] /\ total_blocks \in [Classes -> Nat]
    BY <1>0 DEF Types
  <2>2. CASE AllocPlan(t)
    <3>1. Selected(t) \in Classes
      BY <1>0, <2>2, SelectedFits DEF AllocPlan, Work, WorkOf
    <3>2. ExpandBy(total_blocks[Selected(t)]) \in Nat
      BY <2>1, <3>1 DEF ExpandBy
    <3> QED
      BY <2>1, <2>2, <3>2 DEF AllocPlan
  <2> QED
    BY <2>1, <2>2 DEF AllocEmpty, TouchFreed
<1>4. /\ tpc \in [Threads -> TPCs] /\ tpc' \in [Threads -> TPCs] /\ tpc'[t] = x
      /\ \A u \in Threads \ {t} : tpc'[u] = tpc[u]
  BY <1>0, <1>2 DEF Types, TPCs
<1>5. Types'
  BY ONLY <1>0, <1>1, <1>3, <1>4 DEF Types
<1>6. Counts' /\ Owner' /\ Quiet'
  BY <1>0, <1>1, OwnerStays, QuietStays
<1>7. Work'
  <2>1. WorkOf(t)'
    BY <1>0, <1>1, <1>2, <1>4 DEF Work, WorkOf, Carrying, Allocating, Fitting
  <2> QED
    BY <1>0, <1>1, <1>4, <2>1, WorkMoves
<1>8. Fits'
  <2>1. \A u \in Threads : tpc'[u] \in Carrying => Good(got'[u], call'[u].size)
    BY <1>0, <1>1, <1>4 DEF Fits, Carrying
  <2> QED
    BY <1>0, <1>1, <2>1, FitsStays
<1>9. Exact'
  <2>1. pool' = "live" => pool = "live" /\ Due' = Due
    BY <1>0, <1>1, <1>2, DueMoves DEF Due
  <2>2. \A u \in Threads : tpc'[u] \in Storing => tpc[u] \in Storing
    BY <1>4 DEF Storing
  <2> QED
    BY <1>0, <1>1, <2>1, <2>2, ExactStays
<1> QED
  BY <1>5, <1>6, <1>7, <1>8, <1>9 DEF IInv

(* The statistics are loaded.                                              *)
LEMMA StatsLoadIInv ==
    ASSUME IInv, NEW t \in Threads, AllocStatsLoad(t) \/ FreeStatsLoad(t)
    PROVE  IInv'
<1>0. Types /\ Counts /\ Work /\ Quiet /\ Owner /\ Fits /\ Exact
  BY DEF IInv
<1>1. UNCHANGED <<pool, state, block_size, free_list, free_blocks, total_blocks, made, origin,
                  capacity, held, asked, call, want, got, stats>>
  BY DEF AllocStatsLoad, FreeStatsLoad
<1>2. PICK x \in {"store", "return", "free_store"} :
         /\ tpc' = [tpc EXCEPT ![t] = x]
         /\ tpc[t] = IF x = "free_store" THEN "free_load" ELSE "load"
         /\ x = "return" => UNCHANGED <<reg, overlap>> /\ pool # "live"
         /\ x # "return" => /\ reg' = [reg EXCEPT ![t] = stats]
                            /\ overlap' = (overlap \/ OthersInStats(t))
  BY DEF AllocStatsLoad, FreeStatsLoad
<1>3. /\ tpc' \in [Threads -> TPCs] /\ tpc'[t] = x
      /\ \A u \in Threads \ {t} : tpc'[u] = tpc[u]
  BY <1>0, <1>2 DEF Types, TPCs
<1>4. reg' \in [Threads -> Counters] /\ overlap' \in BOOLEAN
  BY <1>0, <1>2 DEF Types
<1>5. Types'
  BY ONLY <1>0, <1>1, <1>3, <1>4 DEF Types
<1>6. Counts' /\ Owner' /\ Quiet'
  BY <1>0, <1>1, <1>2, OwnerStays, QuietStays
<1>7. Work'
  <2>1. WorkOf(t)'
    BY <1>0, <1>1, <1>2, <1>3 DEF Work, WorkOf, Carrying, Allocating
  <2> QED
    BY <1>0, <1>1, <1>3, <2>1, WorkMoves
<1>8. Fits'
  <2>1. \A u \in Threads : tpc'[u] \in Carrying => Good(got'[u], call'[u].size)
    BY <1>0, <1>1, <1>2, <1>3 DEF Fits, Carrying
  <2> QED
    BY <1>0, <1>1, <2>1, FitsStays
<1>9. Exact'
  <2>1. CASE x = "return"
    <3>1. \A u \in Threads : tpc'[u] \in Storing => tpc[u] \in Storing
      BY <1>3, <2>1 DEF Storing
    <3> QED
      BY <1>0, <1>1, <1>2, <2>1, <3>1, ExactStays
  <2>2. CASE x # "return"
    <3> SUFFICES ASSUME ~overlap' PROVE Exact'
      BY DEF Exact
    <3>1. ~overlap /\ \A u \in Threads \ {t} : tpc[u] \notin Storing
      BY <1>2, <2>2 DEF OthersInStats, Storing
    <3>2. \A u \in Threads : tpc'[u] \in Storing => u = t
      BY <1>3, <3>1
    <3>3. reg'[t] = stats'
      BY <1>0, <1>1, <1>2, <2>2 DEF Types
    <3>4. Due' = Due /\ Owned' = Owned
      <4>1. Due' = IF x = "free_store" THEN Due \cup {t} ELSE Due \ {t}
        BY <1>0, <1>2, <2>2, DueMoves
      <4>2. t \in Due <=> x = "free_store"
        BY <1>2 DEF Due
      <4> QED
        BY <1>1, <4>1, <4>2 DEF Owned
    <3> QED
      BY <1>0, <1>1, <3>1, <3>2, <3>3, <3>4 DEF Exact
  <2> QED
    BY <2>1, <2>2
<1> QED
  BY <1>5, <1>6, <1>7, <1>8, <1>9 DEF IInv

(* The statistics are stored.                                              *)
LEMMA StatsStoreIInv ==
    ASSUME IInv, NEW t \in Threads, AllocStatsStore(t) \/ FreeStatsStore(t)
    PROVE  IInv'
<1>0. Types /\ Counts /\ Work /\ Quiet /\ Owner /\ Fits /\ Exact
  BY DEF IInv
<1>1. /\ UNCHANGED <<pool, state, block_size, free_list, free_blocks, total_blocks, made, origin,
                     capacity, held, asked, want, got, overlap>>
      /\ pool = "live" /\ reg' = [reg EXCEPT ![t] = ZeroStats]
  BY DEF AllocStatsStore, FreeStatsStore
<1>2. /\ stats \in Counters /\ reg \in [Threads -> Counters] /\ reg[t] \in Counters
      /\ reg[t].allocation_count \in Nat /\ reg[t].free_count \in Nat
      /\ stats.allocation_count \in Nat /\ stats.free_count \in Nat
      /\ ZeroStats \in Counters
      /\ tpc \in [Threads -> TPCs] /\ call \in [Threads -> [op : Ops, size : Nat, old : 0..made]]
  BY <1>0 DEF Types, Counters, ZeroStats
<1>3. PICK x \in {"return", "idle"} :
         /\ tpc' = [tpc EXCEPT ![t] = x]
         /\ x = "return" =>
               /\ tpc[t] = "store" /\ call' = call
               /\ stats' = [stats EXCEPT !.allocation_count = reg[t].allocation_count + 1]
         /\ x = "idle" =>
               /\ tpc[t] = "free_store" /\ call' = [call EXCEPT ![t] = NoCall]
               /\ stats' = [stats EXCEPT !.free_count = reg[t].free_count + 1]
  BY DEF AllocStatsStore, FreeStatsStore
<1>4. /\ tpc' \in [Threads -> TPCs] /\ tpc'[t] = x
      /\ \A u \in Threads \ {t} : tpc'[u] = tpc[u] /\ call'[u] = call[u] /\ reg'[u] = reg[u]
      /\ call' \in [Threads -> [op : Ops, size : Nat, old : 0..made]]
  <2>1. NoCall \in [op : Ops, size : Nat, old : 0..made]
    BY <1>0 DEF NoCall, Ops, None, Types
  <2>2. x \in TPCs
    BY <1>3 DEF TPCs
  <2> QED
    BY <1>1, <1>2, <1>3, <2>1, <2>2
<1>5. stats' \in Counters /\ reg' \in [Threads -> Counters]
  BY <1>1, <1>2, <1>3 DEF Counters
<1>6. Types'
  BY ONLY <1>0, <1>1, <1>4, <1>5 DEF Types
<1>7. Counts' /\ Owner' /\ Quiet'
  BY <1>0, <1>1, <1>3, OwnerStays, QuietStays
<1>8. Work'
  <2>1. WorkOf(t)'
    BY <1>0, <1>1, <1>3, <1>4 DEF Work, WorkOf, Carrying, Allocating
  <2> QED
    BY <1>0, <1>1, <1>4, <2>1, WorkMoves
<1>9. Fits'
  <2>1. \A u \in Threads : tpc'[u] \in Carrying => Good(got'[u], call'[u].size)
    BY <1>0, <1>1, <1>3, <1>4 DEF Fits, Carrying
  <2> QED
    BY <1>0, <1>1, <2>1, FitsStays
<1>10. Exact'
  <2> SUFFICES ASSUME ~overlap PROVE Exact'
    BY <1>1 DEF Exact
  <2>1. /\ reg[t] = stats /\ \A u \in Threads : tpc[u] \in Storing => u = t
        /\ stats.allocation_count - stats.free_count = Cardinality(Owned) + Cardinality(Due)
    BY <1>0, <1>1, <1>3 DEF Exact, Storing
  <2>2. \A u \in Threads : tpc'[u] \notin Storing
    BY <1>3, <1>4, <2>1 DEF Storing
  <2>3. Owned' = Owned
    BY <1>1 DEF Owned
  <2>4. Owned \subseteq Blocks
    BY <1>0, Constants, SMTT(40) DEF Owned, Types
  <2>5. IsFiniteSet(Blocks)
    BY Constants, FS_Interval
  <2>6. Cardinality(Owned) \in Nat
    BY <2>4, <2>5, FS_Subset, FS_CardinalityType
  <2>7. Cardinality(Due) \in Nat
    BY <1>0, <1>3, DueMoves
  <2>8. stats'.allocation_count - stats'.free_count = Cardinality(Owned') + Cardinality(Due')
    <3>1. CASE x = "return"
      <4>1. Cardinality(Due') = Cardinality(Due) + 1
        <5>1. t \notin Due
          BY <1>3, <3>1 DEF Due
        <5> QED
          BY <1>0, <1>3, <3>1, <5>1, DueMoves
      <4>2. /\ stats'.allocation_count = stats.allocation_count + 1
            /\ stats'.free_count = stats.free_count
        BY <1>2, <1>3, <2>1, <3>1 DEF Counters
      <4> QED
        BY <1>2, <2>1, <2>3, <2>6, <2>7, <4>1, <4>2
    <3>2. CASE x = "idle"
      <4>1. Cardinality(Due') = Cardinality(Due) - 1
        <5>1. t \in Due
          BY <1>3, <3>2 DEF Due
        <5> QED
          BY <1>0, <1>3, <3>2, <5>1, DueMoves
      <4>2. /\ stats'.allocation_count = stats.allocation_count
            /\ stats'.free_count = stats.free_count + 1
        BY <1>2, <1>3, <2>1, <3>2 DEF Counters
      <4> QED
        BY ONLY <1>2, <2>1, <2>3, <2>6, <2>7, <4>1, <4>2
    <3> QED
      BY <3>1, <3>2
  <2> QED
    BY <2>2, <2>8 DEF Exact
<1> QED
  BY <1>6, <1>7, <1>8, <1>9, <1>10 DEF IInv

-----------------------------------------------------------------------------
(* The steps that move blocks.                                             *)

(* The head of a free list goes to a thread.                               *)
LEMMA PopIInv ==
    ASSUME IInv, NEW t \in Threads, NEW c \in Classes, c = Selected(t),
           call[t].size <= BlockSize[c], pool = "live",
           AllocPop(t) \/ (AllocTake(t) /\ free_list[c] # <<>>)
    PROVE  IInv'
<1>0. Types /\ Counts /\ Work /\ Quiet /\ Owner /\ Fits /\ Exact
  BY DEF IInv
<1>a. PICK b : b = Head(free_list[c])
  OBVIOUS
<1>b. free_list[c] # <<>>
  <2>1. free_blocks[c] = Len(free_list[c])
    BY <1>0 DEF Counts
  <2> QED
    BY <2>1, EmptySeq DEF AllocPop
<1>c. /\ tpc[t] \in {"pop", "take"} /\ tpc' = [tpc EXCEPT ![t] = "load"]
      /\ got' = [got EXCEPT ![t] = b] /\ Pop(c)
      /\ UNCHANGED <<pool, state, heap, held, asked, call, want, stats, reg, overlap>>
  BY <1>a DEF AllocPop, AllocTake
<1>1. got[t] = None
  BY <1>0, <1>c DEF Work, WorkOf, Carrying
<1>2. /\ made \in Nat /\ free_list \in [Classes -> Seq(1..made)]
      /\ free_blocks \in [Classes -> Nat] /\ got \in [Threads -> 0..made]
      /\ tpc \in [Threads -> TPCs] /\ free_list[c] \in Seq(1..made)
  BY <1>0 DEF Types
<1>3. /\ free_list' = [free_list EXCEPT ![c] = Tail(@)]
      /\ free_blocks' = [free_blocks EXCEPT ![c] = @ - 1]
      /\ UNCHANGED <<block_size, total_blocks>> /\ got' = [got EXCEPT ![t] = b]
  BY <1>c DEF Pop
<1>4. /\ b \in 1..made /\ Tail(free_list[c]) \in Seq(1..made)
      /\ Len(Tail(free_list[c])) = Len(free_list[c]) - 1 /\ Len(free_list[c]) \in Nat
      /\ Len(free_list[c]) # 0
  BY <1>2, <1>a, <1>b, HeadTailProperties, LenProperties, EmptySeq
<1>5. /\ Distinct(free_list[c]) /\ Distinct(Tail(free_list[c])) /\ b \in Linked(c)
      /\ Elements(Tail(free_list[c])) = Linked(c) \ {b}
  <2>1. Distinct(free_list[c])
    BY <1>0 DEF Owner
  <2> QED
    BY <1>2, <1>a, <1>b, <2>1, TailElements DEF Linked
<1>6. /\ free_list'[c] = Tail(free_list[c])
      /\ \A d \in Classes \ {c} : free_list'[d] = free_list[d] /\ free_blocks'[d] = free_blocks[d]
      /\ free_list' \in [Classes -> Seq(1..made)]
      /\ free_blocks[c] = Len(free_list[c]) /\ free_blocks'[c] = Len(free_list[c]) - 1
      /\ free_blocks' \in [Classes -> Nat]
  <2>1. free_blocks[c] = Len(free_list[c])
    BY <1>0 DEF Counts
  <2>2. free_blocks[c] - 1 \in Nat
    BY <1>4, <2>1
  <2>3. /\ free_list'[c] = Tail(free_list[c])
        /\ \A d \in Classes \ {c} : free_list'[d] = free_list[d]
        /\ free_list' \in [Classes -> Seq(1..made)]
    BY <1>2, <1>3, <1>4
  <2>4. /\ \A d \in Classes \ {c} : free_blocks'[d] = free_blocks[d]
        /\ free_blocks'[c] = free_blocks[c] - 1
        /\ free_blocks' \in [Classes -> Nat]
    BY <1>2, <1>3, <2>2
  <2> QED
    BY <2>1, <2>3, <2>4
<1>7. /\ got' \in [Threads -> 0..made] /\ got'[t] = b /\ tpc' \in [Threads -> TPCs]
      /\ tpc'[t] = "load" /\ \A u \in Threads \ {t} : got'[u] = got[u] /\ tpc'[u] = tpc[u]
  <2>1. b \in 0..made
    BY <1>2, <1>4
  <2>2. got' \in [Threads -> 0..made] /\ got'[t] = b /\ \A u \in Threads \ {t} : got'[u] = got[u]
    BY <1>2, <1>3, <2>1
  <2>3. "load" \in TPCs
    BY DEF TPCs
  <2> QED
    BY <1>2, <1>c, <2>2, <2>3
<1>8. Types'
  BY ONLY <1>0, <1>3, <1>6, <1>7, <1>c
     DEF Types, heap
<1>9. Counts'
  BY <1>0, <1>4, <1>6 DEF Counts
<1>10. Work'
  <2>1. b # None
    BY <1>4 DEF None
  <2>2. WorkOf(t)'
    BY <1>0, <1>7, <1>c, <2>1 DEF Work, WorkOf, Carrying, Allocating
  <2> QED
    BY <1>0, <1>7, <1>c, <2>2, WorkMoves
<1>11. Quiet'
  BY <1>0, <1>c, QuietStays
<1>12. /\ Linked(c)' = Linked(c) \ {b} /\ \A d \in Classes \ {c} : Linked(d)' = Linked(d)
  <2>1. Linked(c)' = Linked(c) \ {b}
    BY <1>5, <1>6 DEF Linked
  <2>2. \A d \in Classes \ {c} : Linked(d)' = Linked(d)
    BY <1>6 DEF Linked
  <2> QED
    BY <2>1, <2>2
<1>13. Owner'
  <2>1. /\ \A d \in Classes : Distinct(free_list[d])
        /\ \A d, e \in Classes : d # e => Linked(d) \cap Linked(e) = {}
        /\ \A d \in Classes, u \in Threads : held[u] \cap Linked(d) = {} /\ got[u] \notin Linked(d)
        /\ \A u, v \in Threads :
              /\ got[u] \notin held[v]
              /\ u # v => held[u] \cap held[v] = {}
              /\ u # v /\ got[u] # None => got[u] # got[v]
        /\ \A x \in 1..made : \/ \E d \in Classes : x \in Linked(d)
                              \/ \E u \in Threads : x \in held[u] \/ got[u] = x
    BY <1>0 DEF Owner
  <2>2. \A d \in Classes : Distinct(free_list'[d])
    BY <1>5, <1>6, <2>1
  <2>3. \A d, e \in Classes : d # e => Linked(d)' \cap Linked(e)' = {}
    BY <1>12, <2>1
  <2>4. \A d \in Classes, u \in Threads : held[u] \cap Linked(d)' = {} /\ got'[u] \notin Linked(d)'
    BY <1>5, <1>7, <1>12, <2>1
  <2>5. \A u, v \in Threads :
              /\ got'[u] \notin held[v]
              /\ u # v /\ got'[u] # None => got'[u] # got'[v]
    BY <1>5, <1>7, <2>1
  <2>6. \A x \in 1..made : \/ \E d \in Classes : x \in Linked(d)'
                           \/ \E u \in Threads : x \in held[u] \/ got'[u] = x
    <3> SUFFICES ASSUME NEW x \in 1..made
                 PROVE  \/ \E d \in Classes : x \in Linked(d)'
                        \/ \E u \in Threads : x \in held[u] \/ got'[u] = x
      OBVIOUS
    <3>1. CASE x = b
      BY <1>7, <3>1
    <3>2. CASE x # b /\ \E d \in Classes : x \in Linked(d)
      BY <1>12, <3>2
    <3>3. CASE \E u \in Threads : x \in held[u] \/ got[u] = x
      <4>1. x # None
        BY <1>2 DEF None
      <4> QED
        BY <1>1, <1>7, <3>3, <4>1
    <3> QED
      BY <2>1, <3>1, <3>2, <3>3
  <2> QED
    BY <1>c, <2>1, <2>2, <2>3, <2>4, <2>5, <2>6 DEF Owner
<1>14. Fits'
  <2>1. Good(b, call[t].size)
    <3>1. Good(b, BlockSize[c])
      BY <1>0, <1>5 DEF Fits
    <3>2. BlockSize[c] \in Nat /\ call[t].size \in Nat /\ b \in Blocks
      <4>1. call[t] \in [op : Ops, size : Nat, old : 0..made] /\ made \in 0..MaxBlocks
        BY <1>0 DEF Types
      <4> QED
        BY <1>4, <4>1, Constants
    <3>3. capacity[b] \in Nat
      BY <1>0, <3>2 DEF Types
    <3> QED
      BY <3>1, <3>2, <3>3 DEF Good
  <2>2. \A x, n : Good(x, n)' <=> Good(x, n)
    BY <1>c DEF Good
  <2>3. (\A u \in Threads : tpc[u] \in Carrying => Good(got[u], call[u].size))'
    BY <1>0, <1>7, <1>c, <2>1 DEF Fits, Good
  <2>4. \A d \in Classes : Linked(d)' \subseteq Linked(d)
    BY <1>12
  <2> QED
    BY <1>0, <1>3, <1>c, <2>2, <2>3, <2>4 DEF Fits, BlockFits
<1>15. Exact'
  <2>1. Due' = Due
    BY <1>0, <1>c, DueMoves DEF Due
  <2>2. \A u \in Threads : tpc'[u] \in Storing => tpc[u] \in Storing
    BY <1>7 DEF Storing
  <2> QED
    BY <1>0, <1>c, <2>1, <2>2, ExactStays
<1> QED
  BY <1>8, <1>9, <1>10, <1>11, <1>13, <1>14, <1>15 DEF IInv

(* Blocks from malloc: the old ones stay what they are.                    *)
LEMMA ObtainBlocks ==
    ASSUME Types, NEW n \in Nat, NEW c, NEW cap, Obtain(n, c, cap)
    PROVE  /\ made \in Nat /\ made' = made + n /\ made' \in 0..MaxBlocks
           /\ \A b \in 1..made : origin'[b] = origin[b] /\ capacity'[b] = capacity[b]
           /\ \A b \in (made + 1)..(made + n) : origin'[b] = c /\ capacity'[b] = cap
           /\ \A b \in Blocks : \/ origin'[b] = origin[b] /\ capacity'[b] = capacity[b]
                                \/ origin'[b] = c /\ capacity'[b] = cap
<1>1. made \in 0..MaxBlocks /\ MaxBlocks \in Nat /\ Blocks = 1..MaxBlocks
  BY Constants DEF Types
<1>2. /\ made' = made + n /\ made + n <= MaxBlocks
      /\ origin' = [b \in Blocks |-> IF b \in made+1..made+n THEN c ELSE origin[b]]
      /\ capacity' = [b \in Blocks |-> IF b \in made+1..made+n THEN cap ELSE capacity[b]]
  BY DEF Obtain
<1>3. /\ made \in Nat /\ made' \in 0..MaxBlocks /\ (made + 1)..(made + n) \subseteq Blocks
  BY <1>1, <1>2
<1>4. \A b \in 1..made : b \in Blocks /\ b \notin (made + 1)..(made + n)
  BY <1>1, <1>3
<1>5. \A b \in 1..made : origin'[b] = origin[b] /\ capacity'[b] = capacity[b]
  BY <1>2, <1>4
<1>6. /\ \A b \in (made + 1)..(made + n) : origin'[b] = c /\ capacity'[b] = cap
      /\ \A b \in Blocks : \/ origin'[b] = origin[b] /\ capacity'[b] = capacity[b]
                           \/ origin'[b] = c /\ capacity'[b] = cap
  BY <1>2, <1>3
<1> QED
  BY <1>2, <1>3, <1>5, <1>6

(* The types hold for the blocks there are now.                            *)
LEMMA ObtainTypes ==
    ASSUME Types, NEW n \in Nat, NEW c \in Classes \cup {System}, NEW cap \in Nat,
           Obtain(n, c, cap)
    PROVE  /\ made \in Nat /\ made' = made + n /\ made' \in 0..MaxBlocks
           /\ origin' \in [Blocks -> Classes \cup {System}] /\ capacity' \in [Blocks -> Nat]
           /\ free_list \in [Classes -> Seq(1..made')]
           /\ held \in [Threads -> SUBSET (1..made')] /\ got \in [Threads -> 0..made']
           /\ call \in [Threads -> [op : Ops, size : Nat, old : 0..made']]
<1>1. made \in Nat /\ made' = made + n /\ made' \in 0..MaxBlocks
  BY ObtainBlocks
<1>2. 1..made \subseteq 1..made' /\ 0..made \subseteq 0..made'
  BY <1>1
<1>3. origin' \in [Blocks -> Classes \cup {System}] /\ capacity' \in [Blocks -> Nat]
  BY DEF Types, Obtain
<1>4. free_list \in [Classes -> Seq(1..made')]
  <2>1. free_list \in [Classes -> Seq(1..made)] /\ Seq(1..made) \subseteq Seq(1..made')
    BY <1>2, SeqMonotonic DEF Types
  <2> QED
    BY <2>1
<1>5. held \in [Threads -> SUBSET (1..made')] /\ got \in [Threads -> 0..made']
  <2>1. held \in [Threads -> SUBSET (1..made)] /\ got \in [Threads -> 0..made]
    BY DEF Types
  <2> QED
    BY ONLY <1>2, <2>1
<1>6. call \in [Threads -> [op : Ops, size : Nat, old : 0..made']]
  <2>1. call \in [Threads -> [op : Ops, size : Nat, old : 0..made]]
    BY DEF Types
  <2> QED
    BY ONLY <1>2, <2>1
<1> QED
  BY <1>1, <1>3, <1>4, <1>5, <1>6

(* What is linked exists.                                                  *)
LEMMA LinkedExist ==
    ASSUME Types, NEW c \in Classes
    PROVE  Linked(c) \subseteq 1..made
<1>1. free_list[c] \in Seq(1..made)
  BY DEF Types
<1>2. \A k \in DOMAIN free_list[c] : free_list[c][k] \in 1..made
  BY <1>1, ElementOfSeq, LenProperties
<1> QED
  BY <1>2 DEF Linked, Elements

(* New blocks fit the class they are linked in.                            *)
LEMMA ObtainFits ==
    ASSUME Types, Fits, Work, NEW n \in Nat, NEW c \in Classes \cup {System}, NEW cap \in Nat,
           Obtain(n, c, cap), c # System => cap \in {0, BlockSize[c]},
           \A d \in Classes : block_size'[d] \in {0, BlockSize[d]},
           \A d \in Classes :
               (Linked(d))' \subseteq Linked(d) \cup (IF d = c THEN (made + 1)..(made + n) ELSE {}),
           UNCHANGED <<held, asked>>,
           \A u \in Threads : tpc'[u] \in Carrying =>
               \/ tpc[u] \in Carrying /\ got'[u] = got[u] /\ call'[u] = call[u]
               \/ got'[u] \in (made + 1)..(made + n) /\ c = System
    PROVE  Fits'
<1>1. /\ made \in Nat
      /\ \A b \in 1..made : origin'[b] = origin[b] /\ capacity'[b] = capacity[b]
      /\ \A b \in (made + 1)..(made + n) : origin'[b] = c /\ capacity'[b] = cap
      /\ \A b \in Blocks : \/ origin'[b] = origin[b] /\ capacity'[b] = capacity[b]
                           \/ origin'[b] = c /\ capacity'[b] = cap
  BY ONLY Types, Obtain(n, c, cap), n \in Nat, ObtainBlocks
<1>2. /\ \A b \in 1..made : \A k : Good(b, k) => Good(b, k)'
      /\ \A k : \A b \in (made + 1)..(made + n) :
            c = System \/ (c \in Classes /\ k = BlockSize[c]) => Good(b, k)'
  <2>1. \A b \in 1..made : \A k : Good(b, k) => Good(b, k)'
    BY <1>1 DEF Good
  <2>2. \A k : \A b \in (made + 1)..(made + n) :
            c = System \/ (c \in Classes /\ k = BlockSize[c]) => Good(b, k)'
    <3> SUFFICES ASSUME NEW k, NEW b \in (made + 1)..(made + n),
                        c = System \/ (c \in Classes /\ k = BlockSize[c])
                 PROVE  Good(b, k)'
      OBVIOUS
    <3>1. origin'[b] = c /\ capacity'[b] = cap
      BY <1>1
    <3>2. c \in Classes => BlockSize[c] \in Nat /\ c # System
      BY Constants
    <3> QED
      BY <3>1, <3>2 DEF Good
  <2> QED
    BY <2>1, <2>2
<1>3. (\A b \in Blocks : origin[b] # System => capacity[b] \in {0, BlockSize[origin[b]]})'
  <2> SUFFICES ASSUME NEW b \in Blocks, origin'[b] # System
               PROVE  capacity'[b] \in {0, BlockSize[origin'[b]]}
    OBVIOUS
  <2>1. origin[b] # System => capacity[b] \in {0, BlockSize[origin[b]]}
    BY DEF Fits
  <2> QED
    BY <1>1, <2>1
<1>4. (\A d \in Classes : \A b \in Linked(d) : Good(b, BlockSize[d]))'
  <2> SUFFICES ASSUME NEW d \in Classes, NEW b \in (Linked(d))' PROVE Good(b, BlockSize[d])'
    OBVIOUS
  <2>1. CASE b \in Linked(d)
    <3>2. b \in 1..made
      BY <2>1, LinkedExist
    <3>3. Good(b, BlockSize[d])
      BY <2>1 DEF Fits
    <3> QED
      BY <1>2, <3>2, <3>3
  <2>2. CASE b \in (made + 1)..(made + n) /\ d = c
    BY <1>2, <2>2
  <2> QED
    BY <2>1, <2>2
<1>5. (\A u \in Threads : tpc[u] \in Carrying => Good(got[u], call[u].size))'
  <2> SUFFICES ASSUME NEW u \in Threads, tpc'[u] \in Carrying
               PROVE  (Good(got[u], call[u].size))'
    OBVIOUS
  <2>1. CASE tpc[u] \in Carrying /\ got'[u] = got[u] /\ call'[u] = call[u]
    <3>1. got[u] \in 1..made
      BY <2>1 DEF Types, Work, WorkOf, None
    <3>2. Good(got[u], call[u].size)
      BY <2>1 DEF Fits
    <3>3. origin'[got[u]] = origin[got[u]] /\ capacity'[got[u]] = capacity[got[u]]
      BY <1>1, <3>1
    <3> QED
      BY <2>1, <3>2, <3>3 DEF Good
  <2>2. CASE got'[u] \in (made + 1)..(made + n) /\ c = System
    BY <1>1, <2>2 DEF Good
  <2> QED
    BY <2>1, <2>2
<1>6. BlockFits'
  <2> SUFFICES ASSUME NEW u \in Threads, NEW b \in held[u],
                      origin'[b] # System /\ capacity'[b] > 0
               PROVE  capacity'[b] >= asked'[b]
    BY DEF BlockFits
  <2>1. b \in 1..made
    BY DEF Types
  <2>2. origin[b] # System /\ capacity[b] > 0 => capacity[b] >= asked[b]
    BY DEF Fits, BlockFits
  <2> QED
    BY <1>1, <2>1, <2>2
<1> QED
  BY <1>3, <1>4, <1>5, <1>6 DEF Fits

(* Blocks from malloc are linked in front of the free list of class c.     *)
LEMMA LinkFresh ==
    ASSUME Types, Counts, Owner, pool = "live", NEW n \in Nat, NEW c \in Classes,
           NEW cap \in Nat, Obtain(n, c, cap),
           free_list' = [free_list EXCEPT ![c] = Fresh(n) \o @],
           free_blocks' = [free_blocks EXCEPT ![c] = @ + n], UNCHANGED <<pool, held, got>>
    PROVE  /\ Counts' /\ Owner'
           /\ free_list' \in [Classes -> Seq(1..made')] /\ free_blocks' \in [Classes -> Nat]
           /\ (Linked(c))' = Linked(c) \cup (made + 1)..(made + n)
           /\ \A d \in Classes \ {c} : (Linked(d))' = Linked(d)
           /\ \A d \in Classes \ {c} : free_list'[d] = free_list[d]
<1>0. c \in Classes \cup {System}
  OBVIOUS
<1>1. made \in Nat /\ made' = made + n /\ free_list \in [Classes -> Seq(1..made')]
  BY <1>0, ObtainTypes
<1>2. /\ free_list[c] \in Seq(1..made') /\ free_blocks \in [Classes -> Nat]
      /\ free_blocks[c] = Len(free_list[c]) /\ Distinct(free_list[c])
  BY <1>1 DEF Types, Counts, Owner
<1>3. \A d \in Classes : Linked(d) \subseteq 1..made
  BY LinkedExist
<1>4. /\ Fresh(n) \in Seq(1..made') /\ Len(Fresh(n)) = n
      /\ Distinct(Fresh(n)) /\ Elements(Fresh(n)) = (made + 1)..(made + n)
  BY <1>1, FreshElements
<1>5. (made + 1)..(made + n) \cap 1..made = {}
  BY <1>1
<1>6. Elements(Fresh(n)) \cap Elements(free_list[c]) = {}
  BY <1>3, <1>4, <1>5 DEF Linked
<1>7. /\ Fresh(n) \o free_list[c] \in Seq(1..made')
      /\ Len(Fresh(n) \o free_list[c]) = n + Len(free_list[c])
      /\ Distinct(Fresh(n) \o free_list[c])
      /\ Elements(Fresh(n) \o free_list[c]) = (made + 1)..(made + n) \cup Linked(c)
  <2> DEFINE p == Fresh(n)
             q == free_list[c]
  <2>1. /\ p \in Seq(1..made') /\ q \in Seq(1..made') /\ Distinct(p) /\ Distinct(q)
        /\ Elements(p) \cap Elements(q) = {}
    BY <1>2, <1>4, <1>6
  <2> HIDE DEF p, q
  <2>2. /\ p \o q \in Seq(1..made') /\ Len(p \o q) = Len(p) + Len(q)
        /\ Distinct(p \o q) /\ Elements(p \o q) = Elements(p) \cup Elements(q)
    BY ONLY <2>1, ConcatElements
  <2> QED
    BY <1>4, <2>2 DEF Linked, p, q
<1>8. /\ free_list' \in [Classes -> Seq(1..made')]
      /\ free_list'[c] = Fresh(n) \o free_list[c]
      /\ \A d \in Classes \ {c} : free_list'[d] = free_list[d]
  BY <1>1, <1>7
<1>9. Counts' /\ free_blocks' \in [Classes -> Nat]
  <2>1. Len(free_list[c]) \in Nat
    BY <1>2
  <2>2. free_blocks' \in [Classes -> Nat] /\ free_blocks'[c] = free_blocks[c] + n
    BY <1>2
  <2>3. \A d \in Classes \ {c} : free_blocks'[d] = free_blocks[d]
    BY <1>2
  <2>4. Len(free_list'[c]) = n + Len(free_list[c])
    BY <1>7, <1>8
  <2>5. free_blocks'[c] = Len(free_list'[c])
    BY <1>2, <2>1, <2>2, <2>4
  <2> QED
    BY <1>8, <2>2, <2>3, <2>5 DEF Counts
<1>10. /\ (Linked(c))' = Linked(c) \cup (made + 1)..(made + n)
       /\ \A d \in Classes \ {c} : (Linked(d))' = Linked(d)
  <2>1. (Linked(c))' = Linked(c) \cup (made + 1)..(made + n)
    BY <1>7, <1>8 DEF Linked
  <2>2. \A d \in Classes \ {c} : (Linked(d))' = Linked(d)
    BY <1>8 DEF Linked
  <2> QED
    BY <2>1, <2>2
<1>11. Owner'
  <2>1. /\ \A d \in Classes : Distinct(free_list[d])
        /\ \A d, e \in Classes : d # e => Linked(d) \cap Linked(e) = {}
        /\ \A d \in Classes, u \in Threads : held[u] \cap Linked(d) = {} /\ got[u] \notin Linked(d)
        /\ \A u, v \in Threads :
              /\ got[u] \notin held[v]
              /\ u # v => held[u] \cap held[v] = {}
              /\ u # v /\ got[u] # None => got[u] # got[v]
        /\ \A x \in 1..made : \/ \E d \in Classes : x \in Linked(d)
                              \/ \E u \in Threads : x \in held[u] \/ got[u] = x
    BY DEF Owner
  <2>2. \A d \in Classes : Distinct(free_list'[d])
    BY <1>7, <1>8, <2>1
  <2>3. \A d, e \in Classes : d # e => (Linked(d))' \cap (Linked(e))' = {}
    BY <1>3, <1>5, <1>10, <2>1
  <2>4. \A d \in Classes, u \in Threads :
           held[u] \cap (Linked(d))' = {} /\ got[u] \notin (Linked(d))'
    <3>1. \A u \in Threads : held[u] \subseteq 1..made /\ got[u] \in 0..made
      BY DEF Types
    <3>2. 0..made \cap (made + 1)..(made + n) = {}
      BY <1>1
    <3> QED
      BY <1>5, <1>10, <2>1, <3>1, <3>2
  <2>5. \A x \in 1..made' : \/ \E d \in Classes : x \in (Linked(d))'
                            \/ \E u \in Threads : x \in held[u] \/ got[u] = x
    <3> SUFFICES ASSUME NEW x \in 1..made'
                 PROVE  \/ \E d \in Classes : x \in (Linked(d))'
                        \/ \E u \in Threads : x \in held[u] \/ got[u] = x
      OBVIOUS
    <3>1. x \in 1..made \/ x \in (made + 1)..(made + n)
      BY <1>1
    <3> QED
      BY <1>10, <2>1, <3>1
  <2> QED
    BY <2>1, <2>2, <2>3, <2>4, <2>5 DEF Owner
<1> QED
  BY <1>8, <1>9, <1>10, <1>11

(* A pool grows by n blocks.                                               *)
LEMMA GrowIInv ==
    ASSUME IInv, NEW t \in Threads, NEW c \in Classes, NEW n \in Nat,
           NEW x \in {"take", "malloc"},
           tpc[t] = "grow", pool = "live", Grow(c, n), tpc' = [tpc EXCEPT ![t] = x],
           UNCHANGED <<pool, state, held, asked, call, want, got, stats, reg, overlap>>
    PROVE  IInv'
<1>0. Types /\ Counts /\ Work /\ Quiet /\ Owner /\ Fits /\ Exact
  BY DEF IInv
<1>1. /\ Obtain(n, c, block_size[c])
      /\ free_list' = [free_list EXCEPT ![c] = Fresh(n) \o @]
      /\ free_blocks' = [free_blocks EXCEPT ![c] = @ + n]
      /\ total_blocks' = [total_blocks EXCEPT ![c] = @ + n] /\ block_size' = block_size
  BY DEF Grow
<1>2. /\ block_size[c] \in Nat /\ c \in Classes \cup {System}
      /\ block_size[c] \in {0, BlockSize[c]} /\ total_blocks' \in [Classes -> Nat]
  BY <1>0, <1>1 DEF Types, Fits
<1>3. /\ Counts' /\ Owner'
      /\ free_list' \in [Classes -> Seq(1..made')] /\ free_blocks' \in [Classes -> Nat]
      /\ (Linked(c))' = Linked(c) \cup (made + 1)..(made + n)
      /\ \A d \in Classes \ {c} : (Linked(d))' = Linked(d)
  BY <1>0, <1>1, <1>2, LinkFresh
<1>4. /\ made' \in 0..MaxBlocks
      /\ origin' \in [Blocks -> Classes \cup {System}] /\ capacity' \in [Blocks -> Nat]
      /\ held \in [Threads -> SUBSET (1..made')] /\ got \in [Threads -> 0..made']
      /\ call \in [Threads -> [op : Ops, size : Nat, old : 0..made']]
  BY <1>0, <1>1, <1>2, ObtainTypes
<1>5. /\ tpc' \in [Threads -> TPCs] /\ tpc'[t] = x
      /\ \A u \in Threads \ {t} : tpc'[u] = tpc[u]
  BY <1>0 DEF Types, TPCs
<1>6. Types'
  BY ONLY <1>0, <1>1, <1>2, <1>3, <1>4, <1>5,
          UNCHANGED <<pool, state, held, asked, call, want, got, stats, reg, overlap>>
     DEF Types
<1>7. Work'
  <2>1. WorkOf(t)'
    BY <1>0, <1>5 DEF Work, WorkOf, Carrying, Allocating, Fitting
  <2> QED
    BY <1>0, <1>5, <2>1, WorkMoves
<1>8. Quiet'
  BY <1>0, QuietStays
<1>9. Fits'
  <2>1. \A d \in Classes :
          (Linked(d))' \subseteq Linked(d) \cup (IF d = c THEN (made + 1)..(made + n) ELSE {})
    BY <1>3
  <2>2. \A d \in Classes : block_size'[d] \in {0, BlockSize[d]}
    BY <1>0, <1>1 DEF Fits
  <2>3. \A u \in Threads : tpc'[u] \in Carrying =>
           \/ tpc[u] \in Carrying /\ got'[u] = got[u] /\ call'[u] = call[u]
           \/ got'[u] \in (made + 1)..(made + n) /\ c = System
    BY <1>5 DEF Carrying
  <2> QED
    BY <1>0, <1>1, <1>2, <2>1, <2>2, <2>3, ObtainFits
<1>10. Exact'
  <2>1. Due' = Due
    BY <1>0, DueMoves DEF Due
  <2>2. \A u \in Threads : tpc'[u] \in Storing => tpc[u] \in Storing
    BY <1>5 DEF Storing
  <2> QED
    BY <1>0, <2>1, <2>2, ExactStays
<1> QED
  BY <1>3, <1>6, <1>7, <1>8, <1>9, <1>10 DEF IInv

(* The steps of allocate_from_pool.                                        *)
LEMMA AllocateIInv ==
    ASSUME IInv, NEW t \in Threads,
           AllocPop(t) \/ AllocGrow(t) \/ AllocGrowFails(t) \/ AllocTake(t)
    PROVE  IInv'
<1>0. Types /\ Counts /\ Work /\ Quiet /\ Owner /\ Fits /\ Exact
  BY DEF IInv
<1>1. /\ Alive /\ pool = "live" /\ Fitting(call[t].size) # {}
  <2>1. CASE AllocPop(t)
    BY <2>1, SelectedFits DEF AllocPop
  <2>2. CASE AllocGrow(t) \/ AllocGrowFails(t) \/ AllocTake(t)
    BY <1>0, <2>2 DEF AllocGrow, AllocGrowFails, AllocTake, Work, WorkOf
  <2> QED
    BY <2>1, <2>2 DEF AllocPop
<1>2. PICK c \in Classes : c = Selected(t) /\ call[t].size <= BlockSize[c]
  BY <1>1, SelectedFits
<1>3. free_blocks[c] = Len(free_list[c]) /\ want[t] \in Nat /\ free_list[c] \in Seq(1..made)
  BY <1>0 DEF Counts, Types
<1>4. CASE AllocPop(t)
  BY <1>1, <1>2, <1>4, PopIInv
<1>5. CASE AllocGrow(t)
  BY <1>1, <1>2, <1>3, <1>5, GrowIInv DEF AllocGrow
<1>6. CASE AllocGrowFails(t)
  <2>1. PICK n \in 0..want[t] : Grow(Selected(t), n)
    BY <1>6 DEF AllocGrowFails
  <2>2. n \in Nat /\ Grow(c, n)
    BY <1>2, <1>3, <2>1
  <2> QED
    BY <1>1, <1>6, <2>2, GrowIInv DEF AllocGrowFails
<1>7. CASE AllocTake(t)
  <2>1. CASE free_list[c] # <<>>
    BY <1>1, <1>2, <1>7, <2>1, PopIInv
  <2>2. CASE free_list[c] = <<>>
    <3>1. UNCHANGED <<pool, state, block_size, free_list, free_blocks, total_blocks, made, origin,
                      capacity, held, asked, tpc, call, want, got, stats, reg, overlap>>
      BY <1>2, <1>7, <2>2 DEF AllocTake
    <3>2. Types' /\ Work'
      BY <1>0, <3>1 DEF Types, Work, WorkOf, Fitting
    <3>3. Counts' /\ Owner' /\ Quiet'
      BY <1>0, <1>7, <3>1, OwnerStays, QuietStays DEF AllocTake
    <3>4. Fits'
      <4>1. \A u \in Threads : tpc'[u] \in Carrying => Good(got'[u], call'[u].size)
        BY <1>0, <3>1 DEF Fits
      <4> QED
        BY <1>0, <3>1, <4>1, FitsStays
    <3>5. Exact'
      BY <1>0, <3>1, ExactStays DEF Due
    <3> QED
      BY <3>2, <3>3, <3>4, <3>5 DEF IInv
  <2> QED
    BY <2>1, <2>2
<1> QED
  BY <1>4, <1>5, <1>6, <1>7

(* The fallback to malloc.                                                 *)
LEMMA MallocIInv ==
    ASSUME IInv, NEW t \in Threads, AllocMalloc(t)
    PROVE  IInv'
<1>0. Types /\ Counts /\ Work /\ Quiet /\ Owner /\ Fits /\ Exact
  BY DEF IInv
<1>1. /\ UNCHANGED <<pool, state, block_size, free_list, free_blocks, total_blocks, held, asked,
                     want, stats, reg, overlap>>
      /\ tpc[t] = "malloc" /\ got[t] = None
  BY <1>0 DEF AllocMalloc, Work, WorkOf, Carrying
<1>2. CASE /\ Obtain(1, System, call[t].size)
           /\ got' = [got EXCEPT ![t] = made + 1]
           /\ tpc' = [tpc EXCEPT ![t] = IF pool = "live" THEN "load" ELSE "return"]
           /\ UNCHANGED call
  <2>1. PICK n \in Nat, c \in Classes \cup {System}, cap \in Nat, x \in {"load", "return"} :
           n = 1 /\ c = System /\ cap = call[t].size /\ Obtain(n, c, cap)
           /\ x = (IF pool = "live" THEN "load" ELSE "return")
    <3>1. call[t].size \in Nat /\ System \in Classes \cup {System} /\ 1 \in Nat
      BY <1>0 DEF Types
    <3> QED
      BY <1>2, <3>1
  <2>2. /\ made \in Nat /\ made' = made + 1 /\ made' \in 0..MaxBlocks
        /\ origin' \in [Blocks -> Classes \cup {System}] /\ capacity' \in [Blocks -> Nat]
        /\ free_list \in [Classes -> Seq(1..made')]
        /\ held \in [Threads -> SUBSET (1..made')] /\ got \in [Threads -> 0..made']
        /\ call \in [Threads -> [op : Ops, size : Nat, old : 0..made']]
    BY <1>0, <2>1, ObtainTypes
  <2>3. /\ tpc' \in [Threads -> TPCs] /\ tpc'[t] = x
        /\ \A u \in Threads \ {t} : tpc'[u] = tpc[u]
    <3>1. x \in TPCs /\ tpc \in [Threads -> TPCs]
      BY <1>0, <2>1 DEF Types, TPCs
    <3> QED
      BY <1>2, <2>1, <3>1
  <2>4. /\ got' \in [Threads -> 0..made'] /\ got'[t] = made + 1
        /\ \A u \in Threads \ {t} : got'[u] = got[u]
    <3>1. made + 1 \in 0..made'
      BY <2>2
    <3> QED
      BY <1>2, <2>2, <3>1
  <2>5. Types'
    BY ONLY <1>0, <1>1, <1>2, <2>2, <2>3, <2>4 DEF Types
  <2>6. Counts'
    BY <1>0, <1>1 DEF Counts
  <2>7. Work'
    <3>1. made + 1 # None
      BY <2>2 DEF None
    <3>2. WorkOf(t)'
      BY <1>0, <1>1, <1>2, <2>1, <2>3, <2>4, <3>1 DEF Work, WorkOf, Carrying, Allocating
    <3> QED
      BY <1>0, <1>1, <1>2, <2>3, <2>4, <3>2, WorkMoves
  <2>8. Quiet'
    BY <1>0, <1>1, QuietStays
  <2>9. Owner'
    <3> SUFFICES ASSUME pool = "live" PROVE Owner'
      BY <1>1 DEF Owner
    <3>1. /\ \A d \in Classes : Distinct(free_list[d])
          /\ \A d, e \in Classes : d # e => Linked(d) \cap Linked(e) = {}
          /\ \A d \in Classes, u \in Threads :
                held[u] \cap Linked(d) = {} /\ got[u] \notin Linked(d)
          /\ \A u, v \in Threads :
                /\ got[u] \notin held[v]
                /\ u # v => held[u] \cap held[v] = {}
                /\ u # v /\ got[u] # None => got[u] # got[v]
          /\ \A b \in 1..made : \/ \E d \in Classes : b \in Linked(d)
                                \/ \E u \in Threads : b \in held[u] \/ got[u] = b
      BY <1>0 DEF Owner
    <3>2. /\ \A d \in Classes : made + 1 \notin Linked(d)
          /\ \A u \in Threads : made + 1 \notin held[u] /\ got[u] # made + 1
      <4>1. \A d \in Classes : Linked(d) \subseteq 1..made
        BY <1>0, LinkedExist
      <4>2. \A u \in Threads : held[u] \subseteq 1..made /\ got[u] \in 0..made
        BY <1>0 DEF Types
      <4>3. made + 1 \notin 0..made /\ made + 1 \notin 1..made
        BY <2>2
      <4> QED
        BY <4>1, <4>2, <4>3
    <3>3. \A d \in Classes : (Linked(d))' = Linked(d)
      BY <1>1 DEF Linked
    <3>4. \A d \in Classes, u \in Threads : got'[u] \notin Linked(d)
      BY <2>4, <3>1, <3>2
    <3>5. \A u, v \in Threads : /\ got'[u] \notin held[v]
                                /\ u # v /\ got'[u] # None => got'[u] # got'[v]
      BY <2>4, <3>1, <3>2
    <3>6. \A b \in 1..made' : \/ \E d \in Classes : b \in Linked(d)
                              \/ \E u \in Threads : b \in held[u] \/ got'[u] = b
      <4> SUFFICES ASSUME NEW b \in 1..made'
                   PROVE  \/ \E d \in Classes : b \in Linked(d)
                          \/ \E u \in Threads : b \in held[u] \/ got'[u] = b
        OBVIOUS
      <4>1. b = made + 1 \/ (b \in 1..made /\ b # None)
        BY <2>2 DEF None
      <4> QED
        BY <1>1, <2>4, <3>1, <4>1
    <3> QED
      BY <1>1, <3>1, <3>3, <3>4, <3>5, <3>6 DEF Owner
  <2>10. Fits'
    <3>1. \A d \in Classes :
            (Linked(d))' \subseteq Linked(d) \cup (IF d = c THEN (made + 1)..(made + n) ELSE {})
      BY <1>1 DEF Linked
    <3>2. \A d \in Classes : block_size'[d] \in {0, BlockSize[d]}
      BY <1>0, <1>1 DEF Fits
    <3>3. \A u \in Threads : tpc'[u] \in Carrying =>
             \/ tpc[u] \in Carrying /\ got'[u] = got[u] /\ call'[u] = call[u]
             \/ got'[u] \in (made + 1)..(made + n) /\ c = System
      <4>1. made + 1 \in (made + 1)..(made + n)
        BY <2>1, <2>2
      <4> QED
        BY <1>2, <2>1, <2>3, <2>4, <4>1
    <3> QED
      BY <1>0, <1>1, <2>1, <3>1, <3>2, <3>3, ObtainFits
  <2>11. Exact'
    <3>1. pool' = "live" => pool = "live" /\ Due' = Due
      <4> SUFFICES ASSUME pool = "live" PROVE Due' = Due
        BY <1>1
      <4>1. Due' = Due \ {t} /\ t \notin Due
        BY <1>0, <1>1, <1>2, DueMoves DEF Due
      <4> QED
        BY <4>1
    <3>2. \A u \in Threads : tpc'[u] \in Storing => tpc[u] \in Storing
      BY <2>1, <2>3 DEF Storing
    <3> QED
      BY <1>0, <1>1, <3>1, <3>2, ExactStays
  <2> QED
    BY <2>5, <2>6, <2>7, <2>8, <2>9, <2>10, <2>11 DEF IInv
<1>3. CASE /\ tpc' = [tpc EXCEPT ![t] = "idle"]
           /\ call' = [call EXCEPT ![t] = NoCall]
           /\ UNCHANGED <<heap, got>>
  <2>1. /\ tpc' \in [Threads -> TPCs] /\ tpc'[t] = "idle"
        /\ \A u \in Threads \ {t} : tpc'[u] = tpc[u] /\ call'[u] = call[u]
        /\ call' \in [Threads -> [op : Ops, size : Nat, old : 0..made]]
    <3>1. NoCall \in [op : Ops, size : Nat, old : 0..made]
      BY <1>0 DEF NoCall, Ops, None, Types
    <3>2. /\ "idle" \in TPCs /\ tpc \in [Threads -> TPCs]
          /\ call \in [Threads -> [op : Ops, size : Nat, old : 0..made]]
      BY <1>0 DEF TPCs, Types
    <3> QED
      BY <1>3, <3>1, <3>2
  <2>2. Types'
    BY ONLY <1>0, <1>1, <1>3, <2>1 DEF Types, heap
  <2>3. Counts' /\ Owner' /\ Quiet'
    BY <1>0, <1>1, <1>3, OwnerStays, QuietStays
  <2>4. Work'
    <3>1. WorkOf(t)'
      BY <1>1, <1>3, <2>1 DEF WorkOf, Carrying, Allocating
    <3> QED
      BY <1>0, <1>1, <1>3, <2>1, <3>1, WorkMoves
  <2>5. Fits'
    <3>1. \A u \in Threads : tpc'[u] \in Carrying => Good(got'[u], call'[u].size)
      BY <1>0, <1>3, <2>1 DEF Fits, Carrying
    <3> QED
      BY <1>0, <1>1, <1>3, <3>1, FitsStays
  <2>6. Exact'
    <3>1. Due' = Due
      BY <1>0, <1>1, <1>3, DueMoves DEF Due
    <3>2. \A u \in Threads : tpc'[u] \in Storing => tpc[u] \in Storing
      BY <2>1 DEF Storing
    <3> QED
      BY <1>0, <1>1, <3>1, <3>2, ExactStays
  <2> QED
    BY <2>2, <2>3, <2>4, <2>5, <2>6 DEF IInv
<1> QED
  BY <1>2, <1>3 DEF AllocMalloc

(* What callers hold is finite.                                            *)
LEMMA OwnedFinite ==
    ASSUME Types
    PROVE  IsFiniteSet(Owned) /\ Cardinality(Owned) \in Nat
<1>1. Owned \subseteq Blocks
  BY Constants DEF Owned, Types
<1>2. IsFiniteSet(Blocks)
  BY Constants, FS_Interval
<1> QED
  BY <1>1, <1>2, FS_Subset, FS_CardinalityType

(* What callers hold exists.                                               *)
LEMMA HeldExist ==
    ASSUME Types, NEW t \in Threads
    PROVE  held[t] \subseteq 1..made /\ held[t] \subseteq Blocks
  BY Constants DEF Types

(* A block goes to the caller.                                             *)
LEMMA ReturnIInv ==
    ASSUME IInv, NEW t \in Threads, AllocReturn(t)
    PROVE  IInv'
<1>0. Types /\ Counts /\ Work /\ Quiet /\ Owner /\ Fits /\ Exact
  BY DEF IInv
<1>1. PICK b : b = got[t]
  OBVIOUS
<1>2. /\ made \in 0..MaxBlocks /\ held \in [Threads -> SUBSET (1..made)]
      /\ got \in [Threads -> 0..made] /\ asked \in [Blocks -> Nat]
      /\ tpc \in [Threads -> TPCs] /\ want \in [Threads -> Nat]
      /\ call \in [Threads -> [op : Ops, size : Nat, old : 0..made]]
  BY <1>0 DEF Types
<1>3. /\ UNCHANGED <<pool, state, block_size, free_list, free_blocks, total_blocks, made, origin,
                     capacity, stats, reg, overlap>>
      /\ tpc[t] = "return" /\ held' = [held EXCEPT ![t] = @ \cup {b}]
      /\ asked' = [asked EXCEPT ![b] = call[t].size] /\ got' = [got EXCEPT ![t] = None]
      /\ want' = [want EXCEPT ![t] = 0]
  BY <1>1 DEF AllocReturn
<1>4. b \in 1..made /\ b \in Blocks /\ b # None
  <2>1. b # None /\ b \in 0..made
    BY <1>0, <1>1, <1>2, <1>3 DEF Work, WorkOf, Carrying
  <2> QED
    BY <1>2, <2>1, Constants DEF None
<1>5. PICK x \in {"idle", "give"} :
         /\ tpc' = [tpc EXCEPT ![t] = x]
         /\ x = "idle" => call' = [call EXCEPT ![t] = NoCall]
         /\ x = "give" => call' = call /\ call[t].op = "realloc"
  BY DEF AllocReturn
<1>6. /\ tpc' \in [Threads -> TPCs] /\ tpc'[t] = x
      /\ \A u \in Threads \ {t} : tpc'[u] = tpc[u]
  BY <1>2, <1>5 DEF TPCs
<1>7. /\ call' \in [Threads -> [op : Ops, size : Nat, old : 0..made]]
      /\ \A u \in Threads \ {t} : call'[u] = call[u]
  <2>1. NoCall \in [op : Ops, size : Nat, old : 0..made]
    BY <1>2 DEF NoCall, Ops, None
  <2> QED
    BY <1>2, <1>5, <2>1
<1>8. /\ held' \in [Threads -> SUBSET (1..made)] /\ held'[t] = held[t] \cup {b}
      /\ \A u \in Threads \ {t} : held'[u] = held[u]
  BY <1>2, <1>3, <1>4
<1>9. /\ got' \in [Threads -> 0..made] /\ got'[t] = None /\ want' \in [Threads -> Nat]
      /\ \A u \in Threads \ {t} : got'[u] = got[u]
  BY <1>2, <1>3 DEF None
<1>10. /\ asked' \in [Blocks -> Nat] /\ asked'[b] = call[t].size
       /\ \A a \in Blocks \ {b} : asked'[a] = asked[a]
  BY <1>2, <1>3, <1>4
<1>11. Types'
  BY ONLY <1>0, <1>3, <1>6, <1>7, <1>8, <1>9, <1>10 DEF Types
<1>12. Counts' /\ Quiet'
  BY <1>0, <1>3, QuietStays DEF Counts
<1>13. Work'
  <2>1. WorkOf(t)'
    BY <1>0, <1>3, <1>5, <1>6, <1>8, <1>9 DEF Work, WorkOf, Carrying, Allocating
  <2> QED
    BY <1>0, <1>3, <1>6, <1>7, <1>8, <1>9, <2>1, WorkMoves
<1>14. pool = "live" => \A u \in Threads : b \notin held[u]
  BY <1>0, <1>1 DEF Owner
<1>15. Owner'
  <2> SUFFICES ASSUME pool = "live" PROVE Owner'
    BY <1>3 DEF Owner
  <2>1. /\ \A d \in Classes : Distinct(free_list[d])
        /\ \A d, e \in Classes : d # e => Linked(d) \cap Linked(e) = {}
        /\ \A d \in Classes, u \in Threads :
              held[u] \cap Linked(d) = {} /\ got[u] \notin Linked(d)
        /\ \A u, v \in Threads :
              /\ got[u] \notin held[v]
              /\ u # v => held[u] \cap held[v] = {}
              /\ u # v /\ got[u] # None => got[u] # got[v]
        /\ \A a \in 1..made : \/ \E d \in Classes : a \in Linked(d)
                              \/ \E u \in Threads : a \in held[u] \/ got[u] = a
    BY <1>0 DEF Owner
  <2>2. \A d \in Classes : (Linked(d))' = Linked(d) /\ Linked(d) \subseteq 1..made
    BY <1>0, <1>3, LinkedExist DEF Linked
  <2>3. None \notin 1..made
    BY <1>2 DEF None
  <2>4. \A d \in Classes, u \in Threads :
           held'[u] \cap Linked(d) = {} /\ got'[u] \notin Linked(d)
    BY <1>1, <1>8, <1>9, <2>1, <2>2, <2>3
  <2>5. \A u, v \in Threads : got'[u] \notin held'[v]
    <3> SUFFICES ASSUME NEW u \in Threads, NEW v \in Threads PROVE got'[u] \notin held'[v]
      OBVIOUS
    <3>1. CASE u = t
      BY <1>8, <1>9, <2>3, <3>1
    <3>2. CASE u # t
      BY <1>1, <1>4, <1>8, <1>9, <2>1, <3>2
    <3> QED
      BY <3>1, <3>2
  <2>6. \A u, v \in Threads : /\ u # v => held'[u] \cap held'[v] = {}
                              /\ u # v /\ got'[u] # None => got'[u] # got'[v]
    BY <1>8, <1>9, <1>14, <2>1
  <2>7. \A a \in 1..made : \/ \E d \in Classes : a \in Linked(d)
                           \/ \E u \in Threads : a \in held'[u] \/ got'[u] = a
    <3> SUFFICES ASSUME NEW a \in 1..made
                 PROVE  \/ \E d \in Classes : a \in Linked(d)
                        \/ \E u \in Threads : a \in held'[u] \/ got'[u] = a
      OBVIOUS
    <3>1. CASE a = b
      BY <1>8, <3>1
    <3>2. CASE a # b
      BY <1>1, <1>8, <1>9, <2>1, <3>2
    <3> QED
      BY <3>1, <3>2
  <2> QED
    BY <1>3, <2>1, <2>2, <2>4, <2>5, <2>6, <2>7 DEF Owner
<1>16. Fits'
  <2>1. \A a, n : Good(a, n)' <=> Good(a, n)
    BY <1>3 DEF Good
  <2>2. \A d \in Classes : (Linked(d))' = Linked(d)
    BY <1>3 DEF Linked
  <2>3. (\A u \in Threads : tpc[u] \in Carrying => Good(got[u], call[u].size))'
    <3> SUFFICES ASSUME NEW u \in Threads, tpc'[u] \in Carrying
                 PROVE  (Good(got[u], call[u].size))'
      OBVIOUS
    <3>1. u # t
      BY <1>6 DEF Carrying
    <3> QED
      BY <1>0, <1>3, <1>6, <1>7, <1>9, <3>1 DEF Fits, Good
  <2>4. BlockFits'
    <3> SUFFICES ASSUME NEW u \in Threads, NEW a \in held'[u],
                        origin[a] # System /\ capacity[a] > 0
                 PROVE  capacity[a] >= asked'[a]
      BY <1>3 DEF BlockFits
    <3>1. CASE a = b
      <4>1. Good(b, call[t].size)
        BY <1>0, <1>1, <1>3 DEF Fits, Carrying
      <4> QED
        BY <1>10, <3>1, <4>1 DEF Good
    <3>2. CASE a # b
      <4>1. a \in held[u] /\ a \in Blocks
        BY <1>0, <1>8, <3>2, HeldExist
      <4> QED
        BY <1>0, <1>10, <3>2, <4>1 DEF Fits, BlockFits
    <3> QED
      BY <3>1, <3>2
  <2> QED
    BY <1>0, <1>3, <2>1, <2>2, <2>3, <2>4 DEF Fits
<1>17. Exact'
  <2> SUFFICES ASSUME ~overlap PROVE Exact'
    BY <1>3 DEF Exact
  <2>1. \A u \in Threads : tpc'[u] \in Storing => u # t /\ tpc[u] \in Storing
    BY <1>6 DEF Storing
  <2>2. pool = "live" =>
           stats.allocation_count - stats.free_count = Cardinality(Owned') + Cardinality(Due')
    <3> SUFFICES ASSUME pool = "live"
                 PROVE  stats.allocation_count - stats.free_count
                            = Cardinality(Owned') + Cardinality(Due')
      OBVIOUS
    <3>1. Owned' = Owned \cup {b}
      BY <1>8 DEF Owned
    <3>2. b \notin Owned
      BY <1>14 DEF Owned
    <3>3. IsFiniteSet(Owned) /\ Cardinality(Owned) \in Nat
      BY <1>0, OwnedFinite
    <3>4. Cardinality(Owned') = Cardinality(Owned) + 1
      BY <3>1, <3>2, <3>3, FS_AddElement
    <3>5. t \in Due
      BY <1>3 DEF Due
    <3>6. Cardinality(Due) \in Nat /\ Cardinality(Due') = Cardinality(Due) - 1
      BY <1>0, <1>5, <3>5, DueMoves
    <3>7. stats.allocation_count - stats.free_count = Cardinality(Owned) + Cardinality(Due)
      BY <1>0 DEF Exact
    <3> QED
      BY ONLY <3>3, <3>4, <3>6, <3>7
  <2> QED
    BY <1>0, <1>3, <2>1, <2>2 DEF Exact
<1> QED
  BY <1>11, <1>12, <1>13, <1>15, <1>16, <1>17 DEF IInv

(* A block comes back.                                                     *)
LEMMA GiveIInv ==
    ASSUME IInv, NEW t \in Threads, FreeGive(t)
    PROVE  IInv'
<1>0. Types /\ Counts /\ Work /\ Quiet /\ Owner /\ Fits /\ Exact
  BY DEF IInv
<1>1. PICK b : b = call[t].old
  OBVIOUS
<1>2. /\ made \in 0..MaxBlocks /\ held \in [Threads -> SUBSET (1..made)]
      /\ got \in [Threads -> 0..made] /\ asked \in [Blocks -> Nat]
      /\ tpc \in [Threads -> TPCs] /\ free_list \in [Classes -> Seq(1..made)]
      /\ free_blocks \in [Classes -> Nat] /\ capacity \in [Blocks -> Nat]
      /\ call \in [Threads -> [op : Ops, size : Nat, old : 0..made]]
  BY <1>0 DEF Types
<1>3. /\ UNCHANGED <<pool, state, made, origin, capacity, want, got, stats, reg, overlap>>
      /\ tpc[t] = "give" /\ held' = [held EXCEPT ![t] = @ \ {b}]
      /\ asked' = [asked EXCEPT ![b] = 0]
  BY <1>1 DEF FreeGive
<1>4. b \in held[t] /\ b \in 1..made /\ b \in Blocks
  <2>1. b \in held[t]
    BY <1>0, <1>1, <1>3 DEF Work, WorkOf
  <2> QED
    BY <1>2, <2>1, Constants
<1>5. PICK x \in {"idle", "free_load"} :
         /\ tpc' = [tpc EXCEPT ![t] = x]
         /\ x = "free_load" => pool = "live" /\ Push(1, b) /\ call' = call
         /\ x = "idle" => /\ pool # "live" /\ UNCHANGED pools
                          /\ call' = [call EXCEPT ![t] = NoCall]
  BY <1>1 DEF FreeGive, HomePool
<1>6. /\ tpc' \in [Threads -> TPCs] /\ tpc'[t] = x
      /\ \A u \in Threads \ {t} : tpc'[u] = tpc[u]
  BY <1>2, <1>5 DEF TPCs
<1>7. /\ call' \in [Threads -> [op : Ops, size : Nat, old : 0..made]]
      /\ \A u \in Threads \ {t} : call'[u] = call[u]
  <2>1. NoCall \in [op : Ops, size : Nat, old : 0..made]
    BY <1>2 DEF NoCall, Ops, None
  <2> QED
    BY <1>2, <1>5, <2>1
<1>8. /\ held' \in [Threads -> SUBSET (1..made)] /\ held'[t] = held[t] \ {b}
      /\ \A u \in Threads \ {t} : held'[u] = held[u]
  BY <1>2, <1>3, <1>4
<1>9. /\ asked' \in [Blocks -> Nat] /\ asked'[b] = 0
      /\ \A a \in Blocks \ {b} : asked'[a] = asked[a]
  BY <1>2, <1>3, <1>4
<1>10. Work'
  <2>1. WorkOf(t)'
    BY <1>0, <1>3, <1>5, <1>6 DEF Work, WorkOf, Carrying, Allocating
  <2> QED
    BY <1>0, <1>3, <1>6, <1>7, <1>8, <2>1, WorkMoves
<1>11. Quiet'
  BY <1>0, <1>3, <1>5, QuietStays DEF pools
<1>12. /\ UNCHANGED <<block_size, total_blocks>>
       /\ free_list' \in [Classes -> Seq(1..made)] /\ free_blocks' \in [Classes -> Nat]
       /\ Counts'
       /\ x = "free_load" =>
             /\ Distinct(free_list'[1]) /\ (Linked(1))' = Linked(1) \cup {b}
             /\ \A d \in Classes \ {1} : free_list'[d] = free_list[d]
       /\ x = "idle" => free_list' = free_list
  <2>1. CASE x = "idle"
    BY <1>0, <1>2, <1>5, <2>1 DEF Counts, pools
  <2>2. CASE x = "free_load"
    <3>1. /\ free_list' = [free_list EXCEPT ![1] = <<b>> \o @]
          /\ free_blocks' = [free_blocks EXCEPT ![1] = @ + 1]
          /\ UNCHANGED <<block_size, total_blocks>> /\ pool = "live"
      BY <1>5, <2>2 DEF Push
    <3> DEFINE p == <<b>>
               q == free_list[1]
    <3>2. /\ p \in Seq(1..made) /\ Len(p) = 1 /\ Distinct(p) /\ Elements(p) = {b}
      BY <1>4, OneElement
    <3>3. 1 \in Classes /\ q \in Seq(1..made) /\ Distinct(q) /\ b \notin Elements(q)
      BY <1>0, <1>2, <1>4, <3>1, Constants DEF Owner, Linked
    <3> HIDE DEF p, q
    <3>4. Elements(p) \cap Elements(q) = {}
      BY <3>2, <3>3
    <3>5. /\ p \o q \in Seq(1..made) /\ Len(p \o q) = Len(p) + Len(q)
          /\ Distinct(p \o q) /\ Elements(p \o q) = Elements(p) \cup Elements(q)
      <4>1. p \in Seq(1..made) /\ q \in Seq(1..made) /\ Distinct(p) /\ Distinct(q)
        BY <3>2, <3>3
      <4> QED
        BY ONLY <4>1, <3>4, ConcatElements
    <3>6. /\ free_list' \in [Classes -> Seq(1..made)] /\ free_list'[1] = p \o q
          /\ \A d \in Classes \ {1} : free_list'[d] = free_list[d]
      BY <1>2, <3>1, <3>3, <3>5 DEF p, q
    <3>7. (Linked(1))' = Linked(1) \cup {b}
      BY <3>2, <3>5, <3>6 DEF Linked, q
    <3>8. /\ free_blocks' \in [Classes -> Nat] /\ free_blocks'[1] = free_blocks[1] + 1
          /\ \A d \in Classes \ {1} : free_blocks'[d] = free_blocks[d]
      BY <1>2, <3>1, <3>3
    <3>9. Counts'
      <4>1. free_blocks[1] = Len(q) /\ Len(q) \in Nat
        BY <1>0, <3>3 DEF Counts, q
      <4>2. free_blocks'[1] = Len(free_list'[1])
        BY <3>2, <3>5, <3>6, <3>8, <4>1
      <4> QED
        BY <1>0, <3>6, <3>8, <4>2 DEF Counts
    <3> QED
      BY <2>2, <3>1, <3>5, <3>6, <3>7, <3>8, <3>9
  <2> QED
    BY <2>1, <2>2
<1>13. Types'
  BY ONLY <1>0, <1>3, <1>6, <1>7, <1>8, <1>9, <1>12 DEF Types
<1>14. x = "free_load" => \A d \in Classes \ {1} : (Linked(d))' = Linked(d)
  BY <1>12 DEF Linked
<1>15. pool = "live" => x = "free_load" /\ \A u \in Threads \ {t} : b \notin held[u]
  BY <1>0, <1>4, <1>5 DEF Owner
<1>16. Owner'
  <2> SUFFICES ASSUME pool = "live" PROVE Owner'
    BY <1>3 DEF Owner
  <2>1. /\ \A d \in Classes : Distinct(free_list[d])
        /\ \A d, e \in Classes : d # e => Linked(d) \cap Linked(e) = {}
        /\ \A d \in Classes, u \in Threads :
              held[u] \cap Linked(d) = {} /\ got[u] \notin Linked(d)
        /\ \A u, v \in Threads :
              /\ got[u] \notin held[v]
              /\ u # v => held[u] \cap held[v] = {}
              /\ u # v /\ got[u] # None => got[u] # got[v]
        /\ \A a \in 1..made : \/ \E d \in Classes : a \in Linked(d)
                              \/ \E u \in Threads : a \in held[u] \/ got[u] = a
    BY <1>0 DEF Owner
  <2>2. /\ (Linked(1))' = Linked(1) \cup {b} /\ 1 \in Classes
        /\ \A d \in Classes \ {1} : (Linked(d))' = Linked(d)
    BY <1>12, <1>14, <1>15, Constants
  <2>3. \A d \in Classes : Distinct(free_list'[d])
    BY <1>12, <1>15, <2>1
  <2>4. /\ \A d \in Classes : b \notin Linked(d)
        /\ \A u \in Threads : b \notin held'[u] /\ got[u] # b /\ held'[u] \subseteq held[u]
    BY <1>4, <1>8, <1>15, <2>1
  <2>5. \A d, e \in Classes : d # e => (Linked(d))' \cap (Linked(e))' = {}
    BY <2>1, <2>2, <2>4
  <2>6. \A d \in Classes, u \in Threads :
           held'[u] \cap (Linked(d))' = {} /\ got[u] \notin (Linked(d))'
    BY <2>1, <2>2, <2>4
  <2>7. \A u, v \in Threads : /\ got[u] \notin held'[v]
                              /\ u # v => held'[u] \cap held'[v] = {}
    BY <2>1, <2>4
  <2>8. \A a \in 1..made : \/ \E d \in Classes : a \in (Linked(d))'
                           \/ \E u \in Threads : a \in held'[u] \/ got[u] = a
    <3> SUFFICES ASSUME NEW a \in 1..made
                 PROVE  \/ \E d \in Classes : a \in (Linked(d))'
                        \/ \E u \in Threads : a \in held'[u] \/ got[u] = a
      OBVIOUS
    <3>1. CASE a = b
      BY <2>2, <3>1
    <3>2. CASE a # b
      BY <1>8, <2>1, <2>2, <3>2
    <3> QED
      BY <3>1, <3>2
  <2> QED
    BY <1>3, <2>1, <2>3, <2>5, <2>6, <2>7, <2>8 DEF Owner
<1>17. Fits'
  <2>1. \A a, n : Good(a, n)' <=> Good(a, n)
    BY <1>3 DEF Good
  <2>2. (\A d \in Classes : \A a \in Linked(d) : Good(a, BlockSize[d]))'
    <3> SUFFICES ASSUME NEW d \in Classes, NEW a \in (Linked(d))' PROVE Good(a, BlockSize[d])
      BY <2>1
    <3>1. CASE a \in Linked(d)
      BY <1>0, <3>1 DEF Fits
    <3>2. CASE a = b /\ d = 1
      <4>1. origin[b] # System => capacity[b] \in {0, BlockSize[origin[b]]}
        BY <1>0, <1>4 DEF Fits
      <4>2. origin[b] # System => origin[b] \in Classes
        BY <1>0, <1>4 DEF Types
      <4>3. /\ \A e \in Classes : BlockSize[1] <= BlockSize[e] /\ BlockSize[e] \in Nat
            /\ BlockSize[1] \in Nat
        BY Constants
      <4>4. Good(b, BlockSize[1])
        BY ONLY <4>1, <4>2, <4>3 DEF Good
      <4> QED
        BY <3>2, <4>4
    <3> QED
      BY <1>5, <1>12, <1>14, <3>1, <3>2 DEF Linked
  <2>3. (\A u \in Threads : tpc[u] \in Carrying => Good(got[u], call[u].size))'
    <3> SUFFICES ASSUME NEW u \in Threads, tpc'[u] \in Carrying
                 PROVE  (Good(got[u], call[u].size))'
      OBVIOUS
    <3>1. u # t
      BY <1>6 DEF Carrying
    <3> QED
      BY <1>0, <1>3, <1>6, <1>7, <3>1 DEF Fits, Good
  <2>4. BlockFits'
    <3> SUFFICES ASSUME NEW u \in Threads, NEW a \in held'[u],
                        origin[a] # System /\ capacity[a] > 0
                 PROVE  capacity[a] >= asked'[a]
      BY <1>3 DEF BlockFits
    <3>1. a \in held[u] /\ a \in Blocks
      BY <1>0, <1>8, HeldExist
    <3>2. CASE a = b
      <4>1. capacity[a] \in Nat /\ asked'[a] = 0
        BY <1>2, <1>9, <3>1, <3>2
      <4> QED
        BY <4>1
    <3>3. CASE a # b
      BY <1>0, <1>9, <3>1, <3>3 DEF Fits, BlockFits
    <3> QED
      BY <3>2, <3>3
  <2> QED
    BY <1>0, <1>3, <1>12, <2>2, <2>3, <2>4 DEF Fits
<1>18. Exact'
  <2> SUFFICES ASSUME ~overlap PROVE Exact'
    BY <1>3 DEF Exact
  <2>1. \A u \in Threads : tpc'[u] \in Storing => u # t /\ tpc[u] \in Storing
    BY <1>6 DEF Storing
  <2>2. pool = "live" =>
           stats.allocation_count - stats.free_count = Cardinality(Owned') + Cardinality(Due')
    <3> SUFFICES ASSUME pool = "live"
                 PROVE  stats.allocation_count - stats.free_count
                            = Cardinality(Owned') + Cardinality(Due')
      OBVIOUS
    <3>1. Owned' = Owned \ {b}
      BY <1>8, <1>15 DEF Owned
    <3>2. b \in Owned
      BY <1>4 DEF Owned
    <3>3. IsFiniteSet(Owned) /\ Cardinality(Owned) \in Nat
      BY <1>0, OwnedFinite
    <3>4. Cardinality(Owned') = Cardinality(Owned) - 1
      BY <3>1, <3>2, <3>3, FS_RemoveElement
    <3>5. t \notin Due
      BY <1>3 DEF Due
    <3>6. Cardinality(Due) \in Nat /\ Cardinality(Due') = Cardinality(Due) + 1
      BY <1>0, <1>5, <1>15, <3>5, DueMoves
    <3>7. stats.allocation_count - stats.free_count = Cardinality(Owned) + Cardinality(Due)
      BY <1>0 DEF Exact
    <3> QED
      BY ONLY <3>3, <3>4, <3>6, <3>7
  <2> QED
    BY <1>0, <1>3, <2>1, <2>2 DEF Exact
<1> QED
  BY <1>10, <1>11, <1>12, <1>13, <1>16, <1>17, <1>18 DEF IInv

-----------------------------------------------------------------------------
(* The module's life cycle.                                                *)

(* init allocates the module's data, or fails.                             *)
LEMMA ModuleInitIInv ==
    ASSUME IInv, ModuleInit
    PROVE  IInv'
<1>0. Types /\ Counts /\ Work /\ Quiet /\ Owner /\ Fits /\ Exact
  BY DEF IInv
<1>1. /\ pool = "null" /\ state = "UNINITIALIZED"
      /\ UNCHANGED <<block_size, free_list, free_blocks, total_blocks, made, origin, capacity,
                     held, asked, tpc, call, want, got, stats, reg, overlap>>
      /\ \/ pool' = "live" /\ state' = "INITIALIZED"
         \/ pool' = pool /\ state' = "ERROR"
  BY DEF ModuleInit
<1>2. /\ stats = ZeroStats /\ made = 0 /\ \A c \in Classes : free_list[c] = <<>>
      /\ \A t \in Threads : held[t] = {} /\ tpc[t] = "idle" /\ got[t] = None
  BY <1>0, <1>1 DEF Quiet, Work, WorkOf, Carrying
<1>3. Types' /\ Counts'
  BY <1>0, <1>1 DEF Types, Counts
<1>4. Work'
  BY <1>1, <1>2 DEF Work, WorkOf, Carrying, Allocating
<1>5. Quiet'
  BY <1>1, <1>2 DEF Quiet
<1>6. \A c \in Classes : Linked(c) = {} /\ (Linked(c))' = {}
  BY <1>1, <1>2 DEF Linked, Elements
<1>7. Owner'
  <2>1. \A c \in Classes : Distinct(free_list'[c])
    BY <1>1, <1>2 DEF Distinct
  <2> QED
    BY <1>1, <1>2, <1>6, <2>1 DEF Owner
<1>8. Fits'
  <2>1. \A u \in Threads : tpc'[u] \in Carrying => Good(got'[u], call'[u].size)
    BY <1>1, <1>2 DEF Carrying
  <2> QED
    BY <1>0, <1>1, <2>1, FitsStays
<1>9. Exact'
  <2>1. Owned' = {} /\ Due' = {} /\ \A t \in Threads : tpc'[t] \notin Storing
    BY <1>1, <1>2 DEF Owned, Due, Storing
  <2>2. Cardinality(Owned') = 0 /\ Cardinality(Due') = 0
    BY <2>1, FS_EmptySet
  <2>3. stats'.allocation_count - stats'.free_count = 0
    BY <1>1, <1>2 DEF ZeroStats
  <2> QED
    BY <2>1, <2>2, <2>3 DEF Exact
<1> QED
  BY <1>3, <1>4, <1>5, <1>7, <1>8, <1>9 DEF IInv

(* init_memory_pool, complete or cut short.                                *)
LEMMA InitPoolIInv ==
    ASSUME IInv, NEW c \in Classes, NEW n \in Nat, InitMemoryPool(c, n),
           state' \in {state, "ERROR"}
    PROVE  IInv'
<1>0. Types /\ Counts /\ Work /\ Quiet /\ Owner /\ Fits /\ Exact
  BY DEF IInv
<1>1. /\ state = "INITIALIZED" /\ block_size[c] = 0
      /\ block_size' = [block_size EXCEPT ![c] = BlockSize[c]]
      /\ Obtain(n, c, BlockSize[c])
      /\ free_list' = [free_list EXCEPT ![c] = Fresh(n)]
      /\ free_blocks' = [free_blocks EXCEPT ![c] = n]
      /\ total_blocks' = [total_blocks EXCEPT ![c] = n]
      /\ UNCHANGED <<pool, held, asked, tpc, call, want, got, stats, reg, overlap>>
  BY DEF InitMemoryPool
<1>2. pool = "live" /\ free_list[c] = <<>>
  BY <1>0, <1>1 DEF Quiet
<1>3. PICK cap \in Nat : cap = BlockSize[c] /\ cap # 0
  BY Constants
<1>4. /\ block_size' \in [Classes -> Nat] /\ block_size'[c] = BlockSize[c]
      /\ \A d \in Classes \ {c} : block_size'[d] = block_size[d]
      /\ total_blocks' \in [Classes -> Nat]
  BY <1>0, <1>1, <1>3 DEF Types
<1>5. /\ free_list' = [free_list EXCEPT ![c] = Fresh(n) \o @]
      /\ free_blocks' = [free_blocks EXCEPT ![c] = @ + n]
  <2>1. made \in Nat
    BY <1>0, Constants DEF Types
  <2>2. Fresh(n) \in Seq(1..(made + n))
    BY <2>1, FreshElements
  <2>3. Fresh(n) \o free_list[c] = Fresh(n)
    BY <1>2, <2>2, ConcatEmptySeq
  <2>4. free_blocks[c] + n = n
    <3>1. free_blocks[c] = 0
      BY <1>0, <1>2, EmptySeq DEF Counts
    <3> QED
      BY <3>1
  <2> QED
    BY <1>1, <2>3, <2>4
<1>6. /\ Counts' /\ Owner'
      /\ free_list' \in [Classes -> Seq(1..made')] /\ free_blocks' \in [Classes -> Nat]
      /\ (Linked(c))' = Linked(c) \cup (made + 1)..(made + n)
      /\ \A d \in Classes \ {c} : (Linked(d))' = Linked(d)
      /\ \A d \in Classes \ {c} : free_list'[d] = free_list[d]
  BY <1>0, <1>1, <1>2, <1>3, <1>5, LinkFresh
<1>7. /\ made' \in 0..MaxBlocks
      /\ origin' \in [Blocks -> Classes \cup {System}] /\ capacity' \in [Blocks -> Nat]
      /\ held \in [Threads -> SUBSET (1..made')] /\ got \in [Threads -> 0..made']
      /\ call \in [Threads -> [op : Ops, size : Nat, old : 0..made']]
  <2>1. c \in Classes \cup {System}
    OBVIOUS
  <2> QED
    BY <1>0, <1>1, <1>3, <2>1, ObtainTypes
<1>8. Types'
  <2>1. state' \in {"UNINITIALIZED", "INITIALIZED", "STARTED", "STOPPED", "ERROR"}
    BY <1>1
  <2> QED
    BY ONLY <1>0, <1>1, <1>4, <1>6, <1>7, <2>1 DEF Types
<1>9. Work'
  BY <1>0, <1>1 DEF Work, WorkOf, Fitting
<1>10. Quiet'
  BY <1>0, <1>1, <1>2, <1>3, <1>4, <1>6 DEF Quiet
<1>11. Fits'
  <2>1. \A d \in Classes :
          (Linked(d))' \subseteq Linked(d) \cup (IF d = c THEN (made + 1)..(made + n) ELSE {})
    BY <1>6
  <2>2. \A d \in Classes : block_size'[d] \in {0, BlockSize[d]}
    BY <1>0, <1>4 DEF Fits
  <2>3. \A u \in Threads : tpc'[u] \in Carrying =>
           \/ tpc[u] \in Carrying /\ got'[u] = got[u] /\ call'[u] = call[u]
           \/ got'[u] \in (made + 1)..(made + n) /\ c = System
    BY <1>1
  <2>4. c \in Classes \cup {System}
    OBVIOUS
  <2> QED
    BY <1>0, <1>1, <1>3, <2>1, <2>2, <2>3, <2>4, ObtainFits
<1>12. Exact'
  BY <1>0, <1>1, ExactStays DEF Due
<1> QED
  BY <1>6, <1>8, <1>9, <1>10, <1>11, <1>12 DEF IInv

(* start returns, and stop.                                                *)
LEMMA StateIInv ==
    ASSUME IInv, StartReturns \/ Stop
    PROVE  IInv'
<1>0. Types /\ Counts /\ Work /\ Quiet /\ Owner /\ Fits /\ Exact
  BY DEF IInv
<1>1. /\ UNCHANGED <<pool, block_size, free_list, free_blocks, total_blocks, made, origin, capacity,
                     held, asked, tpc, call, want, got, stats, reg, overlap>>
      /\ state \in {"INITIALIZED", "STARTED"} /\ state' \in {"STARTED", "STOPPED"}
  BY DEF StartReturns, Stop
<1>2. Types' /\ Work'
  BY <1>0, <1>1 DEF Types, Work, WorkOf, Fitting
<1>3. Counts' /\ Owner'
  BY <1>0, <1>1, OwnerStays
<1>4. Quiet'
  BY <1>0, <1>1 DEF Quiet
<1>5. Fits'
  <2>1. \A u \in Threads : tpc'[u] \in Carrying => Good(got'[u], call'[u].size)
    BY <1>0, <1>1 DEF Fits
  <2> QED
    BY <1>0, <1>1, <2>1, FitsStays
<1>6. Exact'
  BY <1>0, <1>1, ExactStays DEF Due
<1> QED
  BY <1>2, <1>3, <1>4, <1>5, <1>6 DEF IInv

(* cleanup frees what is on the lists and the module's data.               *)
LEMMA CleanupIInv ==
    ASSUME IInv, Cleanup
    PROVE  IInv'
<1>0. Types /\ Counts /\ Work /\ Quiet /\ Owner /\ Fits /\ Exact
  BY DEF IInv
<1>1. /\ UNCHANGED <<block_size, made, origin, capacity, held, asked, tpc, call, want, got, stats,
                     reg, overlap>>
      /\ pool = "live" /\ pool' = "freed" /\ state' = "UNINITIALIZED"
      /\ free_list' = [c \in Classes |-> <<>>]
      /\ free_blocks' = [c \in Classes |-> 0] /\ total_blocks' = [c \in Classes |-> 0]
  BY DEF Cleanup
<1>2. free_list' \in [Classes -> Seq(1..made)]
  BY <1>1, EmptySeq
<1>3. free_blocks' \in [Classes -> Nat] /\ total_blocks' \in [Classes -> Nat]
  BY <1>1
<1>4. Types'
  BY ONLY <1>0, <1>1, <1>2, <1>3 DEF Types
<1>5. Counts'
  BY <1>1, EmptySeq DEF Counts
<1>6. Work'
  BY <1>0, <1>1 DEF Work, WorkOf, Fitting
<1>7. Quiet' /\ Owner'
  BY <1>1 DEF Quiet, Owner
<1>8. Fits'
  <2>1. \A c \in Classes : (Linked(c))' = {}
    BY <1>1 DEF Linked, Elements
  <2>2. (\A u \in Threads : tpc[u] \in Carrying => Good(got[u], call[u].size))'
    BY <1>0, <1>1 DEF Fits, Good
  <2> QED
    BY <1>0, <1>1, <2>1, <2>2 DEF Fits, BlockFits
<1>9. Exact'
  BY <1>0, <1>1, ExactStays
<1> QED
  BY <1>4, <1>5, <1>6, <1>7, <1>8, <1>9 DEF IInv

-----------------------------------------------------------------------------
(* The invariant.                                                          *)

LEMMA InitIInv ==
    ASSUME Init
    PROVE  IInv
<1>1. free_list \in [Classes -> Seq(1..made)] /\ Counts
  BY EmptySeq DEF Init, Counts
<1>2. /\ made = 0 /\ made \in 0..MaxBlocks /\ NoCall \in [op : Ops, size : Nat, old : 0..made]
      /\ ZeroStats \in Counters /\ "idle" \in TPCs
  BY Constants DEF Init, NoCall, Ops, None, ZeroStats, Counters, TPCs
<1>3. Types
  <2>1. origin \in [Blocks -> Classes \cup {System}] /\ capacity \in [Blocks -> Nat]
        /\ asked \in [Blocks -> Nat]
    BY DEF Init
  <2>2. held \in [Threads -> SUBSET (1..made)] /\ got \in [Threads -> 0..made]
    BY <1>2 DEF Init, None
  <2>3. /\ tpc \in [Threads -> TPCs] /\ want \in [Threads -> Nat]
        /\ call \in [Threads -> [op : Ops, size : Nat, old : 0..made]]
        /\ stats \in Counters /\ reg \in [Threads -> Counters]
    BY <1>2 DEF Init
  <2>4. /\ block_size \in [Classes -> Nat] /\ free_blocks \in [Classes -> Nat]
        /\ total_blocks \in [Classes -> Nat] /\ pool = "null" /\ state = "UNINITIALIZED"
        /\ overlap = FALSE
    BY DEF Init
  <2> QED
    BY ONLY <1>1, <1>2, <2>1, <2>2, <2>3, <2>4 DEF Types
<1>4. Work
  BY DEF Init, Work, WorkOf, Carrying, Allocating
<1>5. Quiet /\ Owner
  BY DEF Init, Quiet, Owner
<1>6. Fits
  <2>1. \A c \in Classes : Linked(c) = {} /\ block_size[c] = 0
    BY DEF Init, Linked, Elements
  <2>2. \A b \in Blocks : origin[b] = System
    BY DEF Init
  <2>3. \A t \in Threads : held[t] = {} /\ tpc[t] = "idle"
    BY DEF Init
  <2> QED
    BY <2>1, <2>2, <2>3 DEF Fits, BlockFits, Carrying
<1>7. Exact
  BY DEF Init, Exact, Storing
<1> QED
  BY <1>1, <1>3, <1>4, <1>5, <1>6, <1>7 DEF IInv

LEMMA StepIInv ==
    ASSUME IInv, [Next]_vars
    PROVE  IInv'
<1>1. CASE UNCHANGED vars
  <2>1. Types' /\ Counts' /\ Work' /\ Quiet'
    BY <1>1 DEF IInv, vars, Types, Counts, Work, WorkOf, Fitting, Quiet
  <2>2. Owner'
    BY <1>1 DEF IInv, vars, Owner, Linked
  <2>3. Fits'
    BY <1>1 DEF IInv, vars, Fits, BlockFits, Linked, Good
  <2>4. Exact'
    BY <1>1 DEF IInv, vars, Exact, Owned, Due
  <2> QED
    BY <2>1, <2>2, <2>3, <2>4 DEF IInv
<1>2. ASSUME NEW t \in Threads, ThreadStep(t)
      PROVE  IInv'
  BY <1>2, ControlIInv, AllocateIInv, MallocIInv, StatsLoadIInv, StatsStoreIInv, ReturnIInv,
     GiveIInv DEF ThreadStep
<1>3. ASSUME NEW t \in Threads, Call(t)
      PROVE  IInv'
  BY <1>3, CallIInv
<1>4. CASE ModuleInit
  BY <1>4, ModuleInitIInv
<1>5. CASE StartPool
  <2>1. PICK c \in Classes : InitMemoryPool(c, InitialBlocks[c]) /\ state' = state
    BY <1>5 DEF StartPool
  <2>2. InitialBlocks[c] \in Nat
    BY Constants
  <2> QED
    BY <2>1, <2>2, InitPoolIInv
<1>6. CASE StartFails
  <2>1. PICK c \in Classes : \E n \in 0..InitialBlocks[c] - 1 : InitMemoryPool(c, n)
    BY <1>6 DEF StartFails
  <2>2. PICK n \in 0..InitialBlocks[c] - 1 : InitMemoryPool(c, n)
    BY <2>1
  <2>3. n \in Nat
    BY Constants
  <2>4. state' = "ERROR"
    BY <1>6 DEF StartFails
  <2> QED
    BY <2>2, <2>3, <2>4, InitPoolIInv
<1>7. CASE StartReturns \/ Stop
  BY <1>7, StateIInv
<1>8. CASE Cleanup
  BY <1>8, CleanupIInv
<1> QED
  BY <1>1, <1>2, <1>3, <1>4, <1>5, <1>6, <1>7, <1>8 DEF Next

LEMMA Inductive == Spec => []IInv
  BY InitIInv, StepIInv, PTL DEF Spec

-----------------------------------------------------------------------------
(* The theorems.                                                           *)

(* A free list is no longer than the blocks there are.                     *)
LEMMA ListFits ==
    ASSUME Types, NEW c \in Classes, Distinct(free_list[c])
    PROVE  DOMAIN free_list[c] \subseteq Blocks
<1> DEFINE q == free_list[c]
<1>1. made \in 0..MaxBlocks /\ q \in Seq(1..made)
  BY DEF Types
<1>2. Len(q) \in Nat /\ DOMAIN q = 1..Len(q) /\ q \in [1..Len(q) -> 1..made]
  BY <1>1, LenProperties, SeqDef
<1>3. q \in Injection(1..Len(q), 1..made)
  BY <1>2 DEF Distinct, Injection, IsInjective
<1>4. /\ IsFiniteSet(1..Len(q)) /\ Cardinality(1..Len(q)) = Len(q)
      /\ IsFiniteSet(1..made) /\ Cardinality(1..made) = made
  <2>1. \A n \in Nat : IsFiniteSet(1..n) /\ Cardinality(1..n) = n
    <3> SUFFICES ASSUME NEW n \in Nat PROVE IsFiniteSet(1..n) /\ Cardinality(1..n) = n
      OBVIOUS
    <3>1. /\ IsFiniteSet(1..n) /\ 1 \in Int /\ n \in Int
          /\ Cardinality(1..n) = IF 1 > n THEN 0 ELSE n - 1 + 1
      BY FS_Interval
    <3> QED
      BY <3>1
  <2> QED
    BY <1>1, <1>2, <2>1
<1>5. Len(q) <= made
  BY <1>3, <1>4, FS_Injection
<1> QED
  BY <1>1, <1>2, <1>5, Constants

(* The places of a block are counted.                                      *)
LEMMA OnePlace ==
    ASSUME Types, Owner, pool = "live", NEW b \in Blocks
    PROVE  Places(b) = IF b <= made THEN 1 ELSE 0
<1> DEFINE A == {x \in Classes \X Blocks :
                    x[2] \in DOMAIN free_list[x[1]] /\ free_list[x[1]][x[2]] = b}
           H == {t \in Threads : b \in held[t]}
           G == {t \in Threads : got[t] = b}
<1>1. Places(b) = Cardinality(A) + Cardinality(H) + Cardinality(G)
  BY DEF Places
<1>2. /\ \A c \in Classes : Distinct(free_list[c])
      /\ \A c, d \in Classes : c # d => Linked(c) \cap Linked(d) = {}
      /\ \A c \in Classes, t \in Threads : held[t] \cap Linked(c) = {} /\ got[t] \notin Linked(c)
      /\ \A t, u \in Threads :
            /\ got[t] \notin held[u]
            /\ t # u => held[t] \cap held[u] = {}
            /\ t # u /\ got[t] # None => got[t] # got[u]
      /\ \A a \in 1..made : \/ \E c \in Classes : a \in Linked(c)
                            \/ \E t \in Threads : a \in held[t] \/ got[t] = a
  BY DEF Owner
<1>3. made \in Nat /\ b \in Nat /\ b # None /\ b >= 1
  BY Constants DEF Types
<1>4. \A x \in A : x[1] \in Classes /\ b \in Linked(x[1])
  BY DEF Linked, Elements
<1>5. /\ Cardinality({}) = 0
      /\ \A x : Cardinality({x}) = 1
  BY FS_EmptySet, FS_Singleton
<1>6. CASE b > made
  <2>1. \A c \in Classes : b \notin Linked(c)
    <3>1. b \notin 1..made
      BY <1>3, <1>6
    <3> QED
      BY <3>1, LinkedExist
  <2>2. A = {}
    BY <1>4, <2>1
  <2>3. H = {} /\ G = {}
    <3>1. \A t \in Threads : held[t] \subseteq 1..made /\ got[t] \in 0..made
      BY DEF Types
    <3>2. b \notin 1..made /\ b \notin 0..made
      BY <1>3, <1>6
    <3> QED
      BY <3>1, <3>2
  <2> HIDE DEF A, H, G
  <2> QED
    BY <1>1, <1>3, <1>5, <1>6, <2>2, <2>3
<1>7. CASE \E c \in Classes : b \in Linked(c)
  <2>1. PICK c \in Classes : b \in Linked(c)
    BY <1>7
  <2>2. PICK k \in DOMAIN free_list[c] : free_list[c][k] = b
    BY <2>1 DEF Linked, Elements
  <2>3. k \in Blocks
    BY <1>2, <2>2, ListFits
  <2>4. \A x \in A : x = <<c, k>>
    <3> SUFFICES ASSUME NEW x \in A PROVE x = <<c, k>>
      OBVIOUS
    <3>1. /\ x = <<x[1], x[2]>> /\ x[1] \in Classes
          /\ x[2] \in DOMAIN free_list[x[1]] /\ free_list[x[1]][x[2]] = b
      OBVIOUS
    <3>2. x[1] = c
      BY <1>2, <1>4, <2>1, <3>1
    <3>3. x[2] = k
      BY <1>2, <2>2, <3>1, <3>2 DEF Distinct
    <3> QED
      BY <3>1, <3>2, <3>3
  <2>5. <<c, k>> \in A
    BY <2>2, <2>3
  <2>6. A = {<<c, k>>}
    BY <2>4, <2>5
  <2>7. H = {} /\ G = {}
    BY <1>2, <2>1
  <2>8. b <= made
    BY <1>3, <2>1, LinkedExist
  <2> HIDE DEF A, H, G
  <2>9. Cardinality(A) = 1 /\ Cardinality(H) = 0 /\ Cardinality(G) = 0
    BY <1>5, <2>6, <2>7
  <2> QED
    BY <1>1, <2>8, <2>9
<1>8. CASE b <= made /\ \A c \in Classes : b \notin Linked(c)
  <2>1. A = {}
    BY <1>4, <1>8
  <2>2. b \in 1..made
    BY <1>3, <1>8
  <2>3. PICK t \in Threads : b \in held[t] \/ got[t] = b
    BY <1>2, <1>8, <2>2
  <2>4. CASE b \in held[t]
    <3>1. H = {t} /\ G = {}
      BY <1>2, <2>4
    <3> HIDE DEF A, H, G
    <3>2. Cardinality(A) = 0 /\ Cardinality(H) = 1 /\ Cardinality(G) = 0
      BY <1>5, <2>1, <3>1
    <3> QED
      BY <1>1, <1>8, <3>2
  <2>5. CASE got[t] = b
    <3>1. H = {} /\ G = {t}
      BY <1>2, <1>3, <2>5
    <3> HIDE DEF A, H, G
    <3>2. Cardinality(A) = 0 /\ Cardinality(H) = 0 /\ Cardinality(G) = 1
      BY <1>5, <2>1, <3>1
    <3> QED
      BY <1>1, <1>8, <3>2
  <2> QED
    BY <2>3, <2>4, <2>5
<1> QED
  BY <1>3, <1>6, <1>7, <1>8

(* While the module lives every block is on one free list once, with one   *)
(* caller or in the hands of one thread, and free_blocks is the length of  *)
(* its list: over allocate_from_pool, memory_pool_expand_pool,             *)
(* memory_pool_free and the steps between their critical sections.         *)
THEOREM OwnerCorrect == Spec => []SingleOwner
<1>1. IInv => SingleOwner
  BY OnePlace DEF IInv, SingleOwner, Counts
<1> QED
  BY <1>1, Inductive, PTL

(* A block of a started pool is large enough for what its holder asked for,*)
(* although memory_pool_free links every block into the small pool: a pool *)
(* block of any class is at least as large as the small pool's.            *)
THEOREM FitsCorrect == Spec => []BlockFits
<1>1. IInv => BlockFits
  BY DEF IInv, Fits
<1> QED
  BY <1>1, Inductive, PTL

(* The unlocked statistics of memory_pool_alloc and memory_pool_free are   *)
(* exact when nobody is inside the module, unless two threads have been    *)
(* between the load and the store at once.                                 *)
THEOREM StatsCorrect == Spec => []StatsExact
<1>1. IInv => StatsExact
  <2> SUFFICES ASSUME IInv, \A t \in Threads : tpc[t] = "idle", pool = "live", ~overlap
               PROVE  stats.allocation_count - stats.free_count = Cardinality(Owned)
    BY DEF StatsExact, Owned
  <2>1. Due = {}
    BY DEF Due
  <2>2. Cardinality(Due) = 0
    BY <2>1, FS_EmptySet
  <2>3. Cardinality(Owned) \in Nat
    BY OwnedFinite DEF IInv
  <2>4. stats.allocation_count - stats.free_count = Cardinality(Owned) + Cardinality(Due)
    BY DEF IInv, Exact
  <2> QED
    BY <2>2, <2>3, <2>4
<1> QED
  BY <1>1, Inductive, PTL

-----------------------------------------------------------------------------
(***************************************************************************)
(* Types, and what keeps a growing pool from undefined behaviour.          *)
(***************************************************************************)

FaultKinds == {"null_deref", "bad_unlock", "bad_free", "overread", "underwrite", "use_after_free"}

(* Only these faults are ever recorded.                                    *)
LEMMA FaultsTyped ==
    ASSUME faults \subseteq FaultKinds, [Next]_vars
    PROVE  faults' \subseteq FaultKinds
<1> USE DEF FaultKinds
<1>1. ASSUME NEW t \in Threads, AllocPop(t) PROVE faults' \subseteq FaultKinds
  BY <1>1 DEF AllocPop, Pop
<1>2. ASSUME NEW t \in Threads, AllocEmpty(t) PROVE faults' \subseteq FaultKinds
  BY <1>2 DEF AllocEmpty
<1>3. ASSUME NEW t \in Threads, AllocPlan(t) PROVE faults' \subseteq FaultKinds
  BY <1>3 DEF AllocPlan
<1>4. ASSUME NEW t \in Threads, AllocGrow(t) PROVE faults' \subseteq FaultKinds
  BY <1>4 DEF AllocGrow, Grow, Obtain
<1>5. ASSUME NEW t \in Threads, AllocGrowFails(t) PROVE faults' \subseteq FaultKinds
  BY <1>5 DEF AllocGrowFails, Grow, Obtain
<1>6. ASSUME NEW t \in Threads, AllocTake(t) PROVE faults' \subseteq FaultKinds
  BY <1>6 DEF AllocTake, Pop
<1>7. ASSUME NEW t \in Threads, AllocMalloc(t) PROVE faults' \subseteq FaultKinds
  BY <1>7 DEF AllocMalloc, Obtain
<1>8. ASSUME NEW t \in Threads, AllocStatsLoad(t) PROVE faults' \subseteq FaultKinds
  BY <1>8 DEF AllocStatsLoad
<1>9. ASSUME NEW t \in Threads, AllocStatsStore(t) PROVE faults' \subseteq FaultKinds
  BY <1>9 DEF AllocStatsStore
<1>10. ASSUME NEW t \in Threads, AllocReturn(t) PROVE faults' \subseteq FaultKinds
  BY <1>10 DEF AllocReturn
<1>11. ASSUME NEW t \in Threads, FreeGive(t) PROVE faults' \subseteq FaultKinds
  BY <1>11 DEF FreeGive, Push
<1>12. ASSUME NEW t \in Threads, FreeStatsLoad(t) PROVE faults' \subseteq FaultKinds
  BY <1>12 DEF FreeStatsLoad
<1>13. ASSUME NEW t \in Threads, FreeStatsStore(t) PROVE faults' \subseteq FaultKinds
  BY <1>13 DEF FreeStatsStore
<1>14. ASSUME NEW t \in Threads, TouchFreed(t) PROVE faults' \subseteq FaultKinds
  BY <1>14 DEF TouchFreed
<1>15. ASSUME NEW t \in Threads, Call(t) PROVE faults' \subseteq FaultKinds
  BY <1>15 DEF Call, AllocCall, ReallocCall, FreeCall, StartCall
<1>16. ASSUME ModuleInit PROVE faults' \subseteq FaultKinds
  BY <1>16 DEF ModuleInit
<1>17. ASSUME StartPool PROVE faults' \subseteq FaultKinds
  BY <1>17 DEF StartPool, InitMemoryPool, Obtain
<1>18. ASSUME StartFails PROVE faults' \subseteq FaultKinds
  BY <1>18 DEF StartFails, InitMemoryPool, Obtain
<1>19. ASSUME StartReturns PROVE faults' \subseteq FaultKinds
  BY <1>19 DEF StartReturns
<1>20. ASSUME Stop PROVE faults' \subseteq FaultKinds
  BY <1>20 DEF Stop
<1>21. ASSUME Cleanup PROVE faults' \subseteq FaultKinds
  BY <1>21 DEF Cleanup
<1>22. CASE UNCHANGED vars
  BY <1>22 DEF vars
<1> QED
  BY <1>1, <1>2, <1>3, <1>4, <1>5, <1>6, <1>7, <1>8, <1>9, <1>10, <1>11,
     <1>12, <1>13, <1>14, <1>15, <1>16, <1>17, <1>18, <1>19, <1>20, <1>21, <1>22 DEF Next, ThreadStep

(* The types of the module's state; a free list links only blocks that     *)
(* malloc has given, over all interleavings of alloc, realloc and free.    *)
THEOREM TypeCorrect == Spec => []TypeOK
<1>1. Init => faults \subseteq FaultKinds
  BY DEF Init
<1>2. faults \subseteq FaultKinds /\ [Next]_vars => (faults \subseteq FaultKinds)'
  BY FaultsTyped
<1>3. IInv /\ faults \subseteq FaultKinds => TypeOK
  <2> SUFFICES ASSUME Types, faults \subseteq FaultKinds PROVE TypeOK
    BY DEF IInv
  <2>1. made \in 0..MaxBlocks /\ MaxBlocks \in Nat /\ 1..made \subseteq Blocks
    BY Constants DEF Types
  <2>2. \A c \in Classes : \A n \in DOMAIN free_list[c] : free_list[c][n] \in 1..made
    BY ElementOfSeq, LenProperties DEF Types
  <2>3. held \in [Threads -> SUBSET Blocks]
    BY <2>1 DEF Types
  <2>4. got \in [Threads -> Blocks \cup {None}]
    <3>1. 0..made \subseteq Blocks \cup {None}
      BY <2>1 DEF None
    <3> QED
      BY <3>1 DEF Types
  <2> QED
    BY <2>2, <2>3, <2>4 DEF Types, TypeOK, FaultKinds
<1> QED
  BY <1>1, <1>2, <1>3, Inductive, PTL DEF Spec

(* A pool that grows is not empty when its only thread comes back to it;   *)
(* without enable_auto_resize none grows.                                  *)
Alone == \A t, u \in Threads : t = u

Grown ==
    /\ "null_deref" \notin faults
    /\ \A t \in Threads :
          /\ tpc[t] \in {"plan", "grow", "take"} => AutoResize
          /\ tpc[t] = "take" /\ pool = "live" => free_list[Selected(t)] # <<>>

(* The same request of the same pools selects the same class.              *)
LEMMA SelectedSame ==
    ASSUME NEW u \in Threads, pool' = pool, call'[u] = call[u]
    PROVE  Selected(u)' = Selected(u)
<1> DEFINE Choice(p, n) == IF p = "live" /\ Fitting(n) # {}
                           THEN CHOOSE c \in Fitting(n) : \A d \in Fitting(n) : c <= d
                           ELSE System
<1>1. Selected(u) = Choice(pool, call[u].size)
  BY DEF Selected, SelectPool
<1>2. Selected(u)' = Choice(pool', call'[u].size)
  BY DEF Selected, SelectPool
<1>3. pool' = pool /\ call'[u].size = call[u].size
  OBVIOUS
<1> HIDE DEF Choice
<1> QED
  BY <1>1, <1>2, <1>3

(* A step that leaves the free lists and the threads that have grown one   *)
(* alone.                                                                  *)
LEMMA GrownStays ==
    ASSUME Grown, "null_deref" \notin faults', UNCHANGED <<pool, free_list>>,
           \A u \in Threads : tpc'[u] \in {"plan", "grow"} => AutoResize,
           \A u \in Threads : tpc'[u] = "take" => tpc[u] = "take" /\ call'[u] = call[u]
    PROVE  Grown'
<1> SUFFICES ASSUME NEW u \in Threads, tpc'[u] = "take", pool' = "live"
             PROVE  AutoResize /\ free_list'[Selected(u)'] # <<>>
  BY DEF Grown
<1>1. Selected(u)' = Selected(u)
  BY SelectedSame
<1> QED
  BY <1>1 DEF Grown

(* A step of thread t after which it is not between growing and taking.    *)
LEMMA GrownLeaves ==
    ASSUME Alone \/ ~AutoResize, Grown, "null_deref" \notin faults',
           NEW t \in Threads, tpc'[t] \notin {"plan", "grow", "take"},
           \A u \in Threads \ {t} : tpc'[u] = tpc[u]
    PROVE  Grown'
BY DEF Grown, Alone

(* Every step keeps that.                                                  *)
LEMMA GrownStep ==
    ASSUME Alone \/ ~AutoResize, IInv, Grown, [Next]_vars
    PROVE  Grown'
<1>1. ASSUME NEW t \in Threads, AllocPop(t) PROVE Grown'
  <2>1. "null_deref" \notin faults'
    BY <1>1 DEF AllocPop, Grown
  <2> QED
    BY <1>1, <2>1, GrownLeaves DEF AllocPop, Grown, IInv, Types
<1>2. ASSUME NEW t \in Threads, AllocEmpty(t) PROVE Grown'
  <2>1. "null_deref" \notin faults' /\ UNCHANGED <<pool, free_list>>
    BY <1>2 DEF AllocEmpty, Grown, pools
  <2>2. \A u \in Threads : tpc'[u] \in {"plan", "grow"} => AutoResize
    BY <1>2 DEF AllocEmpty, Grown, IInv, Types
  <2>3. \A u \in Threads : tpc'[u] = "take" => tpc[u] = "take" /\ call'[u] = call[u]
    BY <1>2 DEF AllocEmpty, IInv, Types
  <2> QED
    BY <2>1, <2>2, <2>3, GrownStays
<1>3. ASSUME NEW t \in Threads, AllocPlan(t) PROVE Grown'
  <2>1. "null_deref" \notin faults' /\ UNCHANGED <<pool, free_list>>
    BY <1>3 DEF AllocPlan, Grown, pools
  <2>2. \A u \in Threads : tpc'[u] \in {"plan", "grow"} => AutoResize
    BY <1>3 DEF AllocPlan, Grown, IInv, Types
  <2>3. \A u \in Threads : tpc'[u] = "take" => tpc[u] = "take" /\ call'[u] = call[u]
    BY <1>3 DEF AllocPlan, IInv, Types
  <2> QED
    BY <2>1, <2>2, <2>3, GrownStays
<1>4. ASSUME NEW t \in Threads, AllocGrow(t) PROVE Grown'
  <2>1. tpc[t] = "grow" /\ AutoResize /\ Alone
    BY <1>4 DEF AllocGrow, Grown
  <2>2. /\ pool = "live" /\ UNCHANGED <<pool, call, faults>> /\ want[t] > 0 /\ want[t] \in Nat
        /\ free_list' = [free_list EXCEPT ![Selected(t)] = Fresh(want[t]) \o @]
        /\ tpc' = [tpc EXCEPT ![t] = "take"] /\ made \in Nat
        /\ tpc \in [Threads -> TPCs] /\ free_list \in [Classes -> Seq(1..made)]
    BY <1>4 DEF AllocGrow, Grow, IInv, Types
  <2>3. Selected(t) \in Classes
    BY <2>1, <2>2, SelectedFits DEF IInv, Work, WorkOf
  <2>4. Selected(t)' = Selected(t)
    BY <2>2, SelectedSame
  <2>5. Fresh(want[t]) \o free_list[Selected(t)] # <<>>
    <3>1. Fresh(want[t]) \in Seq(Nat) /\ Len(Fresh(want[t])) = want[t]
      <4>1. \A k \in 1..want[t] : made + want[t] + 1 - k \in Nat
        BY <2>2
      <4> QED
        BY <2>2, <4>1 DEF Fresh
    <3>2. free_list[Selected(t)] \in Seq(1..made)
      BY <2>2, <2>3
    <3>3. free_list[Selected(t)] \in Seq(Nat)
      BY <2>2, <3>2
    <3> QED
      BY <2>2, <3>1, <3>3, ConcatProperties, LenProperties
  <2>6. free_list'[Selected(t)'] # <<>>
    BY <2>2, <2>3, <2>4, <2>5
  <2> QED
    BY <2>1, <2>2, <2>6 DEF Grown, Alone
<1>5. ASSUME NEW t \in Threads, AllocGrowFails(t) PROVE Grown'
  <2>1. "null_deref" \notin faults'
    BY <1>5 DEF AllocGrowFails, Grown
  <2> QED
    BY <1>5, <2>1, GrownLeaves DEF AllocGrowFails, Grown, IInv, Types
<1>6. ASSUME NEW t \in Threads, AllocTake(t) PROVE Grown'
  <2>1. free_list[Selected(t)] # <<>>
    BY <1>6 DEF AllocTake, Grown
  <2> QED
    BY <1>6, <2>1, GrownLeaves DEF AllocTake, Grown, IInv, Types
<1>7. ASSUME NEW t \in Threads, AllocMalloc(t) PROVE Grown'
  <2>1. "null_deref" \notin faults'
    BY <1>7 DEF AllocMalloc, Grown
  <2> QED
    BY <1>7, <2>1, GrownLeaves DEF AllocMalloc, Grown, IInv, Types
<1>8. ASSUME NEW t \in Threads, AllocStatsLoad(t) PROVE Grown'
  <2>1. "null_deref" \notin faults' /\ UNCHANGED <<pool, free_list>>
    BY <1>8 DEF AllocStatsLoad, Grown, pools
  <2>2. \A u \in Threads : tpc'[u] \in {"plan", "grow"} => AutoResize
    BY <1>8 DEF AllocStatsLoad, Grown, IInv, Types
  <2>3. \A u \in Threads : tpc'[u] = "take" => tpc[u] = "take" /\ call'[u] = call[u]
    BY <1>8 DEF AllocStatsLoad, IInv, Types
  <2> QED
    BY <2>1, <2>2, <2>3, GrownStays
<1>9. ASSUME NEW t \in Threads, AllocStatsStore(t) PROVE Grown'
  <2>1. "null_deref" \notin faults' /\ UNCHANGED <<pool, free_list>>
    BY <1>9 DEF AllocStatsStore, Grown, pools
  <2>2. \A u \in Threads : tpc'[u] \in {"plan", "grow"} => AutoResize
    BY <1>9 DEF AllocStatsStore, Grown, IInv, Types
  <2>3. \A u \in Threads : tpc'[u] = "take" => tpc[u] = "take" /\ call'[u] = call[u]
    BY <1>9 DEF AllocStatsStore, IInv, Types
  <2> QED
    BY <2>1, <2>2, <2>3, GrownStays
<1>10. ASSUME NEW t \in Threads, AllocReturn(t) PROVE Grown'
  <2>1. "null_deref" \notin faults'
    BY <1>10 DEF AllocReturn, Grown
  <2> QED
    BY <1>10, <2>1, GrownLeaves DEF AllocReturn, Grown, IInv, Types
<1>11. ASSUME NEW t \in Threads, FreeGive(t) PROVE Grown'
  <2>1. "null_deref" \notin faults'
    BY <1>11 DEF FreeGive, Grown
  <2> QED
    BY <1>11, <2>1, GrownLeaves DEF FreeGive, Grown, IInv, Types
<1>12. ASSUME NEW t \in Threads, FreeStatsLoad(t) PROVE Grown'
  <2>1. "null_deref" \notin faults' /\ UNCHANGED <<pool, free_list>>
    BY <1>12 DEF FreeStatsLoad, Grown, pools
  <2>2. \A u \in Threads : tpc'[u] \in {"plan", "grow"} => AutoResize
    BY <1>12 DEF FreeStatsLoad, Grown, IInv, Types
  <2>3. \A u \in Threads : tpc'[u] = "take" => tpc[u] = "take" /\ call'[u] = call[u]
    BY <1>12 DEF FreeStatsLoad, IInv, Types
  <2> QED
    BY <2>1, <2>2, <2>3, GrownStays
<1>13. ASSUME NEW t \in Threads, FreeStatsStore(t) PROVE Grown'
  <2>1. "null_deref" \notin faults' /\ UNCHANGED <<pool, free_list>>
    BY <1>13 DEF FreeStatsStore, Grown, pools
  <2>2. \A u \in Threads : tpc'[u] \in {"plan", "grow"} => AutoResize
    BY <1>13 DEF FreeStatsStore, Grown, IInv, Types
  <2>3. \A u \in Threads : tpc'[u] = "take" => tpc[u] = "take" /\ call'[u] = call[u]
    BY <1>13 DEF FreeStatsStore, IInv, Types
  <2> QED
    BY <2>1, <2>2, <2>3, GrownStays
<1>14. ASSUME NEW t \in Threads, TouchFreed(t) PROVE Grown'
  <2>1. "null_deref" \notin faults' /\ UNCHANGED <<pool, free_list>>
    BY <1>14 DEF TouchFreed, Grown, pools
  <2>2. \A u \in Threads : tpc'[u] \in {"plan", "grow"} => AutoResize
    BY <1>14 DEF TouchFreed, Grown, IInv, Types
  <2>3. \A u \in Threads : tpc'[u] = "take" => tpc[u] = "take" /\ call'[u] = call[u]
    BY <1>14 DEF TouchFreed, IInv, Types
  <2> QED
    BY <2>1, <2>2, <2>3, GrownStays
<1>15. ASSUME NEW t \in Threads, Call(t) PROVE Grown'
  <2>1. "null_deref" \notin faults' /\ UNCHANGED <<pool, free_list>>
    BY <1>15 DEF Call, AllocCall, ReallocCall, FreeCall, StartCall, Grown, pools
  <2>2. \A u \in Threads : tpc'[u] \in {"plan", "grow"} => AutoResize
    BY <1>15 DEF Call, AllocCall, ReallocCall, FreeCall, StartCall, Grown, IInv, Types
  <2>3. \A u \in Threads : tpc'[u] = "take" => tpc[u] = "take" /\ call'[u] = call[u]
    BY <1>15 DEF Call, AllocCall, ReallocCall, FreeCall, StartCall, IInv, Types
  <2> QED
    BY <2>1, <2>2, <2>3, GrownStays
<1>16. ASSUME ModuleInit PROVE Grown'
  <2>1. \A u \in Threads : tpc[u] = "idle"
    BY <1>16 DEF ModuleInit, IInv, Quiet
  <2>2. UNCHANGED <<tpc, faults>>
    BY <1>16 DEF ModuleInit
  <2> QED
    BY <2>1, <2>2 DEF Grown
<1>17. ASSUME StartPool PROVE Grown'
  <2>1. \A u \in Threads : tpc[u] = "idle"
    BY <1>17 DEF StartPool, InitMemoryPool, IInv, Quiet
  <2>2. UNCHANGED <<tpc, faults>>
    BY <1>17 DEF StartPool, InitMemoryPool
  <2> QED
    BY <2>1, <2>2 DEF Grown
<1>18. ASSUME StartFails PROVE Grown'
  <2>1. \A u \in Threads : tpc[u] = "idle"
    BY <1>18 DEF StartFails, InitMemoryPool, IInv, Quiet
  <2>2. UNCHANGED <<tpc, faults>>
    BY <1>18 DEF StartFails, InitMemoryPool
  <2> QED
    BY <2>1, <2>2 DEF Grown
<1>19. ASSUME StartReturns PROVE Grown'
  <2>1. "null_deref" \notin faults' /\ UNCHANGED <<pool, free_list>>
    BY <1>19 DEF StartReturns, Grown, pools
  <2>2. \A u \in Threads : tpc'[u] \in {"plan", "grow"} => AutoResize
    BY <1>19 DEF StartReturns, Grown, IInv, Types
  <2>3. \A u \in Threads : tpc'[u] = "take" => tpc[u] = "take" /\ call'[u] = call[u]
    BY <1>19 DEF StartReturns, IInv, Types
  <2> QED
    BY <2>1, <2>2, <2>3, GrownStays
<1>20. ASSUME Stop PROVE Grown'
  <2>1. "null_deref" \notin faults' /\ UNCHANGED <<pool, free_list>>
    BY <1>20 DEF Stop, Grown, pools
  <2>2. \A u \in Threads : tpc'[u] \in {"plan", "grow"} => AutoResize
    BY <1>20 DEF Stop, Grown, IInv, Types
  <2>3. \A u \in Threads : tpc'[u] = "take" => tpc[u] = "take" /\ call'[u] = call[u]
    BY <1>20 DEF Stop, IInv, Types
  <2> QED
    BY <2>1, <2>2, <2>3, GrownStays
<1>21. ASSUME Cleanup PROVE Grown'
  BY <1>21 DEF Cleanup, Grown
<1>22. CASE UNCHANGED vars
  BY <1>22, GrownStays DEF vars, Grown
<1> QED
  BY <1>1, <1>2, <1>3, <1>4, <1>5, <1>6, <1>7, <1>8, <1>9, <1>10, <1>11,
     <1>12, <1>13, <1>14, <1>15, <1>16, <1>17, <1>18, <1>19, <1>20, <1>21, <1>22 DEF Next, ThreadStep

(* The head of a free list is dereferenced only when there is one, with a  *)
(* single thread that allocates, or without enable_auto_resize for any     *)
(* number of threads.  memory_pool_expand_pool, called between two         *)
(* critical sections, is the only way to the null pointer.                 *)
THEOREM GrowthSafe ==
    ASSUME Alone \/ ~AutoResize
    PROVE  Spec => []ThreadSafe
<1>1. Init => Grown
  BY DEF Init, Grown
<1>2. IInv /\ Grown /\ [Next]_vars => Grown'
  BY GrownStep
<1>3. Grown => ThreadSafe
  BY DEF Grown, ThreadSafe
<1> QED
  BY <1>1, <1>2, <1>3, Inductive, PTL DEF Spec
=============================================================================
