----------------------------- MODULE MemoryPool -----------------------------
(***************************************************************************)
(* The block pools of src/src/memory/memory_pool_module.c.  Each size      *)
(* class has a free list guarded by its own mutex; a critical section of   *)
(* that mutex is one step.  What the code does outside it is a step of its *)
(* own: the decision to grow a pool, the unlocked read of total_blocks,    *)
(* the second look at the free list, and the unlocked statistics, which    *)
(* are loaded and stored.                                                  *)
(***************************************************************************)
EXTENDS Integers, Sequences, FiniteSets

CONSTANTS
    NumClasses,      \* size classes; 1 is the small pool
    BlockSize,       \* MEMORY_POOL_<class>_BLOCK_SIZE, increasing
    InitialBlocks,   \* config.<class>_pool_blocks
    Sizes,           \* request sizes
    Threads,
    AutoResize,      \* config.enable_auto_resize
    MallocMayFail,   \* environment: malloc for a pool block may return NULL
    MaxBlocks,       \* bound: blocks ever obtained from malloc
    MaxCalls,        \* bound: calls of alloc, realloc and free together
    MaxHeld          \* bound: blocks one thread keeps

Classes == 1..NumClasses
Blocks == 1..MaxBlocks
System == 0          \* the origin of a block that malloc gave directly

ASSUME ClassAssumption ==
    /\ NumClasses \in Nat \ {0}
    /\ BlockSize \in [Classes -> Nat \ {0}]
    /\ InitialBlocks \in [Classes -> Nat \ {0}]
    /\ \A c, d \in Classes : c < d => BlockSize[c] < BlockSize[d]
ASSUME SizesAssumption == Sizes \subseteq Nat \ {0}
ASSUME ThreadsAssumption == IsFiniteSet(Threads)
ASSUME SwitchAssumption == AutoResize \in BOOLEAN /\ MallocMayFail \in BOOLEAN
ASSUME BoundAssumption == MaxBlocks \in Nat /\ MaxCalls \in Nat /\ MaxHeld \in Nat

VARIABLES
    pool,          \* global_memory_pool_data: "null", "live", "freed"
    state,         \* module->state
    block_size,    \* per class; 0 until init_memory_pool has run
    free_list,     \* per class, from its head
    free_blocks, total_blocks,
    made,          \* blocks 1..made have been obtained
    origin,        \* class whose pool obtained the block, or System
    capacity,      \* usable bytes of the block
    held,          \* per thread: the blocks its caller has
    asked,         \* bytes the present holder of a block asked for
    tpc, call,     \* per thread: where it is and the call it is in
    want,          \* per thread: the argument of memory_pool_expand_pool
    got,           \* per thread: the block an allocation obtained
    stats,         \* the two call counters; the byte totals go along with them
    reg,           \* per thread: statistics loaded and not yet stored
    faults,        \* history: undefined behaviour met so far
    calls,         \* history: calls made
    overlap        \* history: two threads have updated the statistics at once

pools == <<block_size, free_list, free_blocks, total_blocks>>
heap == <<made, origin, capacity>>
vars == <<pool, state, block_size, free_list, free_blocks, total_blocks, made, origin, capacity,
          held, asked, tpc, call, want, got, stats, reg, faults, calls, overlap>>

None == 0
NoCall == [op |-> "none", size |-> 0, old |-> None]
ZeroStats == [allocation_count |-> 0, free_count |-> 0]

Init ==
    /\ pool = "null" /\ state = "UNINITIALIZED"
    /\ block_size = [c \in Classes |-> 0]
    /\ free_list = [c \in Classes |-> <<>>]
    /\ free_blocks = [c \in Classes |-> 0] /\ total_blocks = [c \in Classes |-> 0]
    /\ made = 0 /\ origin = [b \in Blocks |-> System] /\ capacity = [b \in Blocks |-> 0]
    /\ held = [t \in Threads |-> {}] /\ asked = [b \in Blocks |-> 0]
    /\ tpc = [t \in Threads |-> "idle"] /\ call = [t \in Threads |-> NoCall]
    /\ want = [t \in Threads |-> 0] /\ got = [t \in Threads |-> None]
    /\ stats = ZeroStats /\ reg = [t \in Threads |-> ZeroStats]
    /\ faults = {} /\ calls = 0 /\ overlap = FALSE

(* A null pointer dereference ends the process.                            *)
Alive == "null_deref" \notin faults

-----------------------------------------------------------------------------
(* The pools.                                                              *)

(* select_memory_pool: the first class that is large enough, System if     *)
(* there is none or the module is not initialised.                         *)
Fitting(size) == {c \in Classes : size <= BlockSize[c]}
SelectPool(size) ==
    IF pool = "live" /\ Fitting(size) # {}
    THEN CHOOSE c \in Fitting(size) : \A d \in Fitting(size) : c <= d
    ELSE System

(* n blocks from malloc, pushed onto the free list one after the other.    *)
Fresh(n) == [k \in 1..n |-> made + n + 1 - k]

Obtain(n, c, cap) ==
    /\ made + n <= MaxBlocks
    /\ made' = made + n
    /\ origin' = [b \in Blocks |-> IF b \in made+1..made+n THEN c ELSE origin[b]]
    /\ capacity' = [b \in Blocks |-> IF b \in made+1..made+n THEN cap ELSE capacity[b]]

(* memory_pool_expand_pool: the loop stops at the first failed malloc and  *)
(* keeps the blocks it has already linked.                                 *)
Grow(c, n) ==
    /\ Obtain(n, c, block_size[c])
    /\ free_list' = [free_list EXCEPT ![c] = Fresh(n) \o @]
    /\ free_blocks' = [free_blocks EXCEPT ![c] = @ + n]
    /\ total_blocks' = [total_blocks EXCEPT ![c] = @ + n]
    /\ UNCHANGED block_size

(* Mutant: the block that is handed out stays on the free list.            *)
Pop_KeepsHead(c) ==
    /\ free_list' = free_list
    /\ free_blocks' = [free_blocks EXCEPT ![c] = @ - 1]
    /\ UNCHANGED <<block_size, total_blocks>>

Pop(c) ==
    /\ free_list' = [free_list EXCEPT ![c] = Tail(@)]
    /\ free_blocks' = [free_blocks EXCEPT ![c] = @ - 1]
    /\ UNCHANGED <<block_size, total_blocks>>

Push(c, b) ==
    /\ free_list' = [free_list EXCEPT ![c] = <<b>> \o @]
    /\ free_blocks' = [free_blocks EXCEPT ![c] = @ + 1]
    /\ UNCHANGED <<block_size, total_blocks>>

-----------------------------------------------------------------------------
(* memory_pool_alloc and memory_pool_realloc.  memory_pool_calloc is an    *)
(* allocation of count * size bytes.                                       *)

StartCall(t, c) ==
    /\ Alive /\ tpc[t] = "idle" /\ calls < MaxCalls
    /\ calls' = calls + 1
    /\ call' = [call EXCEPT ![t] = c]
    /\ UNCHANGED <<pool, state, pools, heap, held, asked, want, got, stats, reg, faults, overlap>>

AllocCall(t, size) ==
    /\ Cardinality(held[t]) < MaxHeld
    /\ StartCall(t, [op |-> "alloc", size |-> size, old |-> None])
    /\ tpc' = [tpc EXCEPT ![t] = "pop"]

ReallocCall(t, b, size) ==
    /\ b \in held[t]
    /\ StartCall(t, [op |-> "realloc", size |-> size, old |-> b])
    /\ tpc' = [tpc EXCEPT ![t] = "pop"]

Selected(t) == SelectPool(call[t].size)

(* allocate_from_pool finds a free block at once.                          *)
AllocPop(t) ==
    /\ Alive /\ tpc[t] = "pop" /\ Selected(t) # System
    /\ free_blocks[Selected(t)] # 0
    /\ got' = [got EXCEPT ![t] = Head(free_list[Selected(t)])]
    /\ Pop(Selected(t))
    /\ tpc' = [tpc EXCEPT ![t] = "load"]
    /\ UNCHANGED <<pool, state, heap, held, asked, call, want, stats, reg, faults, calls, overlap>>

(* The pool is empty: unlock and grow it, or give up.                      *)
AllocEmpty(t) ==
    /\ Alive /\ tpc[t] = "pop"
    /\ \/ /\ Selected(t) # System /\ free_blocks[Selected(t)] = 0
          /\ tpc' = [tpc EXCEPT ![t] = IF AutoResize THEN "plan" ELSE "malloc"]
       \/ /\ Selected(t) = System
          /\ tpc' = [tpc EXCEPT ![t] = "malloc"]
    /\ UNCHANGED <<pool, state, pools, heap, held, asked, call, want, got, stats, reg,
                   faults, calls, overlap>>

ExpandBy(total) == total \div 2 + 1

(* total_blocks is read without the mutex.                                 *)
AllocPlan(t) ==
    /\ Alive /\ tpc[t] = "plan" /\ pool = "live"
    /\ want' = [want EXCEPT ![t] = ExpandBy(total_blocks[Selected(t)])]
    /\ tpc' = [tpc EXCEPT ![t] = "grow"]
    /\ UNCHANGED <<pool, state, pools, heap, held, asked, call, got, stats, reg, faults,
                   calls, overlap>>

AllocGrow(t) ==
    /\ Alive /\ tpc[t] = "grow" /\ pool = "live"
    /\ want[t] > 0
    /\ Grow(Selected(t), want[t])
    /\ tpc' = [tpc EXCEPT ![t] = "take"]
    /\ UNCHANGED <<pool, state, held, asked, call, want, got, stats, reg, faults, calls, overlap>>

(* memory_pool_expand_pool returns -1: the caller unlocks a mutex that it  *)
(* does not hold any more.                                                 *)
AllocGrowFails(t) ==
    /\ Alive /\ tpc[t] = "grow" /\ pool = "live"
    /\ want[t] = 0 \/ MallocMayFail
    /\ \E n \in 0..want[t] : (n = want[t] => n = 0) /\ Grow(Selected(t), n)
    /\ faults' = faults \cup {"bad_unlock"}
    /\ tpc' = [tpc EXCEPT ![t] = "malloc"]
    /\ UNCHANGED <<pool, state, held, asked, call, want, got, stats, reg, calls, overlap>>

(* After growing, the head of the free list is taken without another look  *)
(* at free_blocks.                                                         *)
AllocTake(t) ==
    /\ Alive /\ tpc[t] = "take" /\ pool = "live"
    /\ \/ /\ free_list[Selected(t)] # <<>>
          /\ got' = [got EXCEPT ![t] = Head(free_list[Selected(t)])]
          /\ Pop(Selected(t))
          /\ tpc' = [tpc EXCEPT ![t] = "load"]
          /\ UNCHANGED faults
       \/ /\ free_list[Selected(t)] = <<>>
          /\ faults' = faults \cup {"null_deref"}
          /\ UNCHANGED <<got, pools, tpc>>
    /\ UNCHANGED <<pool, state, heap, held, asked, call, want, stats, reg, calls, overlap>>

(* Mutant: the fallback is not counted.                                    *)
AllocMalloc_Uncounted(t) ==
    /\ Alive /\ tpc[t] = "malloc"
    /\ Obtain(1, System, call[t].size)
    /\ got' = [got EXCEPT ![t] = made + 1]
    /\ tpc' = [tpc EXCEPT ![t] = "return"]
    /\ UNCHANGED <<pool, state, pools, held, asked, call, want, stats, reg, faults, calls, overlap>>

(* The fallback to malloc gives a block of exactly the size asked for, or  *)
(* NULL.                                                                   *)
AllocMalloc(t) ==
    /\ Alive /\ tpc[t] = "malloc"
    /\ \/ /\ Obtain(1, System, call[t].size)
          /\ got' = [got EXCEPT ![t] = made + 1]
          /\ tpc' = [tpc EXCEPT ![t] = IF pool = "live" THEN "load" ELSE "return"]
          /\ UNCHANGED call
       \/ /\ MallocMayFail
          /\ tpc' = [tpc EXCEPT ![t] = "idle"]
          /\ call' = [call EXCEPT ![t] = NoCall]
          /\ UNCHANGED <<heap, got>>
    /\ UNCHANGED <<pool, state, pools, held, asked, want, stats, reg, faults, calls, overlap>>

OthersInStats(t) == \E u \in Threads \ {t} : tpc[u] \in {"store", "free_store"}

AllocStatsLoad(t) ==
    /\ Alive /\ tpc[t] = "load"
    /\ \/ /\ pool = "live"
          /\ reg' = [reg EXCEPT ![t] = stats]
          /\ overlap' = (overlap \/ OthersInStats(t))
          /\ tpc' = [tpc EXCEPT ![t] = "store"]
       \/ /\ pool # "live"
          /\ tpc' = [tpc EXCEPT ![t] = "return"]
          /\ UNCHANGED <<reg, overlap>>
    /\ UNCHANGED <<pool, state, pools, heap, held, asked, call, want, got, stats, faults, calls>>

AllocStatsStore(t) ==
    /\ Alive /\ tpc[t] = "store" /\ pool = "live"
    /\ stats' = [stats EXCEPT !.allocation_count = reg[t].allocation_count + 1]
    /\ reg' = [reg EXCEPT ![t] = ZeroStats]
    /\ tpc' = [tpc EXCEPT ![t] = "return"]
    /\ UNCHANGED <<pool, state, pools, heap, held, asked, call, want, got, faults, calls, overlap>>

(* alloc returns; realloc copies size bytes from the old block and frees   *)
(* it.                                                                     *)
AllocReturn(t) ==
    /\ Alive /\ tpc[t] = "return"
    /\ held' = [held EXCEPT ![t] = @ \cup {got[t]}]
    /\ asked' = [asked EXCEPT ![got[t]] = call[t].size]
    /\ got' = [got EXCEPT ![t] = None]
    /\ want' = [want EXCEPT ![t] = 0]
    /\ \/ /\ call[t].op = "alloc"
          /\ tpc' = [tpc EXCEPT ![t] = "idle"]
          /\ call' = [call EXCEPT ![t] = NoCall]
          /\ UNCHANGED faults
       \/ /\ call[t].op = "realloc"
          /\ tpc' = [tpc EXCEPT ![t] = "give"]
          /\ faults' = IF capacity[call[t].old] < call[t].size
                       THEN faults \cup {"overread"} ELSE faults
          /\ UNCHANGED call
    /\ UNCHANGED <<pool, state, pools, heap, stats, reg, calls, overlap>>

-----------------------------------------------------------------------------
(* memory_pool_free.                                                       *)

FreeCall(t, b) ==
    /\ b \in held[t]
    /\ StartCall(t, [op |-> "free", size |-> 0, old |-> b])
    /\ tpc' = [tpc EXCEPT ![t] = "give"]

(* Mutant: the block goes back to the pool of the next class.              *)
HomePool_Next(b) == IF NumClasses > 1 THEN 2 ELSE 1

(* The loop over the four pools returns in its first turn, whatever the    *)
(* block.  A block that malloc gave has no header to link it by: the link  *)
(* is written in front of it.                                              *)
HomePool(b) == 1

FreeGive(t) ==
    /\ Alive /\ tpc[t] = "give"
    /\ held' = [held EXCEPT ![t] = @ \ {call[t].old}]
    /\ asked' = [asked EXCEPT ![call[t].old] = 0]
    /\ \/ /\ pool = "live"
          /\ Push(HomePool(call[t].old), call[t].old)
          /\ faults' = IF origin[call[t].old] = System
                       THEN faults \cup {"underwrite"} ELSE faults
          /\ tpc' = [tpc EXCEPT ![t] = "free_load"]
          /\ UNCHANGED call
       \/ /\ pool # "live"              \* free(ptr), valid for malloc's own blocks only
          /\ faults' = IF origin[call[t].old] # System
                       THEN faults \cup {"bad_free"} ELSE faults
          /\ tpc' = [tpc EXCEPT ![t] = "idle"]
          /\ call' = [call EXCEPT ![t] = NoCall]
          /\ UNCHANGED pools
    /\ UNCHANGED <<pool, state, heap, want, got, stats, reg, calls, overlap>>

FreeStatsLoad(t) ==
    /\ Alive /\ tpc[t] = "free_load" /\ pool = "live"
    /\ reg' = [reg EXCEPT ![t] = stats]
    /\ overlap' = (overlap \/ OthersInStats(t))
    /\ tpc' = [tpc EXCEPT ![t] = "free_store"]
    /\ UNCHANGED <<pool, state, pools, heap, held, asked, call, want, got, stats, faults, calls>>

FreeStatsStore(t) ==
    /\ Alive /\ tpc[t] = "free_store" /\ pool = "live"
    /\ stats' = [stats EXCEPT !.free_count = reg[t].free_count + 1]
    /\ reg' = [reg EXCEPT ![t] = ZeroStats]
    /\ tpc' = [tpc EXCEPT ![t] = "idle"]
    /\ call' = [call EXCEPT ![t] = NoCall]
    /\ UNCHANGED <<pool, state, pools, heap, held, asked, want, got, faults, calls, overlap>>

(* A thread that is inside the module when cleanup frees it.               *)
TouchFreed(t) ==
    /\ Alive /\ pool = "freed"
    /\ tpc[t] \in {"plan", "grow", "take", "store", "free_load", "free_store"}
    /\ faults' = faults \cup {"use_after_free"}
    /\ tpc' = [tpc EXCEPT ![t] = "lost"]
    /\ UNCHANGED <<pool, state, pools, heap, held, asked, call, want, got, stats, reg,
                   calls, overlap>>

-----------------------------------------------------------------------------
(* The module life cycle.  No other thread runs before start returns.      *)

ModuleInit ==
    /\ pool = "null" /\ state = "UNINITIALIZED"
    /\ \/ pool' = "live" /\ state' = "INITIALIZED"
       \/ MallocMayFail /\ pool' = pool /\ state' = "ERROR"
    /\ UNCHANGED <<pools, heap, held, asked, tpc, call, want, got, stats, reg, faults,
                   calls, overlap>>

(* init_memory_pool with n blocks from malloc, for the first class that    *)
(* has none.                                                               *)
InitMemoryPool(c, n) ==
    /\ state = "INITIALIZED"
    /\ block_size[c] = 0 /\ \A d \in 1..c-1 : block_size[d] # 0
    /\ block_size' = [block_size EXCEPT ![c] = BlockSize[c]]
    /\ Obtain(n, c, BlockSize[c])
    /\ free_list' = [free_list EXCEPT ![c] = Fresh(n)]
    /\ free_blocks' = [free_blocks EXCEPT ![c] = n]
    /\ total_blocks' = [total_blocks EXCEPT ![c] = n]
    /\ UNCHANGED <<pool, held, asked, tpc, call, want, got, stats, reg, faults, calls, overlap>>

(* One of the four calls in memory_pool_module_start.                      *)
StartPool ==
    \E c \in Classes : InitMemoryPool(c, InitialBlocks[c]) /\ state' = state

(* malloc fails after n blocks: -1, and the module keeps what it has.      *)
StartFails ==
    /\ MallocMayFail
    /\ \E c \in Classes : \E n \in 0..InitialBlocks[c] - 1 : InitMemoryPool(c, n)
    /\ state' = "ERROR"

StartReturns ==
    /\ state = "INITIALIZED" /\ \A c \in Classes : block_size[c] # 0
    /\ state' = "STARTED"
    /\ UNCHANGED <<pool, pools, heap, held, asked, tpc, call, want, got, stats, reg,
                   faults, calls, overlap>>

Stop ==
    /\ Alive /\ state = "STARTED"
    /\ state' = "STOPPED"
    /\ UNCHANGED <<pool, pools, heap, held, asked, tpc, call, want, got, stats, reg,
                   faults, calls, overlap>>

(* Only the blocks on the free lists are given back to the system.         *)
Cleanup ==
    /\ Alive /\ state \in {"STOPPED", "ERROR"} /\ pool = "live"
    /\ pool' = "freed" /\ state' = "UNINITIALIZED"
    /\ free_list' = [c \in Classes |-> <<>>]
    /\ free_blocks' = [c \in Classes |-> 0] /\ total_blocks' = [c \in Classes |-> 0]
    /\ faults' = IF \E c \in Classes : \E n \in DOMAIN free_list[c] :
                       origin[free_list[c][n]] = System
                 THEN faults \cup {"bad_free"} ELSE faults
    /\ UNCHANGED <<block_size, heap, held, asked, tpc, call, want, got, stats, reg, calls, overlap>>

-----------------------------------------------------------------------------
ThreadStep(t) ==
    \/ AllocPop(t) \/ AllocEmpty(t) \/ AllocPlan(t) \/ AllocGrow(t) \/ AllocGrowFails(t)
    \/ AllocTake(t) \/ AllocMalloc(t) \/ AllocStatsLoad(t) \/ AllocStatsStore(t)
    \/ AllocReturn(t) \/ FreeGive(t) \/ FreeStatsLoad(t) \/ FreeStatsStore(t)
    \/ TouchFreed(t)

Running == state \notin {"UNINITIALIZED", "INITIALIZED"} \/ pool = "freed"

Call(t) ==
    /\ Running
    /\ \/ \E size \in Sizes : AllocCall(t, size)
       \/ \E b \in held[t], size \in Sizes : ReallocCall(t, b, size)
       \/ \E b \in held[t] : FreeCall(t, b)

Next ==
    \/ \E t \in Threads : ThreadStep(t) \/ Call(t)
    \/ ModuleInit \/ StartPool \/ StartFails \/ StartReturns \/ Stop \/ Cleanup

Spec == Init /\ [][Next]_vars

-----------------------------------------------------------------------------
(* Properties.                                                             *)

TPCs == {"idle", "pop", "plan", "grow", "take", "malloc", "load", "store", "return",
         "give", "free_load", "free_store", "lost"}

(* Types: a free list links only blocks that exist.                        *)
TypeOK ==
    /\ pool \in {"null", "live", "freed"}
    /\ state \in {"UNINITIALIZED", "INITIALIZED", "STARTED", "STOPPED", "ERROR"}
    /\ made \in 0..MaxBlocks
    /\ \A c \in Classes : \A n \in DOMAIN free_list[c] : free_list[c][n] \in 1..made
    /\ free_blocks \in [Classes -> Nat] /\ total_blocks \in [Classes -> Nat]
    /\ held \in [Threads -> SUBSET Blocks]
    /\ tpc \in [Threads -> TPCs]
    /\ got \in [Threads -> Blocks \cup {None}]
    /\ faults \subseteq {"null_deref", "bad_unlock", "bad_free", "overread", "underwrite",
                       "use_after_free"}

Places(b) ==
    Cardinality({x \in Classes \X Blocks :
                    x[2] \in DOMAIN free_list[x[1]] /\ free_list[x[1]][x[2]] = b})
    + Cardinality({t \in Threads : b \in held[t]})
    + Cardinality({t \in Threads : got[t] = b})

(* While the module lives, every block is on one free list once or belongs *)
(* to one thread: no block is handed to two callers, lost, or free while   *)
(* somebody uses it, though blocks change pools when they are freed.       *)
(* free_blocks, by which allocate_from_pool knows an empty list, is the    *)
(* length of the list, in the unlocked moments of a growing pool too.      *)
SingleOwner ==
    /\ pool = "live" => \A b \in Blocks : Places(b) = IF b <= made THEN 1 ELSE 0
    /\ \A c \in Classes : free_blocks[c] = Len(free_list[c])

(* A caller gets at least the bytes it asked for from every block that a   *)
(* started pool made, although all of them are freed into the small pool.  *)
(* The exceptions are blocks from the malloc fallback, which come back     *)
(* with the size of their first request, and the empty blocks of a class   *)
(* that a failed start did not reach.                                      *)
BlockFits ==
    \A t \in Threads : \A b \in held[t] :
        origin[b] # System /\ capacity[b] > 0 => capacity[b] >= asked[b]

(* The unlocked statistics count every allocation and release that is done *)
(* on every path (pool, grown pool, malloc, realloc), as long as no two    *)
(* threads update them at once.                                            *)
StatsExact ==
    (\A t \in Threads : tpc[t] = "idle") /\ pool = "live" /\ ~overlap =>
        stats.allocation_count - stats.free_count
            = Cardinality(UNION {held[t] : t \in Threads})

(* The head of the free list is never dereferenced when there is none.     *)
(* With two threads and enable_auto_resize this does not hold: the blocks  *)
(* by which a pool has grown may be taken before the lock is back.  No run *)
(* checks it; MemoryPoolProofs!GrowthSafe proves it in the other cases.    *)
ThreadSafe == "null_deref" \notin faults
=============================================================================
