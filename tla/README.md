# Formal models of NetServe

NetServe is a C program around a libuv event loop. A module manager initialises, starts, stops and
cleans up modules: configuration, logger, memory pool, thread pool, a TCP server that hands requests to
the thread pool, an HTTP server and a database module. This directory models the parts that carry
state across threads, callbacks, restarts and failures, checks them with TLC on small instances, and proves
safety properties of all nine of them with TLAPS for instances of any size, and that the thread pool implements the abstract
specification through which the network server uses it.

## 1. Inventory

| Part | State | Operations | Interaction | Hard to test | Correct when |
|---|---|---|---|---|---|
| thread pool (`thread/threadpool_module.c`) | normal queue, priority stack, `queued_work`, `active_threads`, `shutdown`, thread handles | submit, submit with priority, worker loop, start, stop, cleanup, set_config | network module submits; module manager drives the life cycle | wakeups, blocking on a full queue, stop, half-started pool | accepted work runs once, in order; nobody sleeps beside work; freed after its workers |
| memory pool (`memory/memory_pool_module.c`) | four free lists with counts, statistics | alloc, calloc, realloc, free, grow | any thread | unlocked window while a pool grows, blocks freed into another class, unlocked statistics | one owner per block, block large enough, counts exact |
| module manager, main (`modules/module_manager.c`, `main.c`) | module array, module states | register, unregister, start, stop, shutdown, destroy | calls every module | one call of several failing, dependencies, double shutdown | unique names, dependencies usable, everything released |
| logger (`log/logger_module.c`) | bounded message queue, worker | log_*, worker, flush, start, stop, cleanup, set_config | called by every module on every thread | overflow, stop against a worker about to sleep, flush against a worker that is writing | nothing lost or doubled, order kept, stop returns |
| enhanced network (`net/enhanced_network_module.c`) | client table, handles, request counters | accept, read, close and write callbacks, worker callback, start, stop | loop thread and pool workers share client handles | a client that leaves while its request is in the pool, signal while a handle is closing, blocking submit on the loop thread | table exact, response to its requester, requests answered, loop not blocked |
| thread communication (`thread/thread_comm_module.c`) | table of registered threads, a priority queue per thread, `global_mutex` | register, unregister, send, receive with timeout, broadcast, clear and replace a queue, cleanup | called by threads of a program that uses it; not by `main.c` | functions that lock `global_mutex` twice, a table entry kept over a wait, queue functions without the mutex | priority order, nothing lost or doubled, receivers awake, delivered to the addressee |
| configuration (`config/config_module.c`) | list of typed items, file on disk | set, get, load, save, set_config | loaded at start, saved at cleanup | crash during a save, save beside setters, types guessed from texts | one line per key, values survive a restart, the file settles |
| HTTP (`http/http_module.c`, `http/http_routes.c`) | client list, per-client buffer, route list | accept, read, parse, route, respond, add and remove routes | loop thread; routes from any thread | requests in pieces, old bytes in the buffer, a route used after its mutex is released | client list exact, one answer per request, the right route |
| IPC (`ipc/ipc_unified.c`, `ipc/ipc_socket.c`) | connection table, descriptors | init, connect, disconnect, send, receive, cleanup | threads of a program that uses it, a process at the other end | sends outside the mutex, slot reuse, timeouts inside a message | table exact, messages whole and in order |
| database (`db/database_module.c`) | connection array and count | pool get and return, connect, query | module manager | connections returned in another order than taken | not modelled, see section 8 |
| JSON, XML, network module, tests, libuv | | | | | not modelled, see section 8 |

`PROJECT.json` lists the components, the hazards with their lines, the runs, the mutants, the findings
and, for every definition, the source lines it stands for.

## 2. Modules

| Module | Models |
|---|---|
| `ThreadPool` | `threadpool_module.c` |
| `TaskPool` | what the thread pool promises: accepted, begun at most once while open, run to the end, discarded only when closed |
| `ThreadPoolProofs` | theorems about `ThreadPool` |
| `MemoryPool` | `memory_pool_module.c`, for any number of size classes |
| `ModuleManager` | `module_manager.c` as `main.c` drives it |
| `Logger` | the asynchronous part of `logger_module.c` |
| `EnhancedNetwork` | `enhanced_network_module.c`, composed with `TaskPool` |
| `ThreadComm` | registration and messages of `thread_comm_module.c` |
| `ConfigStore` | `config_module.c` over several lives of the process |
| `HttpServer` | connections, buffers and routes of `http_module.c` |
| `IpcStream` | the connection table of `ipc_unified.c` and the socket messages of `ipc_socket.c` |
| `MemoryPoolProofs`, `ModuleManagerProofs`, `LoggerProofs`, `ThreadCommProofs`, `ConfigStoreProofs`, `HttpServerProofs` | theorems about the module of that name |
| `StreamServerProofs` | theorems about `IpcStream` and about `EnhancedNetwork` |
| `MC*` | the instances for TLC |

`EnhancedNetwork` extends `TaskPool` and uses its actions for submission, execution and shutdown, with
the queue limit and the number of workers as extra conjuncts. `ThreadPool` is shown to implement
`TaskPool` (run `tp_progress`, theorem `RefinesTaskPool`), so the server is
checked against what the pool really guarantees. One proof module extends both `IpcStream` and `EnhancedNetwork`, which share no
state; so that their names do not clash, the latter's specification is `NetSpec` with `NetInit`, `NetNext`, `NetFairness` and `NetTypeOK`.

### Correspondence

*ThreadPool.* The pool's mutex protects every field, so a critical section is one step. `wpc` and `spc`
are the places of workers and submitters: `top`/`enter` is "about to lock", `wait` is "in
`uv_cond_wait`", `exec` is outside the mutex with an item, `after` is on the way back. A signal moves one
waiter, a broadcast all of them, and spurious wakeups are steps. The linked lists are sequences from
their heads. `state` is the module state the manager keeps, with `STOPPING` while stop waits in its join
loop. `used`, `accepted`, `normal_in`, `normal_out` and `done` are history.

*MemoryPool.* A block is a number, `origin` the class it was allocated for, `capacity` its usable bytes;
a free list is a sequence. The steps of an allocation are the critical sections plus what happens
between them: the unlocked read of `total_blocks`, growth, the second look at the list, and the load
and store of the statistics. `faults` records undefined behaviour: a null dereference (the process
ends), an unlock of a mutex that is not held, a wild `free`, a read past a block, a link written before
a block that has no header, use of the freed module. Start initialises one class per step
(`InitMemoryPool`, `StartPool`), gives up at the first that fails (`StartFails`) and returns after the
last (`StartReturns`); `block_size` is 0 for a class that a failed start did not reach, as in the code.

*ModuleManager.* The main thread's passes over the module array, one module per step; `data` and
`active` say whether a module has private data and running threads or handles. What a module's function
returns is chosen within the constants `InitMayFail`, `StartMayFail` and `StopMayFail`. The two shutdowns of
`cleanup_and_exit` are `round` 1 and 2.

*Logger.* One step per critical section, except that the worker between testing its wait condition and
waiting (`sleepy`) holds the mutex as a state of its own, because stop does not take the mutex. A line
goes to console and file in one step; its text is not modelled. `Done` counts the pushed
messages that are neither queued nor with the worker, so `QueueFifo` can say that the queue is the rest of what was pushed, place by place.

*EnhancedNetwork.* A loop callback is one step; only `on_read` may stop in the middle, in
`threadpool_submit_work`. Handle addresses are reused after `free`, connections are numbered, and a
request remembers both. A write is atomic: what happens inside libuv when a worker calls `uv_write`
while the loop runs is outside the model. A signal makes the loop thread leave the loop for good, as
`cleanup_and_exit` ends in `exit`, so close callbacks that are pending then never run. `RemoveClient` takes the first entry of
the client out and moves the later ones up, and leaves the table alone when there is none.

*ThreadComm.* A function that takes `global_mutex` once is one step, its test of `initialized` included.
`owner` is set only by a caller that locks the mutex a second time (`cleanup` with registered threads,
`broadcast_message`, `get_all_threads`): it is stuck for good, and so is everybody who needs the mutex,
while the functions without the mutex still run. A receiver's
`slot` is the pointer `receiver_info`, kept over `pthread_cond_wait`. The functions that take no lock are split where
another thread can come in between. `clear_message_queue` finds the entry (`ClearQueue`), tests `size` (`ClearTest`) and
dequeues (`ClearTake`); a receiver may empty the queue between the last two, and then `dummy_msg.data`, which nobody has
set, is freed or found null. `create_message_queue` and `destroy_message_queue` free the nodes (`ReplaceQueue`), then
the queue (`ReplaceFree`), and the former makes a new one of the size it was called with (`CreateQueue`). Between the
steps `msg_queue` still points to the old queue: when the list had nodes, whoever uses it meets freed memory (`stale`); when it was
empty a sender can still append, and the message is lost when the queue is freed (`exposed`, `leaked`). `fault` is undefined behaviour, after which
nothing happens: a NULL or freed queue, a destroyed condition variable somebody waits on, a freed table, the pointer
that clear frees, and a queue that two callers replace, or replace and unregister, at once (`replaced_twice`). A timed
receive may or may not find its time over when it looks; the clock is not modelled.

*ConfigStore.* The conversions are parameters with assumptions: `Trim`, `Atoi`, `Atof`, `IntText`,
`FloatText`. Of the floats `LibraryAssumption` says only what `%.6f` and `atof` do: the text that is read back
may give another number, which prints the same (`1e-7` becomes `0.000000` and then 0), and the text of infinity or nan has no dot. The instance has
both cases. Load takes the mutex line by line and save does not take it, so setters come in
between. Save has the file open and empty until it is closed; a crash leaves any prefix of what was printed,
with a torn last line. `snapshot`, `before`, `quiet`, `trusted`, `touched` and `mine` are history.

*HttpServer.* A request is three cells (the request line up to some place inside it; the rest of the line with
its end; the headers), and a read takes any number of the cells that have arrived. `buffer` is what was received since
the last reset. The parser does not know `read_buffer_used`: behind it lie the bytes of older requests or whatever
`malloc` has left, so unless the buffer begins with a whole request line (`Whole`) the parser may find no line, a line
that asks for nothing, or one that asks for any path (`Parsings`): `GET` before the rest of an old `PUT /api/users HTTP/1.1`
is such a line. Lookup of the route and response are two steps,
because `routes_mutex` is released between them. `Unlink` is the walk of `on_client_close` along the list to
the first entry of the client. Cleanup comes to every module that was initialised, started or failed or not
(`module_manager.c:228`). `fault` is a freed route, a freed handle that the loop
still knows, or a copy past the doubled buffer. The handlers themselves are not modelled.

*IpcStream.* The table is locked call by call; the test of `private_data` (`SendResolve`), the read through it
(`SendFollow`), the header, every piece of the data and the statistics are steps of their own. A `disconnect` between
the first two is the fault `freed_data`, or the sender gets the descriptor of a connection that uses the slot
by then. `send` may return -1 before the header or anywhere in the data (`torn`); the sending process may end
(`ProcessEnds`), after which `recv` inside a message returns 0 again and again (`spinning`); a timed receive may give up inside
a message (`cut`). No descriptor is ever closed: `disconnect` frees the memory
that holds it and removes the server's socket file. The header carries the length modulo `HeaderRange`; the
assumption keeps the length below it, that is, below 4 GiB. Header and length field are one cell, written and read
as a whole. Only sockets are modelled.

## 3. Runs

Passing runs and their bounds:

| Run | Instance | Shows |
|---|---|---|
| `tp_safety` | 2 workers, 2 submitters, 3 items, limit and thread count changed at run time; allocation and thread creation may fail | counters, exactly-once, FIFO, no lost wakeup |
| `tp_progress` | the same without failures and with a fixed thread count, with fairness | work runs, blocked submitters go on, stop returns, pool outlives workers, implements `TaskPool` |
| `mp_safety` | 2 threads, 2 classes, requests below, at and above the blocks' sizes, 3 calls; allocation may fail anywhere | one owner per block, counts, pool blocks large enough, statistics exact while updates do not overlap |
| `mm_lifecycle` | 4 modules, two of one name, capacity 1 that doubles, every call may fail | dependencies first, sufficient order, quiet before cleanup, complete and repeatable shutdown |
| `lg_queue` | 2 producers with 2 messages, limit 1 or 2, asynchronous or not, failures, with fairness | nothing lost or doubled, FIFO, worker awake, flush returns and leaves at most one message, messages written |
| `net_requests` | 3 connections on 2 addresses, 2 requests, 1 worker, 1 queue slot, both modes, failures, with fairness | client table, requests answered, loop goes on, shutdown ends once it has come to the pool |
| `tc_messages` | 3 callers, 2 table entries, 2 ids, 2 messages of 2 priorities, queues of 2, replaced by queues of 1 | priority order, nothing lost or doubled, receivers awake, delivered to the addressee |
| `cfg_restart` | 4 lives, 1 setter call, 2 keys, 15 texts, 4 floats (one that `%.6f` rounds to 0, and infinity), crashes | one line per key, values survive, the file settles |
| `http_requests` | 2 clients, 2 requests in pieces, buffer of 2 cells that doubles, 2 routes, failures | client list, one answer per whole request, right route |
| `ipc_stream` | 2 threads, 2 slots, 2 connections, 2 messages of a header and 2 cells, every send may fail, with fairness | stream intact, table exact, messages complete |

TLC's coverage shows every action and every disjunct of the next-state relations taken. The bounds are chosen so that
the cases in which the properties could fail happen: a full and an empty queue, several waiters of one condition
variable, a pool that is exhausted and grows, an array that is grown twice, an address used by two
connections, a table entry given to another thread while a receiver was woken for the old one, a request line
split over two reads, a queue replaced while a sender appends, two slots in use at once and one reused in the middle of a send. Four lives are two in which the file
may still change, one that must keep it and one for a crash. Three calls of the memory pool are enough for a block to be taken, freed into another pool
and handed out again while the other thread grows that pool. The largest instances are `http_requests` (8.7 million states), `tc_messages`
(4.9 million, up to the symmetry of the callers), `cfg_restart` (1.7 million) and `ipc_stream` (0.9 million).
Deadlock is not checked: a pool that nobody uses, a program that has exited and a producer that has
sent its last message may all stop.

Runs that find a disagreement (each has an entry under "findings" that quotes the line it contradicts):

| Run | What the code does |
|---|---|
| `lg_stop_hangs` | stop's signal falls between the worker's test and its wait, and the join never returns |
| `cfg_rewrite` | a start and an orderly shutdown turn `network_host=0.0.0.0` into `network_host=0.000000` |

Three more behaviours are known from earlier checks. The properties that fail are kept in the modules, with
a comment, and no run claims them: a submitter blocked on a full queue is not woken by stop
(`ThreadPool!BlockedSubmitReturns`), a thread takes the head of a free list that another one has emptied while
the pool grew (`MemoryPool!ThreadSafe`), and a worker answers through a handle that was freed and now serves
another connection (`EnhancedNetwork!ResponseToRequester`). For the last two, theorems state when they cannot happen (`GrowthSafe`,
`OnLoopSafe`) or to whom (`OnlyGoneMissedCorrect`).

### Limits of the code that the properties state as exceptions

Several properties hold only with an exception, which is written into the property or into the run's
constants because the code does not guarantee more:

- `WorkersGoneBeforeFree` and `HandlesValid` need thread creation to succeed and `thread_count` to keep
  its default: after a failed start, stop is skipped and cleanup frees the pool under its workers; a
  larger `thread_count` overruns `threads[]` (`threadpool_module.c:113,152`).
- `BlockFits` is about blocks that a started pool made. A block from the malloc fallback keeps the size of
  its first request and is handed out again by the small pool (`memory_pool_module.c:202`). Because every
  block is freed into the small pool, the larger pools grow for ever.
- `StatsExact` excludes overlapping updates, which are not atomic (`memory_pool_module.c:170`).
- `DependenciesFirst` excludes dependencies that failed: ERROR is the largest state, so the comparison in
  `module_manager.c:133` lets it pass. Stop and cleanup run in registration order, dependencies first.
- A thread's own log messages are not in order when the queue fills: a caller that finds it full writes at
  once and overtakes its queued messages (and formats with a `va_list` that is used up, `logger_module.c:325`).
- `FlushComplete` leaves out the message the worker holds; `QueuedWritten` needs `enable_async`, because
  `log_info` queues even when no worker runs; stop drops what is queued.
- `active_requests` of the network module is never decremented. `max_connections` is not compared with
  anything (`enhanced_network_module.c:52`), and a failed allocation in the connection callback leaves the
  listening socket unpolled (state `stalled`); the same in the HTTP module.
- A behaviour of `EnhancedNetwork` ends at a fault (`use_after_free`, or `double_close` when stop closes a
  handle that is closing); the liveness properties are about the others.
- `DeliveredToAddressee` excludes receivers whose id was unregistered while they waited: they take the
  messages of the thread that has their entry now (`thread_comm_module.c:612`). A timed receive that waits
  is not woken by the clock, because the wait is untimed.
- `SurvivesRestart` says what is left of a value (`Restored`): integers 0 and 1 come back as booleans, a float as the number
  that its six decimals give, so that `1e-7` comes back as 0, and infinity as a string (`config_module.c:492,541`). It leaves out strings with a dot, `#`,
  `=`, blanks or a leading number (`Carried`), saves during which a setter changed an item already printed, and files whose last
  save was cut off by a crash, which have lost lines.
- `AnsweredOnce` is about clients whose requests each arrive in one read. A request that arrives in pieces
  may be answered twice, answered as another one or block the connection; two requests in one read get one answer.
- `RightRoute` is about requests whose line was in the buffer as it was sent when it was parsed. A line that comes in
  pieces may be read as any other line, and any route may answer it.
- `NoneLostOrDoubled` of `ThreadComm` allows one loss: a message accepted while somebody replaces the queue
  (`thread_comm_module.c:1492,1512`).
- `StreamIntact` and `MessageCompletes` hold on a connection until two sends overlap, a send fails inside a message
  or a receive gives up inside one (`Undisturbed`); the code has no way to find the next header after that. A receiver
  whose sender has ended inside a message does not come back, which `MessageCompletes` excepts.
- `AcceptedRuns` and `FlushReturns` are checked with finitely many items and messages. With an endless stream of priority work a
  worker never comes to the normal queue (`threadpool_module.c:53-59`), and producers that never pause can keep the queue that `logger_flush`
  polls from being empty.
- `ShutdownEnds` begins where `cleanup_and_exit` has come to the thread pool. The logger is stopped before, and
  its stop may hang (`lg_stop_hangs`).
- `FileSettles` speaks of the third quiet life on: an integer `1x` becomes `1` and then the boolean `true`.

Each property of a passing run has a mutant: the definition named under "mutants" replaced by a plausible
wrong version of the same code (a dropped guard, a missing signal, an off-by-one) violates it.

## 4. Fairness

- `ThreadPool`: weak fairness of each worker's and each submitter's next step and of the main thread's
  start and join loops. The operating system schedules runnable threads and work functions are assumed
  to return. Nobody has to submit, stop or wake up spuriously. Signals may wake any waiter.
- `Logger`: weak fairness of the worker and of stop; strong fairness of flush, which competes with the worker
  for the mutex. Producers are not fair.
- `EnhancedNetwork`: weak fairness of each request's begin, end and write completion, of the blocked
  submission and of shutdown. That each request begins rests on `AcceptedRuns` of the pool. Clients and
  signals are not fair.
- `IpcStream`: weak fairness of a thread inside `send_message` and of a receiver with data before it.
- `ThreadComm`, `ConfigStore`, `HttpServer`, `MemoryPool` and `ModuleManager` are checked for safety only.

## 5. Proofs

`ThreadPoolProofs` proves for every number of workers, submitters and items and every queue limit:

| Theorem | Statement | Assumptions |
|---|---|---|
| `TypeCorrect` | `Spec => []TypeOK` | constants as assumed in `ThreadPool` |
| `CountersCorrect` | `Spec => []CountersMatch` | same |
| `FifoCorrect` | `Spec => []FifoOrder` | same |
| `WakeupCorrect` | `Spec => []NoLostWakeup` | same |
| `WakerCorrect` | `Spec => []SubmitterHasWaker` | allocation succeeds |
| `LifetimeCorrect` | `Spec => [](WorkersGoneBeforeFree /\ HandlesValid)` | threads can be created, `thread_count` is not changed |
| `ExactlyOnceCorrect` | `Spec => []ExactlyOnce` | constants as assumed |
| `RefinesTaskPool` | `Spec => ImplementsTaskPool` | as `LifetimeCorrect` |

`TypeOK` is not inductive. That `queued_work - 1` is a natural number needs that `queued_work` is the
length of the two queues; that `active_threads - 1` is one needs that it counts the workers between take
and finish; that queues hold items needs that a submitter inside a call and a worker that executes have
one. The inductive invariant `IInv` therefore adds `CountersMatch`, `HeldItems`, `NotYetUsed` (a pool that
was never initialised has empty queues) and `Births` (exactly the workers up to `created` exist). The
counting of workers rests on lemmas about how a cardinality changes when one worker enters, leaves or
stays in a set of places (`MoveIn`, `MoveOut`, `MoveBeside`).

FIFO follows from `normal_in = normal_out \o work_queue` for a pool that is not freed, with two lemmas on
sequences. The wakeup theorem is inductive relative to `IInv`: a submission adds one item and, if any
worker sleeps, wakes one; a worker that falls asleep has seen both queues empty. The lifetime theorem
needs `LifeInv`, which ties the module's state to the workers created. Without either of its two
assumptions the statement is false (section 3); `WakerCorrect` excludes a submitter that is woken and then fails to allocate, which swallows a signal.

Exactly-once is a statement about places. `PlaceInv`: no queue repeats an item, the two queues, the items of the
executing workers and the finished ones have nothing in common, and until the pool is freed they are together
what was accepted. It needs `HandInv`: what a submitter still holds was not accepted before, and no two submitters
hold the same item. The numbers in `ExactlyOnce` then follow from cardinalities of sets with at most one element.

The refinement maps `open` to `~shutdown`, `pending` to the items of both queues, `running` to the items of the
executing workers and `finished` to `done`. Acceptance is `Accept`, taking an item `Begin`, the end of the work
function `Finish`, `shutdown = TRUE` is `Close`, and freeing the queues in cleanup is `Discard`; every other step
leaves the four values alone. That the queues are freed only when closed and with nobody running needs `LifeInv`
and `StopInv` (a pool that is stopping or stopped has `shutdown` set); that a step moves one item and
no other needs `PlaceInv`. Fairness is not part of `TaskSpec`; `AcceptedRuns` is checked by TLC.

The other proof modules, again for every value of the constants that the modules' assumptions allow:

| Theorem | Statement | Inductive invariant |
|---|---|---|
| `MemoryPoolProofs!OwnerCorrect` | `Spec => []SingleOwner` | `Types`, `Counts`, `Work`, `Quiet`, `Owner`, `Fits`, `Exact` |
| `MemoryPoolProofs!FitsCorrect` | `Spec => []BlockFits` | the same |
| `MemoryPoolProofs!StatsCorrect` | `Spec => []StatsExact` | the same |
| `MemoryPoolProofs!TypeCorrect` | `Spec => []TypeOK` | the same, and `faults` within its kinds |
| `MemoryPoolProofs!GrowthSafe` | if one thread allocates or `enable_auto_resize` is off, `Spec => []ThreadSafe` | the same and `Grown` |
| `ModuleManagerProofs!TypeCorrect` | `Spec => []TypeOK` | `Types`, `Fresh`, `Rounds`, `DataOfState`, `Running`, `Stopped`, `Cleaned`, `DependenciesFirst`, `Progress` |
| `ModuleManagerProofs!OrderCorrect` | `Spec => []OrderSuffices` | the same |
| `ModuleManagerProofs!DependenciesCorrect` | `Spec => []DependenciesFirst` | the same |
| `ModuleManagerProofs!QuietCorrect` | `Spec => []QuietBeforeCleanup` | the same |
| `ModuleManagerProofs!ShutdownCorrect` | `Spec => []ShutdownComplete` | the same |
| `LoggerProofs!AwakeCorrect` | `Spec => []WorkerAwake` | `Typed` and `Life` |
| `LoggerProofs!FlushCorrect` | `Spec => []FlushComplete` | those and `FlushInv` |
| `LoggerProofs!JoinCorrect` | `Spec => []WorkerJoined` | `Typed` and `Life` |
| `LoggerProofs!PlacesCorrect` | `Spec => []NoneLostOrDoubled` | those and `PlaceInv` |
| `LoggerProofs!FifoCorrect` | `Spec => []QueueFifo` | those and `FifoInv` |
| `LoggerProofs!TypeCorrect` | `Spec => []TypeOK` | `Typed` and `Life` |
| `ThreadCommProofs!PriorityCorrect` | `Spec => []PriorityOrder` | `TypeOK`, `IdsOnce`, `Addressed`, `Pointers`, `Handed`, `QueuesOrdered` |
| `ThreadCommProofs!DeliveryCorrect` | `Spec => []DeliveredToAddressee` | the same |
| `ThreadCommProofs!AwakeCorrect` | `Spec => []ReceiverAwake` | the same and `AwakeAt` of every entry |
| `ThreadCommProofs!PlacesCorrect` | `Spec => []NoneLostOrDoubled` | the same and `PlaceInv` |
| `ThreadCommProofs!TypeCorrect` | `Spec => []TypeOK` | those of `PriorityCorrect` |
| `ConfigStoreProofs!OneLineCorrect` | `Spec => []OneLinePerKey` | `TypeOK`, `Keyed`, `SavedKeys`, `IsImage`, `LoadedSoFar`, `Loaded`, `Untouched` |
| `ConfigStoreProofs!RestartCorrect` | `Spec => []SurvivesRestart` | the same |
| `ConfigStoreProofs!SettlesCorrect` | `Spec => []FileSettles` | those and `SettleInv` |
| `ConfigStoreProofs!CleanFileKept` | `Spec => [](CleanFile => KeepsTexts /\ (mpc = "saved" /\ ~touched => file = before))` | those, `SettleInv` and `CleanInv` |
| `ConfigStoreProofs!TypeCorrect` | `Spec => []TypeOK` | those of `OneLineCorrect` |
| `HttpServerProofs!RouteCorrect` | `Spec => []RightRoute` | `Buffers`, `Listed`, `Looked`, `Answered` |
| `HttpServerProofs!PoolCorrect` | `Spec => []PoolExact` | `PoolInv` |
| `HttpServerProofs!AnswersCorrect` | `Spec => []AnsweredOnce` | those of `RouteCorrect`, and `ExchangeInv` |
| `StreamServerProofs!TableCorrect` | `Spec => []TableExact` | `TableInv`: `TableType`, `Ascending`, `TableExact` |
| `StreamServerProofs!StreamCorrect` | `Spec => []StreamIntact` | `StreamInv`: `StreamType`, `Bound`, `Flows` of every connection |
| `StreamServerProofs!OneCallerSafe` | if one thread uses the connections, `Spec => [](fault = "none" /\ StreamIntact /\ \A f : ~overlapped[f] /\ (torn[f] => CallsMayFail))` | `StreamInv` and `SoleInv` |
| `StreamServerProofs!NetTypeCorrect` | `NetSpec => []NetTypeOK` | `NetInv`: `NetTyped`, `NetLife`, `ClientTable`, `Numbered`, `Submitting`, `InPool`, `Unasked` |
| `StreamServerProofs!ClientTableCorrect` | `NetSpec => []ClientTable` | the same |
| `StreamServerProofs!AnswerCorrect` | `NetSpec => AnswerIsFinal` | the same |
| `StreamServerProofs!OnlyGoneMissedCorrect` | `NetSpec => []OnlyGoneMissed` | the same and `GoneInv`: `Connections`, `SenderKnown`, `OnlyGoneMissed` |
| `StreamServerProofs!OnLoopSafe` | if `Modes = {FALSE}`, `NetSpec => []("use_after_free" \notin faults /\ ResponseToRequester)` | the same and `OnLoop` |

*MemoryPool.* `Owner` places every block on one free list once, with one caller, or in the hands of one thread that
is about to return it; `Work` says what a thread inside a call holds at each step, so a push never
links a block that is somewhere already. `Fits`: a block of class c is on a list of a class that is not larger, which
holds because every block is freed into the smallest class. `Exact`: as long as no two threads were between load and
store, what a thread has loaded is still current, and the counts differ from the blocks in callers' hands by the
calls that have counted and not returned, or taken back and not counted. `Quiet` is needed for the start:
nobody calls the module before it has returned. `GrowthSafe` has an assumption because `ThreadSafe` is false without it: two threads on a
pool that grows can meet an empty list. `Grown` says why one thread cannot: the list to which it has added a block is the one that
it comes back to (`SelectedSame`), and nobody else has been there.

*ModuleManager.* Each pass over the array is followed by its index: `Progress` says which states the modules before and
behind the index are in when nothing has failed, `Stopped` and `Cleaned` what the two passes of a shutdown have
left behind it, also when calls fail. `DataOfState` ties private data to module states, `Running` what runs to `STARTED`. The order theorem uses that a
dependency that is earlier in the array is past init when the pass comes to its dependents; `DependenciesFirst`
is part of the invariant, because a module that is initialised stays so until shutdown.

*Logger.* `Life` ties the module's state to the worker's; the worker's place and the mutex say that it can
only fall asleep on an empty queue. For flush, `Placed` follows the messages that were queued at the call:
each is in the queue, in the worker's hands, written, or dropped by stop. `PlaceInv` makes that a partition of
everything that was logged, with a fifth part for what a producer holds; every step moves messages
from one part to another. `FifoInv` adds to `QueueFifo` only that `Done` is a number.

*ThreadComm.* The order of a queue is preserved by insertion because `InsertPosition` exists and is unique for
an ordered queue (a lemma about the least position with a lower priority) and because a new message has the
largest number. Delivery needs that ids are given once (`IdsOnce`: every id in use is at most `counter`, and no
two entries share one), that a queue holds messages for the entry's present id only (`Addressed`), and that
a receiver's entry has its id or its id is gone for good (`Pointers`). The last is stable only because ids
are not reused; with reused ids the theorem would be false. `AwakeAt` is inductive for each entry by itself: a
message comes with a signal, and a woken receiver that leaves takes one message with it or finds none. `PlaceInv`
needs that an entry without a thread has an empty queue (`EmptyUnused`), or registration would lose messages, and
`LeakInv`: what the unlocked free of a queue drops (`leaked`) was accepted while that queue was being replaced (`exposed`).

*ConfigStore.* The theorems follow one file through the lives. `Keyed`: the table has one item per key.
`SavedKeys`: the printed lines are the keys of the table's beginning, in order, although setters append and
change items meanwhile. `IsImage`: a file that is trusted is the printed form of `snapshot`. `LoadedSoFar`:
while such a file is read, the table has what the lines read so far can carry; `Loaded` and `Untouched`
carry that to the end of the load and on to a second load of the same file. The round trip of a value uses
`LibraryAssumption`, which TLC evaluates for the instance. That the file settles rests on two lemmas about the
conversions: load makes a `Parsed` value of any text (`ParseParsed`), and such a value is printed and read
back as it was, except the integer 1 (`FormatParsed`). So the first quiet life leaves a file of `Parsed` values
(`Normal`), the second one without the integer 1 (`Settled`), and from the third on the table agrees with the
file line by line (`Third`), also when the file is saved or loaded again in the same life. `CleanFileKept` is the counterpart of the run
`cfg_rewrite`: a file that is already in that form (`CleanFile`: one line per key, and `Settled`) is written back as it was by the
first life, too. `CleanInv` follows it as `Third` does, without counting lives.

*HttpServer.* A route's identity is its number of addition; `Listed` ties the list to the
history of additions, `Looked` the pending lookup to both, and `Answered` carries it into the answers;
`Buffers` types the cells on the wire and in the buffer. `PoolInv`: the list has exactly the clients that are open
or closing, each once, so that the walk of `on_client_close` finds the one it is called for. `ExchangeInv` numbers
the cells of a connection (`Place`): what is on the wire goes on where the requests already taken end, so that the n-th
answer is to the n-th request.

*IpcStream.* `Ascending` says that descriptors in the table are among those opened so far, so that a new one
differs from all. For the stream every cell of a connection has a place: `St(a)` is that of the a-th header. `Wired`:
the cells that have not been received are the ones from the receiver's place on, without gaps; `Continues`: the stream
ends with the last complete message, or where the one thread that is writing goes on; `Delivered`: what was handed out
and what is half read are the messages before that place. That two messages do not overlap is the only
arithmetic (`Places`, `OnePlace`); it holds for every message length. The table appears in none of this: a sender
keeps the descriptor that it has looked up, and a new connection gets another one. With one calling thread (`SoleInv`) the table is
there, with the private data that the sender has tested, whenever a send is in progress, and no other send is. So `OneCallerSafe` excludes both faults and overlaps, and only a send that
fails or a receive that gives up inside a message is left to disturb the stream.

*EnhancedNetwork.* The table is exact because `on_new_connection` gets an address from `malloc` only when no connection has it, and
`remove_client` moves up what is behind the one entry it finds (`Removed`, `Added`): that there is only one is `ClientTable` itself. The
other parts of `NetInv` follow a request: the one in the loop thread's hands is new to the pool (`Submitting`), one in the pool is
there once and unanswered (`InPool`), and a context that is not in use has no answer (`Unasked`). `NetInv` also gives the action property
`AnswerIsFinal`, which no run checks: no second answer, and no change of the one given, except from queued to sent or dropped.

That a response goes to its requester is false in general (section 3), and two theorems say what is true. `OnlyGoneMissed`, with no
restriction on clients or addresses: a response goes to another connection, and a freed handle is used, only for a request whose own
connection has been closed for good, so a client that is still connected is never passed over in favour of another one. Its invariant
is about connection numbers: no two handles serve one number, a freed handle serves none, and a number that is gone does not come back
(`Connections`, `GoneForGood`); so the handle in a context serves the sender of the request, or nobody does (`SenderKnown`). If
`enable_threadpool` is off, `OnLoop` says that nothing ever enters the pool, so that a request is answered in the callback that has read
it, whenever its client leaves, and `ResponseToRequester` holds. Both were first checked with TLC on the instance of `net_requests`.

## 6. Only model-checked

Liveness (`AcceptedRuns`, `StopCompletes`, `BlockedSubmitProceeds`, `QueuedWritten`, `FlushReturns`,
`RequestAnswered`, `LoopUnblocks`, `ShutdownEnds`, `MessageCompletes`) is beyond the proof system's reach and is checked
on the instances above. Every invariant and every refinement that a passing run checks has a theorem. What recursion over data
computes for every input is out of reach as well; the models have none.

## 7. Plan

Done, in this order: thread pool with its abstract specification, memory pool, module manager, logger, network
server on top of the abstract pool; then thread communication, configuration, HTTP, IPC; then the theorems of section 5.
Next: the message callbacks and named mutexes of thread communication, and the other IPC types.

## 8. Not modelled

- Text: log formats, HTTP headers and bodies, JSON; of the configuration's syntax only what decides a
  value's type. The JSON parser is a sequential recursive function over characters.
- The database module's pool: `init_connection_pool` fails on the first connection, because it tests a field
  that nothing sets, so that no connection is ever pooled; the queries are stubs.
- `network_module.c`, which the program does not register, and the XML parser, which is not built.
- The handlers of `http_routes.c`. `main.c:156` registers them before the loop runs (`register_http_routes`, twelve calls of
  `http_add_route`); they run one at a time on the loop thread, on
  a static array of three users that update and delete change and create only numbers.
- In thread communication the named mutexes, callbacks and statistics; pools, events, pipes, shared buffers,
  conditions and semaphores, which are stubs that return 0 and do nothing (`thread_comm_module.c:1052-1240`,
  `1639-1670`).
- In IPC pipes, message queues, shared memory, semaphores and mutexes, each a few system calls; batch and file
  functions, which loop over `send_message`.
- libuv, which is vendored and most of the repository's lines: mutexes, condition variables (with spurious
  wakeups), threads, closing, writing and accepting are used as its documentation and source describe them.
- Which signals reach the program; the timers that print statistics or flush the log file.
- Memory that is leaked without being used again (response buffers, contexts of discarded requests).
