--------------------------- MODULE ModuleManager ----------------------------
(***************************************************************************)
(* src/src/modules/module_manager.c, driven as src/src/main.c drives it:   *)
(* register, start (a pass of init and a pass of start), run, shutdown (a  *)
(* pass of stop and a pass of cleanup), and destroy, which shuts down a    *)
(* second time.  Everything happens on the main thread, one module of a    *)
(* pass per step; what the modules' own functions return is chosen freely  *)
(* within what the constants allow.                                        *)
(***************************************************************************)
EXTENDS Integers, Sequences, FiniteSets

CONSTANTS
    Modules,           \* module_interface_t objects
    Names, NameOf,     \* module->name; two objects may have the same name
    DependsOn,         \* module->dependencies: names
    InitialCapacity,   \* INITIAL_MODULE_CAPACITY
    InitMayFail, StartMayFail, StopMayFail,   \* environment: modules whose call may fail
    ReallocMayFail     \* environment: realloc of the module array may return NULL

ASSUME NamesAssumption ==
    NameOf \in [Modules -> Names] /\ DependsOn \in [Modules -> SUBSET Names]
ASSUME CapacityAssumption == InitialCapacity \in Nat \ {0}
ASSUME FailureAssumption ==
    /\ InitMayFail \subseteq Modules /\ StartMayFail \subseteq Modules
    /\ StopMayFail \subseteq Modules /\ ReallocMayFail \in BOOLEAN

UNINITIALIZED == 0
INITIALIZED == 1
STARTED == 2
STOPPED == 3
ERROR == 4

VARIABLES
    modules,     \* mgr->modules[0..module_count-1]
    capacity,    \* mgr->module_capacity
    state,       \* module->state
    data,        \* module->private_data is not NULL
    active,      \* the module's threads, timers or handles run
    phase,       \* what the main thread is doing
    i,           \* the index of the loop it is in
    round,       \* shutdowns entered: the second one is destroy's
    failed       \* history: modules of which a call has failed

vars == <<modules, capacity, state, data, active, phase, i, round, failed>>

Init ==
    /\ modules = <<>> /\ capacity = InitialCapacity
    /\ state = [m \in Modules |-> UNINITIALIZED]
    /\ data = [m \in Modules |-> FALSE] /\ active = [m \in Modules |-> FALSE]
    /\ phase = "register" /\ i = 1 /\ round = 0 /\ failed = {}

-----------------------------------------------------------------------------
(* Registration.                                                           *)

Registered == {modules[n] : n \in DOMAIN modules}
Find(name) == {m \in Registered : NameOf[m] = name}

NameFree(m) == Find(NameOf[m]) = {}

Full == Len(modules) >= capacity

RegisterModule(m) ==
    /\ phase = "register" /\ m \notin Registered
    /\ NameFree(m)
    /\ capacity' = IF Full THEN 2 * capacity ELSE capacity
    /\ modules' = Append(modules, m)
    /\ UNCHANGED <<state, data, active, phase, i, round, failed>>

(* The name is taken, or the array cannot grow: -1, nothing changes.       *)
RegisterFails(m) ==
    /\ phase = "register"
    /\ ~NameFree(m) \/ (Full /\ ReallocMayFail)
    /\ phase' = "exited"                  \* initialize_program returns -1
    /\ UNCHANGED <<modules, capacity, state, data, active, i, round, failed>>

Without(s, n) == [k \in 1..Len(s) - 1 |-> IF k < n THEN s[k] ELSE s[k + 1]]

UnregisterModule(name) ==
    /\ phase = "register"
    /\ \E n \in DOMAIN modules :
          /\ NameOf[modules[n]] = name
          /\ \A k \in 1..n-1 : NameOf[modules[k]] # name
          /\ modules' = Without(modules, n)
    /\ UNCHANGED <<capacity, state, data, active, phase, i, round, failed>>

-----------------------------------------------------------------------------
(* The passes.  A pass ends when its index is past the last module.        *)

InPass(p) == phase = p /\ i <= Len(modules)
EndPass(p, q) ==
    /\ phase = p /\ i > Len(modules)
    /\ phase' = q /\ i' = 1
    /\ UNCHANGED <<modules, capacity, state, data, active, round, failed>>

Current == modules[i]

StartManager ==
    /\ phase = "register"
    /\ phase' = "init" /\ i' = 1
    /\ UNCHANGED <<modules, capacity, state, data, active, round, failed>>

(* Mutant: only a dependency that runs already is good enough.             *)
DependenciesMet_Started(m) ==
    \A d \in DependsOn[m] : \E dep \in Find(d) : state[dep] >= STARTED

(* Mutant: a dependency has to be registered, not initialised.             *)
DependenciesMet_Registered(m) == \A d \in DependsOn[m] : Find(d) # {}

(* check_module_dependencies compares the numbers of the states.           *)
DependenciesMet(m) ==
    \A d \in DependsOn[m] : \E dep \in Find(d) : state[dep] >= INITIALIZED

(* An init that fails may have set private_data before (database_module). *)
InitModule ==
    /\ InPass("init")
    /\ i' = i + 1
    /\ \/ /\ state[Current] = UNINITIALIZED /\ DependenciesMet(Current)
          /\ state' = [state EXCEPT ![Current] = INITIALIZED]
          /\ data' = [data EXCEPT ![Current] = TRUE]
          /\ UNCHANGED failed
       \/ /\ state[Current] = UNINITIALIZED /\ DependenciesMet(Current)
          /\ Current \in InitMayFail
          /\ state' = [state EXCEPT ![Current] = ERROR]
          /\ failed' = failed \cup {Current}
          /\ \E b \in BOOLEAN : data' = [data EXCEPT ![Current] = b]
       \/ /\ state[Current] = UNINITIALIZED /\ ~DependenciesMet(Current)
          /\ UNCHANGED <<state, data, failed>>
    /\ UNCHANGED <<modules, capacity, active, phase, round>>

(* A start that fails may have set some of its threads or handles going.   *)
StartModule ==
    /\ InPass("start")
    /\ i' = i + 1
    /\ \/ /\ state[Current] = INITIALIZED
          /\ state' = [state EXCEPT ![Current] = STARTED]
          /\ active' = [active EXCEPT ![Current] = TRUE]
          /\ UNCHANGED failed
       \/ /\ state[Current] = INITIALIZED /\ Current \in StartMayFail
          /\ state' = [state EXCEPT ![Current] = ERROR]
          /\ \E b \in BOOLEAN : active' = [active EXCEPT ![Current] = b]
          /\ failed' = failed \cup {Current}
       \/ /\ state[Current] # INITIALIZED
          /\ UNCHANGED <<state, active, failed>>
    /\ UNCHANGED <<modules, capacity, data, phase, round>>

(* Mutant: shutdown goes straight to the cleanup pass.                     *)
Shutdown_NoStop ==
    /\ phase = "running"
    /\ phase' = "cleanup" /\ i' = 1 /\ round' = round + 1
    /\ UNCHANGED <<modules, capacity, state, data, active, failed>>

Shutdown ==
    /\ phase = "running"
    /\ phase' = "stop" /\ i' = 1 /\ round' = round + 1
    /\ UNCHANGED <<modules, capacity, state, data, active, failed>>

StopModule ==
    /\ InPass("stop")
    /\ i' = i + 1
    /\ \/ /\ state[Current] = STARTED
          /\ state' = [state EXCEPT ![Current] = STOPPED]
          /\ active' = [active EXCEPT ![Current] = FALSE]
          /\ UNCHANGED failed
       \/ /\ state[Current] = STARTED /\ Current \in StopMayFail
          /\ failed' = failed \cup {Current}
          /\ UNCHANGED <<state, active>>
       \/ /\ state[Current] # STARTED
          /\ UNCHANGED <<state, active, failed>>
    /\ UNCHANGED <<modules, capacity, data, phase, round>>

(* Mutant: a module that failed is left alone by shutdown.                 *)
NeedsCleanup_NotError(m) == state[m] > UNINITIALIZED /\ state[m] # ERROR

NeedsCleanup(m) == state[m] > UNINITIALIZED

(* Without private_data there is nothing to free: cleanup returns -1, or 0 *)
(* in the database module.                                                 *)
CleanupModule ==
    /\ InPass("cleanup")
    /\ i' = i + 1
    /\ \/ /\ NeedsCleanup(Current) /\ data[Current]
          /\ data' = [data EXCEPT ![Current] = FALSE]
          /\ state' = [state EXCEPT ![Current] = UNINITIALIZED]
       \/ /\ NeedsCleanup(Current) /\ ~data[Current]
          /\ \E z \in {state[Current], UNINITIALIZED} : state' = [state EXCEPT ![Current] = z]
          /\ UNCHANGED data
       \/ /\ ~NeedsCleanup(Current)
          /\ UNCHANGED <<data, state>>
    /\ UNCHANGED <<modules, capacity, active, phase, round, failed>>

(* After the first shutdown module_manager_destroy shuts down again.       *)
ShutdownReturns ==
    /\ phase = "cleanup" /\ i > Len(modules)
    /\ \/ round = 1 /\ phase' = "stop" /\ i' = 1 /\ round' = 2
       \/ round = 2 /\ phase' = "exited" /\ UNCHANGED <<i, round>>
    /\ UNCHANGED <<modules, capacity, state, data, active, failed>>

-----------------------------------------------------------------------------
Next ==
    \/ \E m \in Modules : RegisterModule(m) \/ RegisterFails(m)
    \/ \E name \in Names : UnregisterModule(name)
    \/ StartManager
    \/ InitModule \/ EndPass("init", "start")
    \/ StartModule \/ EndPass("start", "running")
    \/ Shutdown
    \/ StopModule \/ EndPass("stop", "cleanup")
    \/ CleanupModule \/ ShutdownReturns

Spec == Init /\ [][Next]_vars

-----------------------------------------------------------------------------
(* Properties.                                                             *)

(* Types, and the module array is never indexed past its capacity.         *)
TypeOK ==
    /\ modules \in Seq(Modules) /\ Len(modules) <= capacity
    /\ capacity \in Nat
    /\ state \in [Modules -> UNINITIALIZED..ERROR]
    /\ data \in [Modules -> BOOLEAN] /\ active \in [Modules -> BOOLEAN]
    /\ phase \in {"register", "init", "start", "running", "stop", "cleanup", "exited"}
    /\ i \in Nat /\ round \in 0..2 /\ failed \subseteq Modules

Before(m, n) ==
    \E j, k \in DOMAIN modules : j < k /\ modules[j] = m /\ modules[k] = n

(* When every dependency is registered before the modules that need it and *)
(* no call fails, module_manager_start starts every module.                *)
OrderSuffices ==
    /\ phase = "running" /\ failed = {}
    /\ \A m \in Registered : \A d \in DependsOn[m] :
          \E dep \in Find(d) : Before(dep, m)
    => \A m \in Registered : state[m] = STARTED

(* At exit no registered module keeps its private data, those whose start  *)
(* failed included, and the second shutdown changes nothing.               *)
ShutdownComplete ==
    phase = "exited" \/ round = 2 => \A m \in Registered : ~data[m]

(* A module is cleaned up only when nothing of it runs any more, unless    *)
(* its own start or stop has failed.                                       *)
QuietBeforeCleanup ==
    \A m \in Modules : active[m] => data[m] \/ m \in failed

(* A module is initialised only after its dependencies, which then stay    *)
(* usable until shutdown; the exception is a dependency whose own init or  *)
(* start has failed, as check_module_dependencies lets ERROR pass.         *)
DependenciesFirst ==
    phase \in {"init", "start", "running"} =>
        \A m \in Registered : state[m] \in {INITIALIZED, STARTED} =>
            \A d \in DependsOn[m] : \E dep \in Find(d) :
                state[dep] \in {INITIALIZED, STARTED} \/ dep \in failed
=============================================================================
