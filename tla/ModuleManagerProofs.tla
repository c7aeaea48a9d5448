------------------------- MODULE ModuleManagerProofs -------------------------
(***************************************************************************)
(* Proofs about ModuleManager, for every set of modules, names and         *)
(* dependencies, every initial capacity and every choice of the modules    *)
(* whose calls may fail.                                                   *)
(***************************************************************************)
EXTENDS ModuleManager, SequenceTheorems, TLAPS

(* The phases of a manager that has not begun to shut down.                *)
Rising == {"register", "init", "start", "running"}

(* No module is registered twice.                                          *)
Distinct == \A j, k \in DOMAIN modules : modules[j] = modules[k] => j = k

(* Nothing happens to a module before the first pass.                      *)
Fresh ==
    phase = "register" =>
        \A m \in Modules : state[m] = UNINITIALIZED /\ ~data[m] /\ ~active[m]

Rounds ==
    /\ phase \in Rising => round = 0
    /\ phase \in {"stop", "cleanup"} => round \in {1, 2}

(* private_data is set exactly in the states between init and cleanup; only*)
(* a failed call leaves it open.                                           *)
DataOfState ==
    \A m \in Modules :
        /\ state[m] \in {INITIALIZED, STARTED, STOPPED} => data[m]
        /\ state[m] = UNINITIALIZED => ~data[m]
        /\ state[m] = ERROR => m \in failed
        /\ phase \in Rising => state[m] # STOPPED

(* What runs is registered and STARTED, or a call of its module failed.    *)
Running ==
    \A m \in Modules : active[m] =>
        /\ m \in Registered
        /\ state[m] = STARTED \/ m \in failed

(* What the stop pass leaves running is due to a failed call.              *)
Stopped ==
    /\ phase = "stop" =>
          \A k \in DOMAIN modules : k < i /\ active[modules[k]] => modules[k] \in failed
    /\ phase \in {"cleanup", "exited"} \/ round = 2 =>
          \A m \in Modules : active[m] => m \in failed

(* What the cleanup pass has freed.                                        *)
Cleaned ==
    /\ phase = "cleanup" => \A k \in DOMAIN modules : k < i => ~data[modules[k]]
    /\ phase = "exited" \/ round = 2 => \A m \in Registered : ~data[m]

(* Every dependency is registered before the modules that need it.         *)
Ordered ==
    \A m \in Registered : \A d \in DependsOn[m] : \E dep \in Find(d) : Before(dep, m)

(* How far the passes have got when nothing fails.                         *)
Progress ==
    failed = {} /\ Ordered =>
        /\ phase = "init" =>
              \A k \in DOMAIN modules :
                  state[modules[k]] = IF k < i THEN INITIALIZED ELSE UNINITIALIZED
        /\ phase = "start" =>
              \A k \in DOMAIN modules :
                  state[modules[k]] = IF k < i THEN STARTED ELSE INITIALIZED
        /\ phase = "running" => \A k \in DOMAIN modules : state[modules[k]] = STARTED

Types == TypeOK /\ capacity >= 1 /\ i >= 1 /\ Distinct

IInv ==
    /\ Types /\ Fresh /\ Rounds /\ DataOfState /\ Running /\ Stopped /\ Cleaned
    /\ DependenciesFirst /\ Progress

States == UNINITIALIZED..ERROR

(* The numbers of module_state_t.                                          *)
LEMMA StateNumbers ==
    /\ UNINITIALIZED \in States /\ INITIALIZED \in States /\ STARTED \in States
    /\ STOPPED \in States /\ ERROR \in States
    /\ \A z \in States : z \in {UNINITIALIZED, INITIALIZED, STARTED, STOPPED, ERROR}
    /\ \A z \in States : z >= INITIALIZED <=> z # UNINITIALIZED
    /\ \A z \in States : z > UNINITIALIZED <=> z # UNINITIALIZED
    /\ INITIALIZED # UNINITIALIZED /\ STARTED # UNINITIALIZED /\ STOPPED # UNINITIALIZED
    /\ ERROR # UNINITIALIZED /\ STARTED # INITIALIZED /\ STOPPED # INITIALIZED
    /\ ERROR # INITIALIZED /\ STOPPED # STARTED /\ ERROR # STARTED /\ ERROR # STOPPED
  BY DEF States, UNINITIALIZED, INITIALIZED, STARTED, STOPPED, ERROR

(* The array of the manager in the proofs below.                           *)
LEMMA ArrayFacts ==
    ASSUME Types
    PROVE  /\ modules \in Seq(Modules) /\ Len(modules) \in Nat
           /\ DOMAIN modules = 1..Len(modules)
           /\ \A k \in DOMAIN modules : modules[k] \in Modules
           /\ Registered \subseteq Modules
<1>1. modules \in Seq(Modules)
  BY DEF Types, TypeOK
<1>2. /\ Len(modules) \in Nat /\ DOMAIN modules = 1..Len(modules)
      /\ \A k \in DOMAIN modules : modules[k] \in Modules
  BY <1>1, LenProperties, ElementOfSeq
<1> QED
  BY <1>1, <1>2 DEF Registered

(* The module a pass is at.                                                *)
LEMMA CurrentFacts ==
    ASSUME Types, i <= Len(modules)
    PROVE  /\ i \in DOMAIN modules /\ Current \in Modules /\ Current \in Registered
           /\ \A k \in DOMAIN modules : modules[k] = Current <=> k = i
           /\ \A k \in DOMAIN modules : k < i + 1 => k < i \/ k = i
<1>1. i \in Nat /\ i >= 1
  BY DEF Types, TypeOK
<1>2. i \in DOMAIN modules
  BY <1>1, ArrayFacts
<1>3. Current \in Modules /\ Current \in Registered
  BY <1>2, ArrayFacts DEF Current, Registered
<1>4. \A k \in DOMAIN modules : modules[k] = Current <=> k = i
  BY <1>2 DEF Types, Distinct, Current
<1>5. \A k \in DOMAIN modules : k < i + 1 => k < i \/ k = i
  BY <1>1, ArrayFacts
<1> QED
  BY <1>2, <1>3, <1>4, <1>5

(* An empty manager.                                                       *)
LEMMA InitIInv == Init => IInv
<1> SUFFICES ASSUME Init PROVE IInv
  OBVIOUS
<1>1. modules = <<>> /\ DOMAIN modules = {} /\ Len(modules) = 0 /\ modules \in Seq(Modules)
  BY DEF Init
<1>2. Types
  BY <1>1, StateNumbers, CapacityAssumption DEF Init, Types, TypeOK, Distinct, States
<1>3. Registered = {}
  BY <1>1 DEF Registered
<1>4. Fresh /\ Rounds /\ DataOfState /\ Running
  BY <1>3, StateNumbers DEF Init, Fresh, Rounds, DataOfState, Running
<1>5. Stopped /\ Cleaned /\ DependenciesFirst /\ Progress
  BY <1>1, <1>3 DEF Init, Stopped, Cleaned, DependenciesFirst, Progress
<1> QED
  BY <1>2, <1>4, <1>5 DEF IInv

(* Before the first pass everything but Types says next to nothing.        *)
LEMMA FreshSuffices ==
    ASSUME IInv, phase = "register", phase' \in {"register", "exited"}, Types', round' = round,
           UNCHANGED <<state, data, active, failed>>
    PROVE  IInv'
<1>1. \A m \in Modules : state[m] = UNINITIALIZED /\ ~data[m] /\ ~active[m]
  BY DEF IInv, Fresh
<1>2. round = 0
  BY DEF IInv, Rounds, Rising
<1>3. Registered' \subseteq Modules /\ \A k \in DOMAIN modules' : modules'[k] \in Modules
  <2>1. modules' \in Seq(Modules)
    BY DEF Types, TypeOK
  <2>2. \A k \in DOMAIN modules' : modules'[k] \in Modules
    BY <2>1, LenProperties, ElementOfSeq
  <2> QED
    BY <2>2 DEF Registered
<1>4. Fresh' /\ Rounds' /\ DataOfState' /\ Running'
  BY <1>1, <1>2, StateNumbers DEF Fresh, Rounds, DataOfState, Running, Rising
<1>5. Stopped' /\ Cleaned' /\ Progress'
  BY <1>1, <1>2, <1>3 DEF Stopped, Cleaned, Progress
<1>6. DependenciesFirst'
  BY DEF DependenciesFirst
<1> QED
  BY <1>4, <1>5, <1>6 DEF IInv

(* The array stays within its capacity and without repetitions.            *)
LEMMA RegisterIInv ==
    ASSUME IInv, \/ \E m \in Modules : RegisterModule(m) \/ RegisterFails(m)
                 \/ \E name \in Names : UnregisterModule(name)
    PROVE  IInv'
<1>0. /\ modules \in Seq(Modules) /\ Len(modules) \in Nat /\ DOMAIN modules = 1..Len(modules)
      /\ capacity \in Nat /\ capacity >= 1 /\ Len(modules) <= capacity
      /\ \A j, k \in DOMAIN modules : modules[j] = modules[k] => j = k
      /\ \A k \in DOMAIN modules : modules[k] \in Modules
  BY ArrayFacts DEF IInv, Types, TypeOK, Distinct
<1>1. ASSUME NEW m \in Modules, RegisterModule(m) PROVE IInv'
  <2>1. /\ modules' = Append(modules, m) /\ \A k \in DOMAIN modules : modules[k] # m
        /\ capacity' = IF Len(modules) >= capacity THEN 2 * capacity ELSE capacity
    BY <1>1 DEF RegisterModule, Registered, Full
  <2>2. /\ modules' \in Seq(Modules) /\ Len(modules') = Len(modules) + 1
        /\ DOMAIN modules' = 1..(Len(modules) + 1)
        /\ \A k \in 1..Len(modules) : modules'[k] = modules[k]
        /\ modules'[Len(modules) + 1] = m
    BY <1>0, <2>1, AppendProperties
  <2>3. capacity' \in Nat /\ capacity' >= 1 /\ Len(modules') <= capacity'
    BY <1>0, <2>1, <2>2
  <2>4. Distinct'
    BY <1>0, <2>1, <2>2 DEF Distinct
  <2>5. Types'
    BY <1>1, <2>2, <2>3, <2>4 DEF RegisterModule, IInv, Types, TypeOK
  <2> QED
    BY <1>1, <2>5, FreshSuffices DEF RegisterModule
<1>2. ASSUME NEW m \in Modules, RegisterFails(m) PROVE IInv'
  <2>1. Types'
    BY <1>2 DEF RegisterFails, IInv, Types, TypeOK, Distinct
  <2> QED
    BY <1>2, <2>1, FreshSuffices DEF RegisterFails
<1>3. ASSUME NEW name \in Names, UnregisterModule(name) PROVE IInv'
  <2>1. PICK n \in DOMAIN modules : modules' = Without(modules, n)
    BY <1>3 DEF UnregisterModule
  <2>2. /\ n \in 1..Len(modules) /\ Len(modules) - 1 \in Nat
        /\ modules' = [k \in 1..(Len(modules) - 1) |->
                          IF k < n THEN modules[k] ELSE modules[k + 1]]
    BY <1>0, <2>1 DEF Without
  <2>3. \A k \in 1..(Len(modules) - 1) : k \in DOMAIN modules /\ k + 1 \in DOMAIN modules
    BY <1>0
  <2>4. modules' \in Seq(Modules) /\ Len(modules') = Len(modules) - 1
    BY <1>0, <2>2, <2>3
  <2>5. Distinct'
    <3> DEFINE at(k) == IF k < n THEN k ELSE k + 1
    <3>1. DOMAIN modules' = 1..(Len(modules) - 1)
      BY <2>2
    <3>2. \A k \in DOMAIN modules' : at(k) \in DOMAIN modules /\ modules'[k] = modules[at(k)]
      BY <2>2, <2>3
    <3>3. \A j, k \in DOMAIN modules' : at(j) = at(k) => j = k
      BY <1>0, <2>2, <3>1
    <3> HIDE DEF at
    <3> QED
      BY <1>0, <3>2, <3>3 DEF Distinct
  <2>6. Types'
    BY <1>0, <1>3, <2>4, <2>5 DEF UnregisterModule, IInv, Types, TypeOK
  <2> QED
    BY <1>3, <2>6, FreshSuffices DEF UnregisterModule
<1> QED
  BY <1>1, <1>2, <1>3

(* The passes begin and end.                                               *)
LEMMA EndPassIInv ==
    ASSUME IInv,
           \/ StartManager \/ EndPass("init", "start") \/ EndPass("start", "running")
           \/ Shutdown \/ EndPass("stop", "cleanup") \/ ShutdownReturns
    PROVE  IInv'
<1> USE DEF StartManager, EndPass, Shutdown, ShutdownReturns
<1>0. UNCHANGED <<modules, capacity, state, data, active, failed>>
  OBVIOUS
<1>1. Registered' = Registered /\ Ordered' = Ordered
  BY <1>0 DEF Registered, Ordered, Find, Before
<1>2. \A k \in DOMAIN modules : i > Len(modules) => k < i
  BY ArrayFacts DEF IInv, Types, TypeOK
<1>3. Types'
  BY <1>0 DEF IInv, Types, TypeOK, Distinct, Rounds, Rising
<1>4. Fresh' /\ Rounds' /\ DataOfState' /\ Running'
  BY <1>0, <1>1 DEF IInv, Fresh, Rounds, DataOfState, Running, Rising
<1>5. Stopped'
  <2>1. \A k \in DOMAIN modules' : ~(k < 1)
    BY <1>0, ArrayFacts DEF IInv
  <2>2. CASE StartManager \/ EndPass("init", "start") \/ EndPass("start", "running") \/ Shutdown
    BY <1>0, <2>1, <2>2 DEF IInv, Stopped, Rounds, Rising
  <2>3. CASE EndPass("stop", "cleanup")
    BY <1>0, <1>2, <2>3 DEF IInv, Stopped, Running, Registered
  <2>4. CASE ShutdownReturns
    BY <1>0, <2>1, <2>4 DEF IInv, Stopped
  <2> QED
    BY <2>2, <2>3, <2>4
<1>6. Cleaned'
  <2>1. \A k \in DOMAIN modules' : ~(k < 1)
    BY <1>0, ArrayFacts DEF IInv
  <2>2. CASE StartManager \/ EndPass("init", "start") \/ EndPass("start", "running") \/ Shutdown
    BY <1>0, <2>2 DEF IInv, Cleaned, Rounds, Rising
  <2>3. CASE EndPass("stop", "cleanup")
    BY <1>0, <1>1, <2>1, <2>3 DEF IInv, Cleaned
  <2>4. CASE ShutdownReturns
    BY <1>0, <1>1, <1>2, <2>4 DEF IInv, Cleaned, Registered
  <2> QED
    BY <2>2, <2>3, <2>4
<1>7. DependenciesFirst'
  <2>1. CASE StartManager
    BY <1>0, <1>1, <2>1, StateNumbers, ArrayFacts DEF IInv, Fresh, DependenciesFirst
  <2>2. CASE ~StartManager
    <3>1. phase' \in {"init", "start", "running"} => phase \in {"init", "start", "running"}
      BY <2>2
    <3> QED
      BY <1>0, <3>1 DEF IInv, DependenciesFirst, Find, Registered
  <2> QED
    BY <2>1, <2>2
<1>8. Progress'
  <2>1. CASE StartManager
    <3>1. \A k \in DOMAIN modules : ~(k < 1) /\ state[modules[k]] = UNINITIALIZED
      BY <2>1, ArrayFacts DEF IInv, Fresh
    <3> QED
      BY <1>0, <2>1, <3>1 DEF Progress
  <2>2. CASE EndPass("init", "start")
    <3>1. \A k \in DOMAIN modules : ~(k < 1) /\ k < i
      BY <1>2, <2>2, ArrayFacts DEF IInv
    <3> QED
      BY <1>0, <1>1, <2>2, <3>1 DEF IInv, Progress
  <2>3. CASE EndPass("start", "running")
    BY <1>0, <1>1, <1>2, <2>3 DEF IInv, Progress
  <2>4. CASE Shutdown \/ EndPass("stop", "cleanup") \/ ShutdownReturns
    BY <2>4 DEF Progress
  <2> QED
    BY <2>1, <2>2, <2>3, <2>4
<1> QED
  BY <1>3, <1>4, <1>5, <1>6, <1>7, <1>8 DEF IInv

(* What check_module_dependencies sees when the order is right and nothing *)
(* has failed: the dependencies are earlier in the array, hence past init. *)
LEMMA OrderMeetsDependencies ==
    ASSUME IInv, InPass("init"), failed = {}, Ordered
    PROVE  DependenciesMet(Current)
<1> SUFFICES ASSUME NEW d \in DependsOn[Current]
             PROVE  \E dep \in Find(d) : state[dep] >= INITIALIZED
  BY DEF DependenciesMet
<1>0. Types /\ i <= Len(modules)
  BY DEF IInv, InPass
<1>1. PICK dep \in Find(d) : Before(dep, Current)
  BY <1>0, CurrentFacts DEF Ordered
<1>2. PICK j \in DOMAIN modules, k \in DOMAIN modules :
         j < k /\ modules[j] = dep /\ modules[k] = Current
  BY <1>1 DEF Before
<1>3. k = i
  BY <1>0, <1>2, CurrentFacts
<1>4. state[dep] = INITIALIZED
  BY <1>2, <1>3 DEF IInv, Progress, InPass
<1>5. state[dep] >= INITIALIZED
  BY <1>4 DEF INITIALIZED
<1> QED
  BY <1>1, <1>5

(* One turn of the init pass.                                              *)
LEMMA InitModuleIInv == ASSUME IInv, InitModule PROVE IInv'
<1>0. /\ Types /\ i <= Len(modules) /\ phase = "init" /\ phase' = "init" /\ i' = i + 1
      /\ UNCHANGED <<modules, capacity, active, round>> /\ round = 0
      /\ state \in [Modules -> States] /\ data \in [Modules -> BOOLEAN]
      /\ failed \subseteq Modules
      /\ state[Current] = UNINITIALIZED
  BY DEF IInv, Types, TypeOK, InitModule, InPass, Rounds, Rising, States
<1>1. /\ Current \in Modules /\ i \in DOMAIN modules /\ Current = modules[i]
      /\ \A k \in DOMAIN modules : modules[k] = Current <=> k = i
      /\ \A k \in DOMAIN modules : k < i + 1 => k < i \/ k = i
      /\ \A k \in DOMAIN modules : modules[k] \in Modules
  BY <1>0, CurrentFacts, ArrayFacts DEF Current
<1>2. Registered' = Registered /\ Ordered' = Ordered
  BY <1>0 DEF Registered, Ordered, Find, Before
<1>3. \/ /\ state' = [state EXCEPT ![Current] = INITIALIZED]
         /\ data' = [data EXCEPT ![Current] = TRUE] /\ failed' = failed
         /\ DependenciesMet(Current)
      \/ /\ state' = [state EXCEPT ![Current] = ERROR] /\ failed' = failed \cup {Current}
         /\ \E b \in BOOLEAN : data' = [data EXCEPT ![Current] = b]
      \/ UNCHANGED <<state, data, failed>> /\ ~DependenciesMet(Current)
  BY DEF InitModule
<1>4. /\ state' \in [Modules -> States] /\ data' \in [Modules -> BOOLEAN]
      /\ failed \subseteq failed' /\ failed' \subseteq Modules
      /\ \A m \in Modules : m # Current => state'[m] = state[m] /\ data'[m] = data[m]
  <2>1. INITIALIZED \in States /\ ERROR \in States
    BY StateNumbers
  <2>2. /\ state' \in [Modules -> States]
        /\ \A m \in Modules : m # Current => state'[m] = state[m]
    BY <1>0, <1>1, <1>3, <2>1
  <2>3. /\ data' \in [Modules -> BOOLEAN]
        /\ \A m \in Modules : m # Current => data'[m] = data[m]
    BY <1>0, <1>1, <1>3
  <2> QED
    BY <1>0, <1>1, <1>3, <2>2, <2>3
<1>5. Types'
  BY <1>0, <1>4 DEF Types, TypeOK, Distinct, States
<1>6. Fresh' /\ Rounds' /\ Stopped' /\ Cleaned'
  BY <1>0 DEF Fresh, Rounds, Stopped, Cleaned, Rising
<1>7. DataOfState'
  BY <1>0, <1>1, <1>3, <1>4, StateNumbers DEF IInv, DataOfState, Rising
<1>8. Running'
  <2>1. \A m \in Modules : state[m] = STARTED => m # Current
    BY <1>0, StateNumbers
  <2> QED
    BY <1>0, <1>2, <1>4, <2>1 DEF IInv, Running
<1>9. DependenciesFirst'
  <2> SUFFICES ASSUME NEW m \in Registered, state'[m] \in {INITIALIZED, STARTED},
                      NEW d \in DependsOn[m]
               PROVE  \E dep \in Find(d) :
                         state'[dep] \in {INITIALIZED, STARTED} \/ dep \in failed'
    BY <1>0, <1>2 DEF DependenciesFirst, Find
  <2>1. \A dep \in Find(d) : state[dep] \in {INITIALIZED, STARTED} \/ dep \in failed
            => dep \in Modules /\ (state'[dep] \in {INITIALIZED, STARTED} \/ dep \in failed')
    BY <1>0, <1>4, ArrayFacts, StateNumbers DEF Find
  <2>2. CASE state[m] \in {INITIALIZED, STARTED}
    BY <1>0, <2>1, <2>2 DEF IInv, DependenciesFirst
  <2>3. CASE state[m] \notin {INITIALIZED, STARTED}
    <3>1. m = Current /\ DependenciesMet(Current)
      <4>1. m \in Modules
        BY <1>0, ArrayFacts
      <4>2. m = Current
        BY <1>4, <2>3, <4>1
      <4> QED
        BY <1>0, <1>1, <1>3, <2>3, <4>2, StateNumbers
    <3>2. PICK dep \in Find(d) : state[dep] >= INITIALIZED
      BY <3>1 DEF DependenciesMet
    <3>3. dep \in Modules
      BY <1>0, ArrayFacts DEF Find
    <3>4. state[dep] \in {INITIALIZED, STARTED} \/ dep \in failed
      <4>1. state[dep] \in States /\ state[dep] # UNINITIALIZED
        BY <1>0, <3>2, <3>3, StateNumbers
      <4>2. state[dep] # STOPPED /\ (state[dep] = ERROR => dep \in failed)
        BY <1>0, <3>3 DEF IInv, DataOfState, Rising
      <4> QED
        BY <4>1, <4>2, StateNumbers
    <3> QED
      BY <2>1, <3>4
  <2> QED
    BY <2>2, <2>3
<1>10. Progress'
  <2> SUFFICES ASSUME failed' = {}, Ordered, NEW k \in DOMAIN modules
               PROVE  state'[modules[k]] = IF k < i + 1 THEN INITIALIZED ELSE UNINITIALIZED
    BY <1>0, <1>2 DEF Progress
  <2>1. failed = {} /\ DependenciesMet(Current)
    BY <1>0, <1>4, OrderMeetsDependencies DEF InitModule
  <2>2. state' = [state EXCEPT ![Current] = INITIALIZED]
    BY <1>3, <2>1
  <2>3. state[modules[k]] = IF k < i THEN INITIALIZED ELSE UNINITIALIZED
    BY <1>0, <2>1 DEF IInv, Progress
  <2>4. CASE k = i
    <3>1. k < i + 1 /\ modules[k] = Current
      BY <1>0, <1>1, <2>4 DEF Types, TypeOK
    <3> QED
      BY <1>0, <1>1, <2>2, <3>1
  <2>5. CASE k # i
    <3>1. (k < i + 1 <=> k < i) /\ modules[k] # Current /\ modules[k] \in Modules
      BY <1>0, <1>1, <2>5, ArrayFacts DEF Types, TypeOK
    <3> QED
      BY <1>4, <2>3, <3>1
  <2> QED
    BY <2>4, <2>5
<1> QED
  BY <1>5, <1>6, <1>7, <1>8, <1>9, <1>10 DEF IInv

(* One turn of the start pass.                                             *)
LEMMA StartModuleIInv == ASSUME IInv, StartModule PROVE IInv'
<1>0. /\ Types /\ i <= Len(modules) /\ phase = "start" /\ phase' = "start" /\ i' = i + 1
      /\ UNCHANGED <<modules, capacity, data, round>>
      /\ state \in [Modules -> States] /\ data \in [Modules -> BOOLEAN]
      /\ active \in [Modules -> BOOLEAN] /\ failed \subseteq Modules
  BY DEF IInv, Types, TypeOK, StartModule, InPass, States
<1>1. /\ Current \in Modules /\ Current \in Registered /\ i \in DOMAIN modules
      /\ Current = modules[i]
      /\ \A k \in DOMAIN modules : modules[k] = Current <=> k = i
      /\ \A k \in DOMAIN modules : k < i + 1 => k < i \/ k = i
      /\ \A k \in DOMAIN modules : modules[k] \in Modules
  BY <1>0, CurrentFacts, ArrayFacts DEF Current
<1>2. Registered' = Registered /\ Ordered' = Ordered
  BY <1>0 DEF Registered, Ordered, Find, Before
<1>3. \/ /\ state[Current] = INITIALIZED /\ state' = [state EXCEPT ![Current] = STARTED]
         /\ active' = [active EXCEPT ![Current] = TRUE] /\ failed' = failed
      \/ /\ state[Current] = INITIALIZED /\ state' = [state EXCEPT ![Current] = ERROR]
         /\ \E b \in BOOLEAN : active' = [active EXCEPT ![Current] = b]
         /\ failed' = failed \cup {Current}
      \/ state[Current] # INITIALIZED /\ UNCHANGED <<state, active, failed>>
  BY DEF StartModule
<1>4. /\ state' \in [Modules -> States] /\ active' \in [Modules -> BOOLEAN]
      /\ failed \subseteq failed' /\ failed' \subseteq Modules
      /\ \A m \in Modules : m # Current => state'[m] = state[m] /\ active'[m] = active[m]
  <2>1. STARTED \in States /\ ERROR \in States
    BY StateNumbers
  <2>2. /\ state' \in [Modules -> States]
        /\ \A m \in Modules : m # Current => state'[m] = state[m]
    BY <1>0, <1>1, <1>3, <2>1
  <2>3. /\ active' \in [Modules -> BOOLEAN]
        /\ \A m \in Modules : m # Current => active'[m] = active[m]
    BY <1>0, <1>1, <1>3
  <2> QED
    BY <1>0, <1>1, <1>3, <2>2, <2>3
<1>5. Types'
  BY <1>0, <1>4 DEF Types, TypeOK, Distinct, States
<1>6. round = 0 /\ Fresh' /\ Rounds' /\ Stopped' /\ Cleaned'
  BY <1>0 DEF IInv, Fresh, Rounds, Stopped, Cleaned, Rising
<1>7. DataOfState'
  BY <1>0, <1>1, <1>3, <1>4, StateNumbers DEF IInv, DataOfState, Rising
<1>8. Running'
  BY <1>0, <1>1, <1>2, <1>3, <1>4, StateNumbers DEF IInv, Running
<1>9. DependenciesFirst'
  <2> SUFFICES ASSUME NEW m \in Registered, state'[m] \in {INITIALIZED, STARTED},
                      NEW d \in DependsOn[m]
               PROVE  \E dep \in Find(d) :
                         state'[dep] \in {INITIALIZED, STARTED} \/ dep \in failed'
    BY <1>0, <1>2 DEF DependenciesFirst, Find
  <2>1. m \in Modules /\ state[m] \in {INITIALIZED, STARTED}
    BY <1>0, <1>1, <1>3, <1>4, ArrayFacts, StateNumbers
  <2>2. PICK dep \in Find(d) : state[dep] \in {INITIALIZED, STARTED} \/ dep \in failed
    BY <1>0, <2>1 DEF IInv, DependenciesFirst
  <2>3. dep \in Modules
    BY <1>0, ArrayFacts DEF Find
  <2>4. state'[dep] \in {INITIALIZED, STARTED} \/ dep \in failed'
    BY <1>0, <1>1, <1>3, <1>4, <2>2, <2>3
  <2> QED
    BY <2>4
<1>10. Progress'
  <2> SUFFICES ASSUME failed' = {}, Ordered, NEW k \in DOMAIN modules
               PROVE  state'[modules[k]] = IF k < i + 1 THEN STARTED ELSE INITIALIZED
    BY <1>0, <1>2 DEF Progress
  <2>1. failed = {}
    BY <1>4
  <2>2. \A n \in DOMAIN modules : state[modules[n]] = IF n < i THEN STARTED ELSE INITIALIZED
    BY <1>0, <2>1 DEF IInv, Progress
  <2>3. i \in Nat
    BY <1>0 DEF Types, TypeOK
  <2>4. state[Current] = INITIALIZED
    BY <1>1, <2>2, <2>3
  <2>5. state' = [state EXCEPT ![Current] = STARTED]
    BY <1>3, <2>4
  <2>6. CASE k = i
    <3>1. k < i + 1 /\ modules[k] = Current
      BY <1>1, <2>3, <2>6
    <3> QED
      BY <1>0, <1>1, <2>5, <3>1
  <2>7. CASE k # i
    <3>1. (k < i + 1 <=> k < i) /\ modules[k] # Current /\ modules[k] \in Modules
      BY <1>0, <1>1, <2>3, <2>7, ArrayFacts
    <3> QED
      BY <1>4, <2>2, <3>1
  <2> QED
    BY <2>6, <2>7
<1> QED
  BY <1>5, <1>6, <1>7, <1>8, <1>9, <1>10 DEF IInv

(* One turn of the stop pass.                                              *)
LEMMA StopModuleIInv == ASSUME IInv, StopModule PROVE IInv'
<1>0. /\ Types /\ i <= Len(modules) /\ phase = "stop" /\ phase' = "stop" /\ i' = i + 1
      /\ UNCHANGED <<modules, capacity, data, round>>
      /\ state \in [Modules -> States] /\ data \in [Modules -> BOOLEAN]
      /\ active \in [Modules -> BOOLEAN] /\ failed \subseteq Modules
  BY DEF IInv, Types, TypeOK, StopModule, InPass, States
<1>1. /\ Current \in Modules /\ Current \in Registered /\ i \in DOMAIN modules
      /\ Current = modules[i]
      /\ \A k \in DOMAIN modules : modules[k] = Current <=> k = i
      /\ \A k \in DOMAIN modules : k < i + 1 => k < i \/ k = i
      /\ \A k \in DOMAIN modules : modules[k] \in Modules
  BY <1>0, CurrentFacts, ArrayFacts DEF Current
<1>2. Registered' = Registered /\ Ordered' = Ordered
  BY <1>0 DEF Registered, Ordered, Find, Before
<1>3. \/ /\ state[Current] = STARTED /\ state' = [state EXCEPT ![Current] = STOPPED]
         /\ active' = [active EXCEPT ![Current] = FALSE] /\ failed' = failed
      \/ /\ state[Current] = STARTED /\ failed' = failed \cup {Current}
         /\ UNCHANGED <<state, active>>
      \/ state[Current] # STARTED /\ UNCHANGED <<state, active, failed>>
  BY DEF StopModule
<1>4. /\ state' \in [Modules -> States] /\ active' \in [Modules -> BOOLEAN]
      /\ failed \subseteq failed' /\ failed' \subseteq Modules
      /\ \A m \in Modules : m # Current => state'[m] = state[m]
      /\ \A m \in Modules : active'[m] => active[m]
  <2>1. STOPPED \in States
    BY StateNumbers
  <2>2. /\ state' \in [Modules -> States]
        /\ \A m \in Modules : m # Current => state'[m] = state[m]
    BY <1>0, <1>1, <1>3, <2>1
  <2>3. /\ active' \in [Modules -> BOOLEAN]
        /\ \A m \in Modules : active'[m] => active[m]
    BY <1>0, <1>1, <1>3
  <2> QED
    BY <1>0, <1>1, <1>3, <2>2, <2>3
<1>5. Types'
  BY <1>0, <1>4 DEF Types, TypeOK, Distinct, States
<1>6. Fresh' /\ Rounds' /\ DependenciesFirst' /\ Progress'
  BY <1>0 DEF IInv, Fresh, Rounds, DependenciesFirst, Progress, Rising
<1>7. DataOfState'
  BY <1>0, <1>1, <1>3, <1>4, StateNumbers DEF IInv, DataOfState, Rising
<1>8. active'[Current] => Current \in failed'
  BY <1>0, <1>1, <1>3 DEF IInv, Running
<1>9. Running'
  BY <1>1, <1>2, <1>4, <1>8 DEF IInv, Running
<1>10. Stopped'
  <2>1. \A k \in DOMAIN modules : k < i + 1 /\ active'[modules[k]] => modules[k] \in failed'
    BY <1>0, <1>1, <1>4, <1>8 DEF IInv, Stopped
  <2> QED
    BY <1>0, <1>4, <2>1 DEF IInv, Stopped
<1>11. Cleaned'
  BY <1>0, <1>2 DEF IInv, Cleaned
<1> QED
  BY <1>5, <1>6, <1>7, <1>9, <1>10, <1>11 DEF IInv

(* One turn of the cleanup pass.                                           *)
LEMMA CleanupModuleIInv == ASSUME IInv, CleanupModule PROVE IInv'
<1>0. /\ Types /\ i <= Len(modules) /\ phase = "cleanup" /\ phase' = "cleanup" /\ i' = i + 1
      /\ UNCHANGED <<modules, capacity, active, failed, round>>
      /\ state \in [Modules -> States] /\ data \in [Modules -> BOOLEAN]
      /\ active \in [Modules -> BOOLEAN] /\ failed \subseteq Modules
  BY DEF IInv, Types, TypeOK, CleanupModule, InPass, States
<1>1. /\ Current \in Modules /\ Current \in Registered /\ i \in DOMAIN modules
      /\ Current = modules[i]
      /\ \A k \in DOMAIN modules : modules[k] = Current <=> k = i
      /\ \A k \in DOMAIN modules : k < i + 1 => k < i \/ k = i
      /\ \A k \in DOMAIN modules : modules[k] \in Modules
  BY <1>0, CurrentFacts, ArrayFacts DEF Current
<1>2. Registered' = Registered /\ Ordered' = Ordered
  BY <1>0 DEF Registered, Ordered, Find, Before
<1>3. \/ /\ data' = [data EXCEPT ![Current] = FALSE]
         /\ state' = [state EXCEPT ![Current] = UNINITIALIZED]
      \/ /\ ~data[Current] /\ data' = data
         /\ \/ state' = state
            \/ state' = [state EXCEPT ![Current] = UNINITIALIZED]
      \/ state[Current] = UNINITIALIZED /\ UNCHANGED <<data, state>>
  <2>1. CASE NeedsCleanup(Current)
    BY <1>0, <1>1, <2>1 DEF CleanupModule
  <2>2. CASE ~NeedsCleanup(Current)
    BY <1>0, <1>1, <2>2, StateNumbers DEF CleanupModule, NeedsCleanup
  <2> QED
    BY <2>1, <2>2
<1>4. /\ state' \in [Modules -> States] /\ data' \in [Modules -> BOOLEAN]
      /\ \A m \in Modules : m # Current => state'[m] = state[m] /\ data'[m] = data[m]
      /\ \A m \in Modules : data'[m] => data[m]
  <2>1. UNINITIALIZED \in States
    BY StateNumbers
  <2>2. /\ state' \in [Modules -> States]
        /\ \A m \in Modules : m # Current => state'[m] = state[m]
    BY <1>0, <1>1, <1>3, <2>1
  <2>3. /\ data' \in [Modules -> BOOLEAN]
        /\ \A m \in Modules : m # Current => data'[m] = data[m]
        /\ \A m \in Modules : data'[m] => data[m]
    BY <1>0, <1>1, <1>3
  <2> QED
    BY <2>2, <2>3
<1>5. Types'
  BY <1>0, <1>4 DEF Types, TypeOK, Distinct, States
<1>6. Fresh' /\ Rounds' /\ DependenciesFirst' /\ Progress'
  BY <1>0 DEF IInv, Fresh, Rounds, DependenciesFirst, Progress, Rising
<1>7. ~data'[Current]
  BY <1>0, <1>1, <1>3 DEF IInv, DataOfState
<1>8. DataOfState'
  BY <1>0, <1>1, <1>3, <1>4, <1>7, StateNumbers DEF IInv, DataOfState, Rising
<1>9. Running' /\ Stopped'
  BY <1>0, <1>2 DEF IInv, Running, Stopped
<1>10. Cleaned'
  <2>1. \A k \in DOMAIN modules : k < i + 1 => ~data'[modules[k]]
    BY <1>0, <1>1, <1>4, <1>7 DEF IInv, Cleaned
  <2>2. round = 2 => \A m \in Registered : ~data'[m]
    BY <1>0, <1>4, ArrayFacts DEF IInv, Cleaned
  <2> QED
    BY <1>0, <1>2, <2>1, <2>2 DEF Cleaned
<1> QED
  BY <1>5, <1>6, <1>8, <1>9, <1>10 DEF IInv

(* Every step of the main thread preserves the inductive invariant.        *)
LEMMA StepIInv == IInv /\ [Next]_vars => IInv'
<1> SUFFICES ASSUME IInv, [Next]_vars PROVE IInv'
  OBVIOUS
<1>1. CASE UNCHANGED vars
  <2>1. Registered' = Registered /\ Ordered' = Ordered /\ \A d : Find(d)' = Find(d)
    BY <1>1 DEF vars, Registered, Ordered, Find, Before
  <2>2. Types' /\ Fresh' /\ Rounds' /\ DataOfState' /\ Running'
    BY <1>1, <2>1 DEF vars, IInv, Types, TypeOK, Distinct, Fresh, Rounds, DataOfState, Running
  <2>3. Stopped' /\ Cleaned' /\ Progress'
    BY <1>1, <2>1 DEF vars, IInv, Stopped, Cleaned, Progress
  <2>4. DependenciesFirst'
    BY <1>1 DEF vars, IInv, DependenciesFirst, Find, Registered
  <2> QED
    BY <2>2, <2>3, <2>4 DEF IInv
<1> QED
  BY <1>1, RegisterIInv, EndPassIInv, InitModuleIInv, StartModuleIInv, StopModuleIInv,
     CleanupModuleIInv DEF Next

(* The inductive invariant holds in every reachable state.                 *)
LEMMA Inductive == Spec => []IInv
  BY InitIInv, StepIInv, PTL DEF Spec

-----------------------------------------------------------------------------
(* Types, and module_manager_register never writes past the array: it is   *)
(* grown before it is full, for every initial capacity.                    *)
THEOREM TypeCorrect == Spec => []TypeOK
<1>1. IInv => TypeOK
  BY DEF IInv, Types
<1> QED
  BY <1>1, Inductive, PTL

(* If every dependency is registered before its dependents and no call     *)
(* fails, module_manager_start starts every registered module.             *)
THEOREM OrderCorrect == Spec => []OrderSuffices
<1>1. IInv => OrderSuffices
  BY DEF IInv, Progress, OrderSuffices, Ordered, Registered
<1> QED
  BY <1>1, Inductive, PTL

(* A module is initialised only after its dependencies, and as long as the *)
(* manager is not shut down they stay initialised or started, unless a     *)
(* call of theirs failed.                                                  *)
THEOREM DependenciesCorrect == Spec => []DependenciesFirst
<1>1. IInv => DependenciesFirst
  BY DEF IInv
<1> QED
  BY <1>1, Inductive, PTL

(* The stop pass of module_manager_shutdown comes first, so cleanup frees  *)
(* the private data of a module only when nothing of it runs any more, or  *)
(* after a start or stop of that module has failed.                        *)
THEOREM QuietCorrect == Spec => []QuietBeforeCleanup
<1>1. IInv => QuietBeforeCleanup
  BY DEF IInv, Running, DataOfState, QuietBeforeCleanup
<1> QED
  BY <1>1, Inductive, PTL

(* When the program exits, and already when destroy shuts down for the     *)
(* second time, no registered module has private data left, whichever      *)
(* calls failed before.                                                    *)
THEOREM ShutdownCorrect == Spec => []ShutdownComplete
<1>1. IInv => ShutdownComplete
  BY DEF IInv, Cleaned, ShutdownComplete
<1> QED
  BY <1>1, Inductive, PTL
=============================================================================
