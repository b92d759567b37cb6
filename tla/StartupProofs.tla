--------------------------- MODULE StartupProofs ----------------------------
(***************************************************************************)
(* Proofs about Startup, for every table of tasks, every assignment of     *)
(* priorities and every number of majors.                                  *)
(***************************************************************************)
EXTENDS Startup, TLAPS, FiniteSetTheorems

(***************************************************************************)
(* Launch into a running bus, on every port.                               *)
(***************************************************************************)
BusReady ==
  /\ ipc.instance
  /\ ipc.main_task = Bus
  /\ Bus \in segments
  /\ Bus \in node

LaunchTypes ==
  /\ pc \in [Tasks -> Places]
  /\ init_lock \in [methods : BOOLEAN, count : Nat]
  /\ ipc \in [instance : BOOLEAN, main_task : Tasks \cup {NULL}]

(* How far the bus has come.                                               *)
BusProgress ==
  /\ pc[Bus] \in {"register", "enter", "facade", "main_task", "notify", "loop"} => Bus \in segments
  /\ pc[Bus] \in {"facade", "main_task", "notify", "loop"} => Bus \in node
  /\ pc[Bus] \in {"main_task", "notify", "loop"} => ipc.instance
  /\ pc[Bus] \in {"notify", "loop"} => ipc.main_task = Bus
  /\ pc[Bus] \notin {"asleep", "launch"}

(* Nobody else posts init_lock, and who got past it did so by a post.      *)
OthersFollow ==
  /\ init_lock.count # 0 => BusReady
  /\ \A t \in Tasks \ {Bus} :
       /\ pc[t] \notin {"facade", "main_task", "notify"}
       /\ pc[t] \in {"enter", "launch", "loop"} => BusReady
       /\ pc[t] \in {"launch", "loop"} => t \in node

LaunchInv == LaunchTypes /\ BusProgress /\ OthersFollow

(* What the proofs need of the constants.                                  *)
LEMMA Constants == Bus \in Tasks /\ NULL \notin Tasks
  BY StartupAssumption DEF StartupAssumption

(* Initially no task is past its creation.                                 *)
LEMMA LaunchInit == Init => LaunchInv
  BY Constants DEF Init, LaunchInv, LaunchTypes, BusProgress, OthersFollow, Places

(* A task stays in Tasks: task_prepare picks the next of the table.        *)
LEMMA NextTask == ASSUME prepared \in Nat, prepared < Len(Preload)
                  PROVE Preload[prepared + 1] \in Tasks
<1>1. Preload \in Seq(Tasks)
  BY StartupAssumption DEF StartupAssumption
<1>2. prepared + 1 \in 1 .. Len(Preload)
  BY <1>1
<1> QED
  BY <1>1, <1>2

(* Creating a task disturbs nothing that is known of the others.           *)
LEMMA LaunchPrepare == ASSUME LaunchInv, prepared \in Nat, Prepare PROVE LaunchInv'
<1> DEFINE u == Preload[prepared + 1]
<1>1. u \in Tasks
  BY NextTask DEF Prepare, task_prepare
<1>2. PICK place \in {"create", "failed"} : pc' = [pc EXCEPT ![u] = place]
  BY DEF Prepare, task_prepare, task_create, OutOfMemory
<1>3. UNCHANGED <<init_lock, ipc, segments, node>>
  BY DEF Prepare, task_prepare, bus
<1> QED
  BY <1>1, <1>2, <1>3, Constants
  DEF LaunchInv, LaunchTypes, BusProgress, OthersFollow, BusReady, Places

(* Every step of a task keeps the invariant.                               *)
LEMMA LaunchStep ==
  ASSUME LaunchInv, NEW t \in Tasks, Step(t) PROVE LaunchInv'
<1> USE Constants DEF LaunchInv, LaunchTypes, BusProgress, OthersFollow, BusReady, Places, Goto
<1>1. CASE on_create(t)
  BY <1>1 DEF on_create, bus
<1>2. CASE GetBus(t)
  <2>1. /\ UNCHANGED <<ipc, node>>
        /\ segments \subseteq segments'
    BY <1>2 DEF GetBus, get_system_bus_instance, HasBus, bus
  <2>2. \/ UNCHANGED init_lock
        \/ init_lock' = [init_lock EXCEPT !.methods = TRUE]
        \/ init_lock' = [init_lock EXCEPT !.count = 0]
    BY <1>2 DEF GetBus, get_system_bus_instance, bus
  <2>3. /\ init_lock' \in [methods : BOOLEAN, count : Nat]
        /\ init_lock'.count # 0 => init_lock.count # 0
    <3>1. init_lock \in [methods : BOOLEAN, count : Nat]
      OBVIOUS
    <3>2. CASE UNCHANGED init_lock
      BY <3>1, <3>2
    <3>3. CASE init_lock' = [init_lock EXCEPT !.methods = TRUE]
      BY <3>1, <3>3
    <3>4. CASE init_lock' = [init_lock EXCEPT !.count = 0]
      BY <3>1, <3>4
    <3> QED BY <2>2, <3>2, <3>3, <3>4
  <2>4. PICK place \in {"publish", "methods", "sem_init", "get", "register"} :
          /\ pc' = [pc EXCEPT ![t] = place]
          /\ place = "register" => t \in segments'
    BY <1>2 DEF GetBus, get_system_bus_instance, HasBus
  <2> QED BY <2>1, <2>3, <2>4
<1>3. CASE Register(t)
  <2>1. CASE pc[t] = "register" /\ t = Bus
    BY <1>3, <2>1 DEF Register, bus_register
  <2>2. CASE pc[t] = "register" /\ t # Bus /\ init_lock.count = 0
    <3>1. UNCHANGED <<segments, ipc, node>> /\ Uses(t, 0, "asleep")
      BY <1>3, <2>2 DEF Register, bus_register
    <3>2. init_lock' \in [methods : BOOLEAN, count : Nat] /\ init_lock'.count = 0
      BY <2>2, <3>1 DEF Uses
    <3>3. \E place \in {"asleep", "crashed"} : pc' = [pc EXCEPT ![t] = place]
      BY <3>1 DEF Uses
    <3> QED BY <2>2, <3>1, <3>2, <3>3
  <2>3. CASE pc[t] = "register" /\ t # Bus /\ init_lock.count # 0
    BY <1>3, <2>3 DEF Register, bus_register, Uses
  <2>4. CASE pc[t] = "asleep"
    <3>1. init_lock.count # 0 /\ t # Bus
      BY <2>4 DEF Step, Runs, Waits
    <3> QED BY <1>3, <2>4, <3>1 DEF Register, bus_register
  <2>5. CASE pc[t] = "enter"
    BY <1>3, <2>5 DEF Register, bus_register
  <2> QED BY <1>3, <2>1, <2>2, <2>3, <2>4, <2>5 DEF Register, bus_register
<1>4. CASE service_launch(t)
  <2>1. t = Bus
    BY <1>4 DEF service_launch, ipc_facade_create_instance, bus_contex_notify
  <2>2. CASE ipc_facade_create_instance(t) /\ UNCHANGED <<init_lock, posts, early>>
    <3>1. UNCHANGED <<init_lock, segments, node>>
      BY <1>4, <2>2 DEF service_launch
    <3>2. CASE pc[t] = "facade" /\ ipc' = [ipc EXCEPT !.instance = TRUE] /\ Goto(t, "main_task")
      BY <2>1, <3>1, <3>2
    <3>3. CASE pc[t] = "main_task" /\ ipc' = [ipc EXCEPT !.main_task = t] /\ Goto(t, "notify")
      BY <2>1, <3>1, <3>3
    <3> QED BY <2>2, <3>2, <3>3 DEF ipc_facade_create_instance
  <2>3. CASE bus_contex_notify(t) /\ UNCHANGED ipc
    BY <1>4, <2>1, <2>3 DEF service_launch, bus_contex_notify, Uses
  <2> QED BY <1>4, <2>2, <2>3 DEF service_launch
<1>5. CASE on_launch(t)
  BY <1>5 DEF on_launch, bus
<1> QED
  BY <1>1, <1>2, <1>3, <1>4, <1>5 DEF Step

(* The number of tasks main() has gone through.                            *)
LEMMA PreparedNat == Init => prepared \in Nat
  BY DEF Init

LEMMA PreparedStep == ASSUME prepared \in Nat, [Next]_vars PROVE prepared' \in Nat
<1>1. CASE Prepare
  BY <1>1 DEF Prepare, task_prepare
<1>2. ASSUME NEW t \in Tasks, Step(t) PROVE UNCHANGED prepared
  BY <1>2 DEF Step, on_create, GetBus, Register, service_launch, on_launch, main
<1>3. CASE UNCHANGED vars
  BY <1>3 DEF vars, main
<1> QED
  BY <1>1, <1>2, <1>3 DEF Next

LEMMA LaunchNext == ASSUME LaunchInv, prepared \in Nat, [Next]_vars PROVE LaunchInv'
<1>1. CASE Prepare
  BY <1>1, LaunchPrepare
<1>2. ASSUME NEW t \in Tasks, Step(t) PROVE LaunchInv'
  BY <1>2, LaunchStep
<1>3. CASE UNCHANGED vars
  BY <1>3 DEF vars, bus, LaunchInv, LaunchTypes, BusProgress, OthersFollow, BusReady
<1> QED
  BY <1>1, <1>2, <1>3 DEF Next

(* On every port, strict or not, and although the bus is published before  *)
(* it is initialised, no segment is launched before the bus can serve it.  *)
THEOREM SegmentsLaunchIntoRunningBus == Spec => []LaunchedIntoRunningBus
<1>1. Init => LaunchInv /\ prepared \in Nat
  BY LaunchInit, PreparedNat
<1>2. (LaunchInv /\ prepared \in Nat) /\ [Next]_vars => (LaunchInv /\ prepared \in Nat)'
  BY LaunchNext, PreparedStep
<1>3. LaunchInv => LaunchedIntoRunningBus
  BY Constants DEF LaunchInv, OthersFollow, BusReady, LaunchedIntoRunningBus
<1> QED
  BY <1>1, <1>2, <1>3, PTL DEF Spec

(***************************************************************************)
(* Strict priorities exclude the race for the bus.                         *)
(***************************************************************************)
Building == {"publish", "methods", "sem_init"}
Started(t) == pc[t] \in {"get"} \cup Building

(* Until init_lock is constructed a single task runs: those above it do    *)
(* not exist, and those below it have not had their turn.                  *)
FirstAlone ==
  /\ \A t \in Tasks : pc[t] \in {"none", "failed", "create"} \/ Started(t)
  /\ \A t \in Tasks : Started(t) => prepared = Len(Preload)
  /\ \A t, u \in Tasks : Started(t) /\ Started(u) => t = u
  /\ \A t, u \in Tasks :
       Started(t) /\ Priority[u] > Priority[t] => pc[u] \in {"none", "failed"}
  /\ sb_instance => \E t \in Tasks : pc[t] \in {"methods", "sem_init"}
  /\ \A t \in Tasks : pc[t] \in {"methods", "sem_init"} => sb_instance

(* Afterwards nobody builds it again.                                      *)
BusBuilt == sb_instance /\ \A t \in Tasks : pc[t] \notin Building

StrictInv ==
  /\ pc \in [Tasks -> Places]
  /\ prepared \in Nat
  /\ strict =>
       /\ early = {}
       /\ \/ constructed = 0 /\ FirstAlone
          \/ constructed = 1 /\ BusBuilt

(* Initially no task has begun.                                            *)
LEMMA StrictInit == Init => StrictInv
  BY DEF Init, StrictInv, FirstAlone, Started, Building, Places

(* Creating a task: no task runs before all are created.                   *)
LEMMA StrictPrepare == ASSUME StrictInv, Prepare PROVE StrictInv'
<1> DEFINE u == Preload[prepared + 1]
<1>1. u \in Tasks
  BY NextTask DEF Prepare, task_prepare, StrictInv
<1>2. PICK place \in {"create", "failed"} : pc' = [pc EXCEPT ![u] = place]
  BY DEF Prepare, task_prepare, task_create, OutOfMemory
<1>3. UNCHANGED <<strict, sb_instance, constructed, early>>
  BY DEF Prepare, task_prepare, bus
<1>4. /\ prepared' = prepared + 1
      /\ prepared' \in Nat
      /\ prepared # Len(Preload)
  BY DEF Prepare, task_prepare, StrictInv
<1>5. pc' \in [Tasks -> Places]
  BY <1>1, <1>2 DEF StrictInv, Places
<1>6. CASE strict /\ constructed = 0
  <2>1. \A t \in Tasks : ~Started(t)
    BY <1>4, <1>6 DEF StrictInv, FirstAlone
  <2>2. \A t \in Tasks : ~Started(t)'
    BY <1>1, <1>2, <2>1 DEF StrictInv, Started, Building
  <2>3. ~sb_instance
    BY <1>6, <2>1 DEF StrictInv, FirstAlone, Started, Building
  <2>4. \A t \in Tasks : pc'[t] \in {"none", "failed", "create"}
    BY <1>1, <1>2, <1>6, <2>1 DEF StrictInv, FirstAlone
  <2> QED
    BY <1>3, <1>4, <1>5, <1>6, <2>2, <2>3, <2>4
    DEF StrictInv, FirstAlone, Started, Building
<1>7. CASE strict /\ constructed = 1
  BY <1>1, <1>2, <1>3, <1>4, <1>5, <1>7 DEF StrictInv, BusBuilt, Building
<1> QED
  BY <1>3, <1>4, <1>5, <1>6, <1>7 DEF StrictInv

(* The task that runs before the construction is the only one started.     *)
LEMMA OnlyRunner ==
  ASSUME StrictInv, strict, constructed = 0, NEW t \in Tasks, Runs(t)
  PROVE /\ prepared = Len(Preload)
        /\ pc[t] = "create" \/ Started(t)
        /\ \A u \in Tasks : Started(u) => u = t
        /\ \A u \in Tasks : Priority[u] > Priority[t] => pc[u] \in {"none", "failed"}
<1>1. FirstAlone
  BY DEF StrictInv
<1>2. prepared = Len(Preload)
  BY DEF Runs
<1>3. pc[t] \notin {"none", "failed"}
  BY DEF Runs, Waits
<1>4. \A u \in Tasks : Priority[u] > Priority[t] => pc[u] \in {"none", "failed"}
  BY <1>1 DEF Runs, Waits, FirstAlone, Started, Building
<1>5. ASSUME NEW u \in Tasks, Started(u), u # t PROVE FALSE
  <2>1. Priority[u] \in Nat /\ Priority[t] \in Nat /\ Priority[u] # Priority[t]
    BY <1>5, StartupAssumption DEF StartupAssumption
  <2>2. CASE Priority[u] > Priority[t]
    BY <1>4, <1>5, <2>2 DEF Started, Building
  <2>3. CASE Priority[t] > Priority[u]
    BY <1>1, <1>3, <1>5, <2>3 DEF FirstAlone
  <2> QED BY <2>1, <2>2, <2>3
<1> QED
  BY <1>1, <1>2, <1>3, <1>4, <1>5 DEF FirstAlone

(* A step before the construction is one of the first task.                *)
LEMMA StrictStepFirst ==
  ASSUME StrictInv, strict, constructed = 0, NEW t \in Tasks, Step(t) PROVE StrictInv'
<1>1. /\ prepared = Len(Preload)
      /\ pc[t] = "create" \/ Started(t)
      /\ \A u \in Tasks : Started(u) => u = t
      /\ \A u \in Tasks : Priority[u] > Priority[t] => pc[u] \in {"none", "failed"}
  BY OnlyRunner DEF Step
<1>2. FirstAlone /\ pc \in [Tasks -> Places] /\ prepared \in Nat /\ early = {}
  BY DEF StrictInv
<1>3. on_create(t) \/ GetBus(t)
  BY <1>1 DEF Step, Started, Building, Register, bus_register, service_launch,
              ipc_facade_create_instance, bus_contex_notify, on_launch
<1>4. UNCHANGED <<strict, prepared, early>>
  BY <1>3 DEF on_create, GetBus, main
<1>5. pc[t] = "get" => ~sb_instance
  BY <1>1, <1>2 DEF FirstAlone, Started, Building
<1>6. Priority[t] \in Nat
  BY StartupAssumption DEF StartupAssumption
<1>7. ASSUME NEW place \in {"get"} \cup Building, pc' = [pc EXCEPT ![t] = place],
             UNCHANGED constructed,
             sb_instance' <=> place \in {"methods", "sem_init"}
      PROVE StrictInv'
  <2>1. \A u \in Tasks : Started(u)' <=> u = t
    BY <1>1, <1>2, <1>7 DEF Started
  <2>2. \A u \in Tasks : u # t => pc'[u] = pc[u] /\ pc[u] \in {"none", "failed", "create"}
    BY <1>1, <1>2, <1>7 DEF FirstAlone
  <2>3. pc'[t] = place
    BY <1>2, <1>7
  <2>4. pc' \in [Tasks -> Places]
    BY <1>2, <1>7 DEF Places, Building
  <2>5. \A u \in Tasks : Priority[u] > Priority[t] => pc'[u] \in {"none", "failed"}
    BY <1>1, <1>6, <2>2
  <2>6. FirstAlone'
    BY <1>1, <1>4, <1>7, <2>1, <2>2, <2>3, <2>5 DEF FirstAlone
  <2> QED
    BY <1>2, <1>4, <1>7, <2>4, <2>6 DEF StrictInv
<1>8. CASE on_create(t)
  <2>1. ~sb_instance
    BY <1>1, <1>2, <1>8 DEF on_create, FirstAlone, Started, Building
  <2> QED BY <1>7, <1>8, <2>1 DEF on_create, Goto, bus
<1>9. CASE GetBus(t) /\ pc[t] = "get"
  BY <1>5, <1>7, <1>9 DEF GetBus, get_system_bus_instance, MustInit, Goto, bus, Building
<1>10. CASE GetBus(t) /\ pc[t] = "publish"
  BY <1>7, <1>10 DEF GetBus, get_system_bus_instance, Goto, Building
<1>11. CASE GetBus(t) /\ pc[t] = "methods"
  <2>1. sb_instance
    BY <1>2, <1>11 DEF FirstAlone
  <2> QED BY <1>7, <1>11, <2>1 DEF GetBus, get_system_bus_instance, Goto, Building
<1>12. CASE GetBus(t) /\ pc[t] = "sem_init"
  <2>1. constructed' = 1 /\ sb_instance'
    BY <1>2, <1>12 DEF GetBus, get_system_bus_instance, FirstAlone
  <2>2. PICK place \in {"register", "get"} : pc' = [pc EXCEPT ![t] = place]
    BY <1>12 DEF GetBus, get_system_bus_instance, HasBus, Goto
  <2>3. \A u \in Tasks : pc'[u] \notin Building
    BY <1>1, <1>2, <2>2 DEF Started, Building
  <2>4. pc' \in [Tasks -> Places]
    BY <1>2, <2>2 DEF Places
  <2> QED BY <1>2, <1>4, <2>1, <2>3, <2>4 DEF StrictInv, BusBuilt
<1> QED
  BY <1>3, <1>8, <1>9, <1>10, <1>11, <1>12 DEF GetBus, get_system_bus_instance

(* Where a task goes in one step: to a place, and to the building of the   *)
(* bus only when it finds none or is at it.                                *)
LEMMA StepPlace ==
  ASSUME pc \in [Tasks -> Places], NEW t \in Tasks, Step(t)
  PROVE /\ UNCHANGED <<strict, prepared>>
        /\ \E place \in Places :
             /\ pc' = [pc EXCEPT ![t] = place]
             /\ place \in Building => pc[t] \in Building \/ ~sb_instance
<1>1. CASE on_create(t)
  BY <1>1 DEF on_create, Goto, Places, Building, main
<1>2. CASE GetBus(t)
  BY <1>2 DEF GetBus, get_system_bus_instance, HasBus, MustInit, Goto, Places, Building, main
<1>3. CASE Register(t)
  BY <1>3 DEF Register, bus_register, Uses, Goto, Places, Building, main
<1>4. CASE service_launch(t)
  BY <1>4 DEF service_launch, ipc_facade_create_instance, bus_contex_notify, Uses, Goto,
              Places, Building, main
<1>5. CASE on_launch(t)
  BY <1>5 DEF on_launch, Goto, Places, Building, main
<1> QED
  BY <1>1, <1>2, <1>3, <1>4, <1>5 DEF Step

(* A step after the construction neither constructs nor is early.          *)
LEMMA StrictStepLater ==
  ASSUME StrictInv, strict, constructed = 1, NEW t \in Tasks, Step(t) PROVE StrictInv'
<1>1. BusBuilt /\ early = {} /\ pc \in [Tasks -> Places] /\ prepared \in Nat
  BY DEF StrictInv
<1>2. UNCHANGED <<strict, prepared>>
  BY <1>1, StepPlace
<1>3. PICK place \in Places : /\ pc' = [pc EXCEPT ![t] = place]
                              /\ place \in Building => pc[t] \in Building \/ ~sb_instance
  BY <1>1, StepPlace
<1>4. UNCHANGED <<sb_instance, constructed, early>>
  <2>1. CASE on_create(t) \/ on_launch(t)
    BY <2>1 DEF on_create, on_launch, bus
  <2>2. CASE GetBus(t)
    BY <1>1, <2>2 DEF GetBus, get_system_bus_instance, bus, BusBuilt, Building
  <2>3. CASE Register(t)
    BY <1>1, <2>3 DEF Register, bus_register, Uses
  <2>4. CASE service_launch(t)
    BY <1>1, <2>4 DEF service_launch, bus_contex_notify, Uses
  <2> QED BY <2>1, <2>2, <2>3, <2>4 DEF Step
<1>5. BusBuilt' /\ pc' \in [Tasks -> Places]
  BY <1>1, <1>3, <1>4 DEF BusBuilt
<1> QED
  BY <1>1, <1>2, <1>4, <1>5 DEF StrictInv

LEMMA StrictNext == ASSUME StrictInv, [Next]_vars PROVE StrictInv'
<1>1. CASE Prepare
  BY <1>1, StrictPrepare
<1>2. ASSUME NEW t \in Tasks, Step(t) PROVE StrictInv'
  <2>1. CASE ~strict
    <3>1. pc' \in [Tasks -> Places] /\ UNCHANGED <<strict, prepared>>
      BY <1>2, StepPlace DEF StrictInv
    <3> QED BY <2>1, <3>1 DEF StrictInv
  <2>2. CASE strict /\ constructed = 0
    BY <1>2, <2>2, StrictStepFirst
  <2>3. CASE strict /\ constructed = 1
    BY <1>2, <2>3, StrictStepLater
  <2> QED BY <2>1, <2>2, <2>3 DEF StrictInv
<1>3. CASE UNCHANGED vars
  BY <1>3 DEF vars, bus, main, StrictInv, FirstAlone, BusBuilt, Started
<1> QED
  BY <1>1, <1>2, <1>3 DEF Next

(* For every table of tasks with distinct priorities, whatever order they  *)
(* are created in and whichever of them fail to come up: under strict      *)
(* priority init_lock is constructed once, and before it is used.          *)
THEOREM StrictPrioritiesExcludeRace == Spec => []StrictPortDoesNotRace
<1>1. StrictInv => StrictPortDoesNotRace
  BY DEF StrictInv, StrictPortDoesNotRace, Raced
<1> QED
  BY <1>1, StrictInit, StrictNext, PTL DEF Spec

(***************************************************************************)
(* The counts of init_lock, on every port.                                 *)
(***************************************************************************)
Builders == {t \in Tasks : pc[t] \in Building}

(* Once the bus is published nobody starts to build it any more; each of   *)
(* those who do constructs init_lock once.                                 *)
Counted ==
  IF sb_instance
    THEN constructed + Cardinality(Builders) <= Len(Preload)
    ELSE constructed = 0 /\ \A t \in Tasks : pc[t] \notin {"methods", "sem_init"}

(* A post that is counted is not to come any more.                         *)
Posted == init_lock.count + posts <= SegmentMajorMax

CountInv == TypeOK /\ Counted /\ Posted

(* There are at most as many builders as entries in the table.             *)
LEMMA BuildersBound ==
  /\ IsFiniteSet(Builders) /\ Cardinality(Builders) \in Nat
  /\ Cardinality(Builders) <= Len(Preload)
<1>1. Preload \in Seq(Tasks) /\ Len(Preload) \in Nat /\ DOMAIN Preload = 1 .. Len(Preload)
  BY StartupAssumption DEF StartupAssumption
<1>2. Preload \in Surjection(1 .. Len(Preload), Tasks)
  BY <1>1 DEF Surjection, Tasks
<1>3. IsFiniteSet(1 .. Len(Preload)) /\ Cardinality(1 .. Len(Preload)) = Len(Preload)
  <2>1. PICK n \in Nat : n = Len(Preload)
    BY <1>1
  <2>2. IsFiniteSet(1 .. n) /\ Cardinality(1 .. n) = IF 1 > n THEN 0 ELSE n - 1 + 1
    BY FS_Interval
  <2>3. Cardinality(1 .. n) = n
    BY <2>2
  <2> QED
    BY <2>1, <2>2, <2>3
<1>4. IsFiniteSet(Tasks) /\ Cardinality(Tasks) <= Len(Preload) /\ Cardinality(Tasks) \in Nat
  BY <1>2, <1>3, FS_Surjection, FS_CardinalityType
<1>5. Builders \in SUBSET Tasks
  BY DEF Builders
<1>6. IsFiniteSet(Builders) /\ Cardinality(Builders) <= Cardinality(Tasks)
  BY <1>4, <1>5, FS_Subset
<1> QED
  BY <1>1, <1>4, <1>6, FS_CardinalityType

(* A step that lets nobody build, and publishes nothing, keeps the count.  *)
LEMMA CountedStays ==
  ASSUME CountInv, pc' \in [Tasks -> Places], UNCHANGED <<sb_instance, constructed>>,
         \A t \in Tasks : pc'[t] = pc[t] \/ pc'[t] \notin Building
  PROVE  Counted'
<1>1. Builders' \in SUBSET Builders
  BY DEF Builders, CountInv, TypeOK
<1>2. IsFiniteSet(Builders') /\ Cardinality(Builders') <= Cardinality(Builders)
      /\ Cardinality(Builders') \in Nat
  BY <1>1, BuildersBound, FS_Subset, FS_CardinalityType
<1>3. constructed \in Nat /\ Len(Preload) \in Nat
  BY StartupAssumption DEF StartupAssumption, CountInv, TypeOK
<1> QED
  BY <1>2, <1>3, BuildersBound DEF CountInv, Counted, Building

(* Initially nothing is counted.                                           *)
LEMMA CountInit == Init => CountInv
<1> SUFFICES ASSUME Init PROVE CountInv
  OBVIOUS
<1>1. Len(Preload) \in Nat /\ SegmentMajorMax \in Nat
  BY StartupAssumption DEF StartupAssumption
<1>2. TypeOK
  <2>1. /\ prepared \in 0 .. Len(Preload) /\ posts \in 0 .. SegmentMajorMax
        /\ constructed \in 0 .. Len(Preload)
    BY <1>1 DEF Init
  <2>2. pc \in [Tasks -> Places] /\ task_array \in Seq(Tasks)
    BY DEF Init, Places
  <2>3. /\ init_lock \in [methods : BOOLEAN, count : 0 .. SegmentMajorMax]
        /\ ipc \in [instance : BOOLEAN, main_task : Tasks \cup {NULL}]
    BY <1>1 DEF Init
  <2>4. instances \subseteq Tasks /\ segments \subseteq Tasks /\ node \subseteq Tasks
        /\ forgotten \subseteq Tasks /\ early \subseteq Tasks
    BY DEF Init
  <2>5. strict \in BOOLEAN /\ sb_instance \in BOOLEAN
    BY DEF Init
  <2> QED
    BY <2>1, <2>2, <2>3, <2>4, <2>5 DEF TypeOK
<1>3. Counted /\ Posted
  BY <1>1 DEF Init, Counted, Posted
<1> QED
  BY <1>2, <1>3 DEF CountInv

(* main() creates a task.                                                  *)
LEMMA CountPrepare == ASSUME CountInv, Prepare PROVE CountInv'
<1> DEFINE u == Preload[prepared + 1]
<1>1. prepared \in Nat /\ prepared < Len(Preload) /\ Len(Preload) \in Nat
  BY StartupAssumption DEF StartupAssumption, CountInv, TypeOK, Prepare, task_prepare
<1>2. u \in Tasks
  BY <1>1, NextTask
<1>3. PICK place \in {"create", "failed"} : pc' = [pc EXCEPT ![u] = place]
  BY DEF Prepare, task_prepare, task_create, OutOfMemory
<1>4. /\ task_array' \in {task_array, Append(task_array, u)} /\ prepared' = prepared + 1
      /\ UNCHANGED <<strict, instances, sb_instance, init_lock, node, forgotten, constructed,
                     segments, ipc, posts, early>>
  BY DEF Prepare, task_prepare, task_create, OutOfMemory, bus
<1>5. pc' \in [Tasks -> Places] /\ \A t \in Tasks : pc'[t] = pc[t] \/ pc'[t] \notin Building
  BY <1>2, <1>3 DEF CountInv, TypeOK, Places, Building
<1>6. Counted'
  BY <1>4, <1>5, CountedStays
<1>7. task_array' \in Seq(Tasks) /\ prepared' \in 0 .. Len(Preload)
  <2>1. prepared' \in 0 .. Len(Preload)
    BY <1>1, <1>4
  <2>2. task_array \in Seq(Tasks)
    BY DEF CountInv, TypeOK
  <2>3. Append(task_array, u) \in Seq(Tasks)
    BY <1>2, <2>2
  <2> QED
    BY <1>4, <2>1, <2>2, <2>3
<1>8. TypeOK'
  BY <1>4, <1>5, <1>7 DEF CountInv, TypeOK
<1>9. Posted'
  BY <1>4 DEF CountInv, Posted
<1> QED
  BY <1>6, <1>8, <1>9 DEF CountInv

(* A use of init_lock moves one count at most.                             *)
LEMMA CountUse ==
  ASSUME CountInv, NEW t \in Tasks, NEW change \in {-1, 0, 1}, NEW place \in Places \ Building,
         Uses(t, change, place),
         init_lock.methods =>
           init_lock.count + change \in 0 .. SegmentMajorMax
  PROVE  /\ init_lock' \in [methods : BOOLEAN, count : 0 .. SegmentMajorMax]
         /\ init_lock'.count = init_lock.count \/ init_lock'.count = init_lock.count + change
         /\ early' \subseteq Tasks
         /\ pc' \in [Tasks -> Places]
         /\ \A u \in Tasks : pc'[u] = pc[u] \/ pc'[u] \notin Building
<1>1. init_lock \in [methods : BOOLEAN, count : 0 .. SegmentMajorMax] /\ early \subseteq Tasks
      /\ pc \in [Tasks -> Places]
  BY DEF CountInv, TypeOK
<1>2. early' \subseteq Tasks
  BY <1>1 DEF Uses
<1>3. \E p \in Places \ Building : pc' = [pc EXCEPT ![t] = p]
  BY DEF Uses, Goto, Places, Building
<1>4. /\ init_lock' \in [methods : BOOLEAN, count : 0 .. SegmentMajorMax]
      /\ init_lock'.count = init_lock.count \/ init_lock'.count = init_lock.count + change
  <2>1. CASE init_lock.methods
    BY <1>1, <2>1 DEF Uses
  <2>2. CASE ~init_lock.methods
    BY <1>1, <2>2 DEF Uses
  <2> QED
    BY <2>1, <2>2
<1> QED
  BY <1>1, <1>2, <1>3, <1>4

(* Every step of a task keeps the counts.                                  *)
LEMMA CountStep == ASSUME CountInv, NEW t \in Tasks, Step(t) PROVE CountInv'
<1>1. /\ pc \in [Tasks -> Places] /\ instances \subseteq Tasks /\ segments \subseteq Tasks
      /\ init_lock \in [methods : BOOLEAN, count : 0 .. SegmentMajorMax]
      /\ constructed \in Nat /\ Len(Preload) \in Nat /\ SegmentMajorMax \in Nat
      /\ posts \in 0 .. SegmentMajorMax
      /\ init_lock.count + posts <= SegmentMajorMax
  BY StartupAssumption DEF StartupAssumption, CountInv, TypeOK, Posted
<1>2. CASE on_create(t)
  <2>1. pc' \in [Tasks -> Places] /\ \A u \in Tasks : pc'[u] = pc[u] \/ pc'[u] \notin Building
    BY <1>1, <1>2 DEF on_create, Goto, Places, Building
  <2>2. Counted'
    BY <1>2, <2>1, CountedStays DEF on_create, bus
  <2>3. TypeOK' /\ Posted'
    BY <1>1, <1>2, <2>1 DEF on_create, bus, main, CountInv, TypeOK, Posted
  <2> QED
    BY <2>2, <2>3 DEF CountInv
<1>3. CASE GetBus(t)
  <2>1. UNCHANGED <<strict, prepared, task_array, node, ipc, posts, early>>
    BY <1>3 DEF GetBus, get_system_bus_instance, main, bus
  <2>2. instances' \subseteq Tasks /\ segments' \subseteq Tasks /\ forgotten' \subseteq Tasks
    <3>1. instances' \subseteq Tasks /\ segments' \subseteq Tasks
      BY <1>1, <1>3 DEF GetBus, get_system_bus_instance, HasBus
    <3>2. forgotten' = forgotten \/ forgotten' = {u \in Tasks : pc[u] = "asleep"}
      BY <1>3 DEF GetBus, get_system_bus_instance, bus
    <3> QED
      BY <3>1, <3>2 DEF CountInv, TypeOK
  <2>3. CASE pc[t] = "get" /\ UNCHANGED bus
    <3>1. PICK place \in Places : /\ pc' = [pc EXCEPT ![t] = place]
                                  /\ place \in Building => place = "publish" /\ ~sb_instance
      BY <1>3, <2>3 DEF GetBus, get_system_bus_instance, HasBus, Goto, Places, Building, MustInit
    <3>2. pc' \in [Tasks -> Places]
      BY <1>1, <3>1
    <3>3. Counted'
      <4>1. CASE place \in Building
        BY <1>1, <2>3, <3>1, <4>1 DEF CountInv, Counted, bus
      <4>2. CASE place \notin Building
        <5>1. \A u \in Tasks : pc'[u] = pc[u] \/ pc'[u] \notin Building
          BY <1>1, <3>1, <4>2
        <5> QED
          BY <2>3, <3>2, <5>1, CountedStays DEF bus
      <4> QED
        BY <4>1, <4>2
    <3>4. TypeOK' /\ Posted'
      BY <2>1, <2>2, <2>3, <3>2 DEF CountInv, TypeOK, Posted, bus
    <3> QED
      BY <3>3, <3>4 DEF CountInv
  <2>4. CASE pc[t] = "publish"
    <3>1. /\ pc' = [pc EXCEPT ![t] = "methods"] /\ sb_instance' = TRUE
          /\ UNCHANGED <<init_lock, constructed>>
      BY <1>3, <2>4 DEF GetBus, get_system_bus_instance, Goto
    <3>2. pc' \in [Tasks -> Places] /\ Builders' = Builders
      BY <1>1, <2>4, <3>1 DEF Builders, Building, Places
    <3>3. Counted'
      BY <1>1, <3>1, <3>2, BuildersBound DEF CountInv, Counted
    <3>4. TypeOK' /\ Posted'
      BY <2>1, <2>2, <3>1, <3>2 DEF CountInv, TypeOK, Posted
    <3> QED
      BY <3>3, <3>4 DEF CountInv
  <2>5. CASE pc[t] = "methods"
    <3>1. /\ pc' = [pc EXCEPT ![t] = "sem_init"] /\ UNCHANGED <<sb_instance, constructed>>
          /\ init_lock' = [init_lock EXCEPT !.methods = TRUE]
      BY <1>3, <2>5 DEF GetBus, get_system_bus_instance, Goto
    <3>2. pc' \in [Tasks -> Places] /\ Builders' = Builders
      BY <1>1, <2>5, <3>1 DEF Builders, Building, Places
    <3>3. sb_instance
      BY <2>5 DEF CountInv, Counted
    <3>4. Counted'
      BY <3>1, <3>2, <3>3 DEF CountInv, Counted
    <3>5. /\ init_lock' \in [methods : BOOLEAN, count : 0 .. SegmentMajorMax]
          /\ init_lock'.count = init_lock.count
      BY <1>1, <3>1
    <3>6. TypeOK' /\ Posted'
      BY <2>1, <2>2, <3>1, <3>2, <3>5 DEF CountInv, TypeOK, Posted
    <3> QED
      BY <3>4, <3>6 DEF CountInv
  <2>6. CASE pc[t] = "sem_init"
    <3>1. /\ UNCHANGED sb_instance /\ constructed' = constructed + 1
          /\ init_lock' = [init_lock EXCEPT !.count = 0]
          /\ \E place \in {"get", "register"} : pc' = [pc EXCEPT ![t] = place]
      BY <1>3, <2>6 DEF GetBus, get_system_bus_instance, HasBus, Goto
    <3>2. pc' \in [Tasks -> Places] /\ Builders' = Builders \ {t} /\ t \in Builders
      BY <1>1, <2>6, <3>1 DEF Builders, Building, Places
    <3>3. Cardinality(Builders') = Cardinality(Builders) - 1 /\ Cardinality(Builders) \in Nat
      BY <3>2, BuildersBound, FS_RemoveElement
    <3>4. sb_instance /\ constructed + Cardinality(Builders) <= Len(Preload)
      BY <2>6 DEF CountInv, Counted
    <3>5. Counted'
      BY <1>1, <3>1, <3>3, <3>4 DEF Counted
    <3>6. Cardinality(Builders') \in Nat
      BY <3>2, BuildersBound, FS_RemoveElement, FS_CardinalityType
    <3>7. constructed' \in 0 .. Len(Preload)
      BY <1>1, <3>1, <3>3, <3>4, <3>6
    <3>8. /\ init_lock' \in [methods : BOOLEAN, count : 0 .. SegmentMajorMax]
          /\ init_lock'.count = 0
      BY <1>1, <3>1
    <3>9. TypeOK' /\ Posted'
      BY <1>1, <2>1, <2>2, <3>1, <3>2, <3>7, <3>8 DEF CountInv, TypeOK, Posted
    <3> QED
      BY <3>5, <3>9 DEF CountInv
  <2> QED
    BY <1>3, <2>3, <2>4, <2>5, <2>6 DEF GetBus, get_system_bus_instance
<1>4. CASE Register(t)
  <2>1. UNCHANGED <<strict, prepared, task_array, instances, sb_instance, constructed,
                    segments, ipc, posts>>
    BY <1>4 DEF Register, main
  <2>2. node' \subseteq Tasks /\ forgotten' \subseteq Tasks
    <3>1. node \subseteq Tasks /\ forgotten \subseteq Tasks
      BY DEF CountInv, TypeOK
    <3> QED
      BY <1>4, <3>1 DEF Register, bus_register
  <2>3. /\ init_lock' \in [methods : BOOLEAN, count : 0 .. SegmentMajorMax]
        /\ init_lock'.count <= init_lock.count
        /\ early' \subseteq Tasks
        /\ pc' \in [Tasks -> Places]
        /\ \A u \in Tasks : pc'[u] = pc[u] \/ pc'[u] \notin Building
    <3>1. CASE pc[t] = "register" /\ t # Bus
      <4>1. PICK change \in {-1, 0}, place \in Places \ Building :
              /\ Uses(t, change, place)
              /\ init_lock.count + change \in 0 .. SegmentMajorMax
        <5>1. CASE init_lock.count = 0
          <6>1. Uses(t, 0, "asleep") /\ "asleep" \in Places \ Building
            BY <1>4, <3>1, <5>1 DEF Register, bus_register, Places, Building
          <6>2. init_lock.count + 0 \in 0 .. SegmentMajorMax
            BY <1>1
          <6> QED
            BY <6>1, <6>2
        <5>2. CASE init_lock.count # 0
          <6>1. Uses(t, -1, "enter") /\ "enter" \in Places \ Building
            BY <1>4, <3>1, <5>2 DEF Register, bus_register, Places, Building
          <6>2. init_lock.count + (-1) \in 0 .. SegmentMajorMax
            BY <1>1, <5>2
          <6> QED
            BY <6>1, <6>2
        <5> QED
          BY <5>1, <5>2
      <4>2. /\ init_lock' \in [methods : BOOLEAN, count : 0 .. SegmentMajorMax]
            /\ init_lock'.count = init_lock.count \/ init_lock'.count = init_lock.count + change
            /\ early' \subseteq Tasks
            /\ pc' \in [Tasks -> Places]
            /\ \A u \in Tasks : pc'[u] = pc[u] \/ pc'[u] \notin Building
        BY <4>1, CountUse
      <4> QED
        BY <1>1, <4>1, <4>2
    <3>2. CASE pc[t] = "asleep"
      <4>1. init_lock.count # 0
        BY <3>2 DEF Step, Runs, Waits
      <4>2. /\ init_lock' = [init_lock EXCEPT !.count = @ - 1] /\ UNCHANGED early
            /\ pc' = [pc EXCEPT ![t] = "enter"]
        BY <1>4, <3>2 DEF Register, bus_register, Goto
      <4>3. pc' \in [Tasks -> Places] /\ \A u \in Tasks : pc'[u] = pc[u] \/ pc'[u] \notin Building
        BY <1>1, <4>2 DEF Places, Building
      <4>4. early' \subseteq Tasks
        BY <4>2 DEF CountInv, TypeOK
      <4> QED
        BY <1>1, <4>1, <4>2, <4>3, <4>4
    <3>3. CASE ~(pc[t] = "register" /\ t # Bus) /\ pc[t] # "asleep"
      <4>1. UNCHANGED <<init_lock, early>> /\ \E p \in Places \ Building : pc' = [pc EXCEPT ![t] = p]
        BY <1>4, <3>3 DEF Register, bus_register, Goto, Places, Building
      <4> QED
        BY <1>1, <4>1 DEF CountInv, TypeOK
    <3> QED
      BY <3>1, <3>2, <3>3
  <2>4. Counted'
    BY <2>1, <2>3, CountedStays
  <2>5. Posted'
    BY <1>1, <2>1, <2>3 DEF Posted
  <2>6. TypeOK'
    BY <2>1, <2>2, <2>3 DEF CountInv, TypeOK
  <2> QED
    BY <2>4, <2>5, <2>6 DEF CountInv
<1>5. CASE service_launch(t)
  <2>1. UNCHANGED <<strict, prepared, task_array, instances, sb_instance, node, forgotten, constructed,
                    segments>>
    BY <1>5 DEF service_launch, main
  <2>2. CASE ipc_facade_create_instance(t) /\ UNCHANGED <<init_lock, posts, early>>
    <3>1. ipc' \in [instance : BOOLEAN, main_task : Tasks \cup {NULL}]
      BY <2>2 DEF ipc_facade_create_instance, CountInv, TypeOK
    <3>2. pc' \in [Tasks -> Places] /\ \A u \in Tasks : pc'[u] = pc[u] \/ pc'[u] \notin Building
      BY <1>1, <2>2 DEF ipc_facade_create_instance, Goto, Places, Building
    <3>3. Counted'
      BY <2>1, <3>2, CountedStays
    <3>4. TypeOK' /\ Posted'
      BY <2>1, <2>2, <3>1, <3>2 DEF CountInv, TypeOK, Posted
    <3> QED
      BY <3>3, <3>4 DEF CountInv
  <2>3. CASE bus_contex_notify(t) /\ UNCHANGED ipc /\ posts = 0
    <3>1. UNCHANGED <<init_lock, posts, early>> /\ pc' = [pc EXCEPT ![t] = "loop"]
      BY <2>3 DEF bus_contex_notify, Goto
    <3>2. pc' \in [Tasks -> Places] /\ \A u \in Tasks : pc'[u] = pc[u] \/ pc'[u] \notin Building
      BY <1>1, <3>1 DEF Places, Building
    <3>3. Counted'
      BY <2>1, <3>2, CountedStays
    <3>4. TypeOK' /\ Posted'
      BY <2>1, <2>3, <3>1, <3>2 DEF CountInv, TypeOK, Posted
    <3> QED
      BY <3>3, <3>4 DEF CountInv
  <2>4. CASE bus_contex_notify(t) /\ UNCHANGED ipc /\ posts # 0
    <3>1. Uses(t, 1, "notify") /\ posts' = posts - 1 /\ "notify" \in Places \ Building
      BY <2>4 DEF bus_contex_notify, Places, Building
    <3>2. init_lock.methods => init_lock.count + 1 \in 0 .. SegmentMajorMax
      BY <1>1, <2>4
    <3>3. /\ init_lock' \in [methods : BOOLEAN, count : 0 .. SegmentMajorMax]
          /\ init_lock'.count = init_lock.count \/ init_lock'.count = init_lock.count + 1
          /\ early' \subseteq Tasks
          /\ pc' \in [Tasks -> Places]
          /\ \A u \in Tasks : pc'[u] = pc[u] \/ pc'[u] \notin Building
      BY <3>1, <3>2, CountUse
    <3>4. Counted'
      BY <2>1, <3>3, CountedStays
    <3>5. Posted' /\ posts' \in 0 .. SegmentMajorMax
      BY <1>1, <2>4, <3>1, <3>3 DEF Posted
    <3>6. TypeOK'
      BY <2>1, <2>4, <3>3, <3>5 DEF CountInv, TypeOK
    <3> QED
      BY <3>4, <3>5, <3>6 DEF CountInv
  <2> QED
    BY <1>5, <2>2, <2>3, <2>4 DEF service_launch
<1>6. CASE on_launch(t)
  <2>1. pc' \in [Tasks -> Places] /\ \A u \in Tasks : pc'[u] = pc[u] \/ pc'[u] \notin Building
    BY <1>1, <1>6 DEF on_launch, Goto, Places, Building
  <2>2. Counted'
    BY <1>6, <2>1, CountedStays DEF on_launch, bus
  <2>3. TypeOK' /\ Posted'
    BY <1>1, <1>6, <2>1 DEF on_launch, bus, main, CountInv, TypeOK, Posted
  <2> QED
    BY <2>2, <2>3 DEF CountInv
<1> QED
  BY <1>2, <1>3, <1>4, <1>5, <1>6 DEF Step

(* The types, and with them two bounds that no single step shows: however  *)
(* many tasks race for the bus, init_lock is constructed at most once per  *)
(* task, and it never counts more posts than contex_notify makes.          *)
THEOREM StartupTypes == Spec => []TypeOK
<1>1. CountInv /\ [Next]_vars => CountInv'
  <2> SUFFICES ASSUME CountInv, [Next]_vars PROVE CountInv'
    OBVIOUS
  <2>1. CASE UNCHANGED vars
    <3>1. UNCHANGED <<strict, prepared, task_array, pc, instances, sb_instance, init_lock,
                      node, forgotten, constructed, segments, ipc, posts, early>>
      BY <2>1 DEF vars, main, bus
    <3>2. Builders' = Builders
      BY <3>1 DEF Builders
    <3> QED
      BY <3>1, <3>2 DEF CountInv, TypeOK, Counted, Posted
  <2> QED
    BY <2>1, CountPrepare, CountStep DEF Next
<1>2. CountInv => TypeOK
  BY DEF CountInv
<1> QED
  BY <1>1, <1>2, CountInit, PTL DEF Spec

=============================================================================
