------------------------------ MODULE Startup -------------------------------
(***************************************************************************)
(* From main() to the message loops.  main() creates the preloaded tasks;  *)
(* each binds its segment: it asks for the bus, which the first to ask     *)
(* initialises, registers and launches.  All but the bus task wait in the  *)
(* registration for init_lock, which the bus posts once the ipc facade     *)
(* exists.                                                                 *)
(*                                                                         *)
(* The tasks are scheduled as the port does it.  Threads of the Linux port *)
(* run as soon as they are created and interleave.  On a strict port (an   *)
(* RTOS) tasks run only after task_run(), one when all of higher priority  *)
(* wait.                                                                   *)
(***************************************************************************)
EXTENDS Integers, Sequences

CONSTANTS
  Bus,               \* the task that holds the segment MBLUE_BUS
  Preload,           \* mblue_preload_tasks, a sequence of tasks
  Priority,          \* the priority of every task
  SegmentMajorMax,   \* SEGMENT_MAJOR_MAX
  NULL

Tasks == {Preload[i] : i \in DOMAIN Preload}

ASSUME StartupAssumption ==
  /\ Preload \in Seq(Tasks)
  /\ \A i, j \in DOMAIN Preload : Preload[i] = Preload[j] => i = j
  /\ Bus \in Tasks
  /\ Priority \in [Tasks -> Nat]
  /\ \A t, u \in Tasks : Priority[t] = Priority[u] => t = u
  /\ SegmentMajorMax \in Nat
  /\ SegmentMajorMax >= Len(Preload)
  /\ NULL \notin Tasks

VARIABLES
  strict,       \* the port: does it schedule by strict priority?
  prepared,     \* tasks main() has gone through
  task_array,   \* tm->task
  pc,           \* where every task is
  instances,    \* tasks whose segment is initialised
  sb_instance,  \* has the bus been published?
  init_lock,    \* bus->init_lock: has it its methods, and its count
  segments,     \* the segment of a task, in task->segments with its context set
  node,         \* segments in bus->_segment_node
  ipc,          \* the facade: is it published, and its main_task
  posts,        \* posts of contex_notify still to come
  forgotten,    \* tasks asleep in init_lock when sem_init reset it
  early,        \* history: tasks that used init_lock before its construction
  constructed   \* history: constructions of init_lock

bus == <<sb_instance, init_lock, node, forgotten, constructed>>
main == <<prepared, task_array>>
vars == <<strict, main, pc, instances, bus, segments, ipc, posts, early>>

Places == {"none", "failed", "create", "get", "publish", "methods", "sem_init",
           "register", "asleep", "enter", "facade", "main_task", "notify", "launch", "loop",
           "crashed"}

Init ==
  /\ strict \in BOOLEAN
  /\ prepared = 0
  /\ task_array = << >>
  /\ pc = [t \in Tasks |-> "none"]
  /\ instances = {}
  /\ sb_instance = FALSE
  /\ init_lock = [methods |-> FALSE, count |-> 0]
  /\ segments = {}
  /\ node = {}
  /\ ipc = [instance |-> FALSE, main_task |-> NULL]
  /\ posts = SegmentMajorMax
  /\ forgotten = {}
  /\ early = {}
  /\ constructed = 0

-----------------------------------------------------------------------------
(* task_prepare: task_start builds the message queue and the semaphores of *)
(* the next task and hands it to the task manager, or gives up for want of *)
(* memory; the return value is not looked at.  Nor is that of the          *)
(* platform: a task whose thread could not be made stays in the array.     *)
task_create(t) ==
  /\ task_array' = Append(task_array, t)
  /\ \E place \in {"create", "failed"} : pc' = [pc EXCEPT ![t] = place]

OutOfMemory(t) ==
  /\ pc' = [pc EXCEPT ![t] = "failed"]
  /\ UNCHANGED task_array

task_prepare ==
  /\ prepared < Len(Preload)
  /\ prepared' = prepared + 1
  /\ task_create(Preload[prepared + 1]) \/ OutOfMemory(Preload[prepared + 1])
  /\ UNCHANGED <<strict, instances, bus, segments, ipc, posts, early>>

(* A task that calls a method which is not set goes through NULL, and the  *)
(* program ends.                                                           *)
Crashed == \E t \in Tasks : pc[t] = "crashed"

(* Mutant: a pend that times out at once instead of waiting.               *)
NeverPends(t) == pc[t] \in {"none", "failed", "loop"}

(* A pend waits for a post.                                                *)
Waits(t) ==
  \/ pc[t] \in {"none", "failed", "loop"}
  \/ pc[t] = "asleep" /\ init_lock.count = 0

(* The scheduler of the port.                                              *)
Runs(t) ==
  /\ ~Crashed /\ ~Waits(t)
  /\ strict => /\ prepared = Len(Preload)
               /\ \A u \in Tasks : Priority[u] > Priority[t] => Waits(u)

Goto(t, place) == pc' = [pc EXCEPT ![t] = place]

(* on_create asks for the instance of the segment, initialised at once     *)
(* but for the bus service, which first asks for the bus, and binds it.    *)
on_create(t) ==
  /\ pc[t] = "create"
  /\ instances' = IF t = Bus THEN instances ELSE instances \cup {t}
  /\ Goto(t, "get")
  /\ UNCHANGED <<strict, main, bus, segments, ipc, posts, early>>

(* Back from get_system_bus_instance: the bus service is initialised and   *)
(* bound next; segment_bind sets the context and adds the segment to the   *)
(* list of its task.                                                       *)
HasBus(t) ==
  IF t \in instances
    THEN /\ segments' = segments \cup {t}
         /\ Goto(t, "register")
         /\ UNCHANGED instances
    ELSE /\ instances' = instances \cup {t}
         /\ Goto(t, "get")
         /\ UNCHANGED segments

(* get_system_bus_instance: the test, the publication, and bus_init, which *)
(* constructs init_lock: first its methods, then its count.  sem_init      *)
(* resets the register of those who sleep in it with the count.            *)
(* Mutant: every request initialises the bus.                              *)
AlwaysInit == TRUE

MustInit == ~sb_instance

get_system_bus_instance(t) ==
  \/ /\ pc[t] = "get"
     /\ IF MustInit THEN Goto(t, "publish") /\ UNCHANGED <<instances, segments>>
                    ELSE HasBus(t)
     /\ UNCHANGED bus
  \/ /\ pc[t] = "publish"
     /\ sb_instance' = TRUE
     /\ Goto(t, "methods")
     /\ UNCHANGED <<init_lock, node, forgotten, constructed, instances, segments>>
  \/ /\ pc[t] = "methods"
     /\ init_lock' = [init_lock EXCEPT !.methods = TRUE]
     /\ Goto(t, "sem_init")
     /\ UNCHANGED <<sb_instance, node, forgotten, constructed, instances, segments>>
  \/ /\ pc[t] = "sem_init"
     /\ init_lock' = [init_lock EXCEPT !.count = 0]
     /\ forgotten' = {u \in Tasks : pc[u] = "asleep"}
     /\ constructed' = constructed + 1
     /\ HasBus(t)
     /\ UNCHANGED <<sb_instance, node>>

GetBus(t) ==
  /\ get_system_bus_instance(t)
  /\ UNCHANGED <<strict, main, ipc, posts, early>>

(* A call of a method of init_lock, pend or post, and where t goes then.   *)
Uses(t, change, place) ==
  /\ early' = IF constructed = 0 THEN early \cup {t} ELSE early
  /\ IF init_lock.methods
       THEN /\ init_lock' = [init_lock EXCEPT !.count = @ + change]
            /\ Goto(t, place)
       ELSE Goto(t, "crashed") /\ UNCHANGED init_lock

(* bus_register: everyone but the bus pends, then the segment is entered.  *)
(* A pend takes a count or falls asleep until there is one.  The static    *)
(* semaphore is all zeros before its construction, and a pend sleeps in it *)
(* as in a constructed one; but a sleeper that sem_init has forgotten is   *)
(* woken by later posts at most by chance.                                 *)
bus_register(t) ==
  \/ /\ pc[t] = "register"
     /\ IF t = Bus THEN Goto(t, "enter") /\ UNCHANGED <<init_lock, early>>
        ELSE IF init_lock.count = 0 THEN Uses(t, 0, "asleep")
        ELSE Uses(t, -1, "enter")
     /\ UNCHANGED <<node, forgotten>>
  \/ /\ pc[t] = "asleep"
     /\ init_lock' = [init_lock EXCEPT !.count = @ - 1]
     /\ forgotten' = forgotten \ {t}
     /\ Goto(t, "enter")
     /\ UNCHANGED <<node, early>>
  \/ /\ pc[t] = "enter"
     /\ node' = node \cup {t}
     /\ Goto(t, IF t = Bus THEN "facade" ELSE "launch")
     /\ UNCHANGED <<init_lock, forgotten, early>>

Register(t) ==
  /\ bus_register(t)
  /\ UNCHANGED <<strict, main, instances, sb_instance, constructed, segments, ipc, posts>>

(* ipc_facade_create_instance: the facade is published, then its main_task *)
(* is set.                                                                 *)
ipc_facade_create_instance(t) ==
  \/ /\ pc[t] = "facade"
     /\ ipc' = [ipc EXCEPT !.instance = TRUE]
     /\ Goto(t, "main_task")
  \/ /\ pc[t] = "main_task"
     /\ ipc' = [ipc EXCEPT !.main_task = t]
     /\ Goto(t, "notify")

(* contex_notify: a post for every major.                                  *)
(* Mutant: a single post.                                                  *)
PostsOnce(t) ==
  /\ pc[t] = "notify"
  /\ init_lock.methods
  /\ init_lock' = [init_lock EXCEPT !.count = @ + 1]
  /\ Goto(t, "loop")
  /\ UNCHANGED <<posts, early>>

bus_contex_notify(t) ==
  /\ pc[t] = "notify"
  /\ IF posts = 0
       THEN Goto(t, "loop") /\ UNCHANGED <<init_lock, posts, early>>
       ELSE Uses(t, 1, "notify") /\ posts' = posts - 1

(* Mutant: the bus tells the others before it creates the facade.          *)
NotifiesFirst(t) ==
  /\ \/ /\ pc[t] = "facade"
        /\ init_lock.methods
        /\ init_lock' = [init_lock EXCEPT !.count = SegmentMajorMax]
        /\ Goto(t, "main_task")
        /\ UNCHANGED <<ipc, posts, early>>
     \/ /\ pc[t] = "main_task"
        /\ ipc' = [instance |-> TRUE, main_task |-> t]
        /\ Goto(t, "loop")
        /\ UNCHANGED <<init_lock, posts, early>>
  /\ UNCHANGED <<strict, main, instances, sb_instance, node, forgotten, constructed, segments>>

service_launch(t) ==
  /\ \/ ipc_facade_create_instance(t) /\ UNCHANGED <<init_lock, posts, early>>
     \/ bus_contex_notify(t) /\ UNCHANGED ipc
  /\ UNCHANGED <<strict, main, instances, sb_instance, node, forgotten, constructed, segments>>

(* The on_launch of every other segment, then the message loop.            *)
on_launch(t) ==
  /\ pc[t] = "launch"
  /\ Goto(t, "loop")
  /\ UNCHANGED <<strict, main, instances, bus, segments, ipc, posts, early>>

Step(t) ==
  /\ Runs(t)
  /\ \/ on_create(t)
     \/ GetBus(t)
     \/ Register(t)
     \/ service_launch(t)
     \/ on_launch(t)

Prepare == ~Crashed /\ task_prepare
Next == Prepare \/ \E t \in Tasks : Step(t)

(* Every port goes on with the task it has chosen, and with main(), but    *)
(* nobody has to wake a task that sem_init has forgotten.                  *)
Fairness ==
  /\ WF_vars(Prepare)
  /\ \A t \in Tasks : WF_vars(t \notin forgotten /\ Step(t))
Spec == Init /\ [][Next]_vars /\ Fairness

-----------------------------------------------------------------------------
(* Types.  init_lock never counts more posts than contex_notify makes.     *)
TypeOK ==
  /\ strict \in BOOLEAN
  /\ prepared \in 0 .. Len(Preload)
  /\ task_array \in Seq(Tasks)
  /\ pc \in [Tasks -> Places]
  /\ instances \subseteq Tasks
  /\ sb_instance \in BOOLEAN
  /\ init_lock \in [methods : BOOLEAN, count : 0 .. SegmentMajorMax]
  /\ segments \subseteq Tasks
  /\ node \subseteq Tasks
  /\ ipc \in [instance : BOOLEAN, main_task : Tasks \cup {NULL}]
  /\ posts \in 0 .. SegmentMajorMax
  /\ forgotten \subseteq Tasks
  /\ early \subseteq Tasks
  /\ constructed \in 0 .. Len(Preload)

(* On every port a segment other than the bus is launched only when what   *)
(* it may use at once is in place: the facade knows its task, that task    *)
(* has the segment of the bus in its list (ipc_invoke looks for it there), *)
(* and the bus and the segment itself are in the table of the bus.         *)
LaunchedIntoRunningBus ==
  \A t \in Tasks \ {Bus} : pc[t] \in {"launch", "loop"} =>
    /\ ipc.instance /\ ipc.main_task = Bus
    /\ Bus \in segments
    /\ {Bus, t} \subseteq node

(* init_lock has been used before its construction, be it by a pend that   *)
(* sleeps, or constructed again.                                           *)
Raced == early # {} \/ constructed > 1

(* Under strict priority the bus is initialised once, and before anybody   *)
(* uses its lock, although get_system_bus_instance publishes it first and  *)
(* takes no lock itself.                                                   *)
StrictPortDoesNotRace == strict => ~Raced

(* Every task that was created reaches its message loop, also when others  *)
(* could not be created: the posts of the bus are enough and none is lost. *)
(* The exceptions: the task of the bus was not created, or (on the Linux   *)
(* port only) init_lock was used too early, be it by a pend that slept     *)
(* when sem_init reset it, or constructed twice.                           *)
EverySegmentLaunches ==
  <>( \/ prepared = Len(Preload) /\ \A t \in Tasks : pc[t] \in {"loop", "failed"}
      \/ pc[Bus] = "failed"
      \/ Raced )

=============================================================================
