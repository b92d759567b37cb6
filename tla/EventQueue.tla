----------------------------- MODULE EventQueue -----------------------------
(***************************************************************************)
(* The delayed events of one segment: the event queue (event_queue.c), the *)
(* helpers that use it (event_helper.c), and the timers behind it          *)
(* (mblue_timer.c, custom_timer.h).                                        *)
(*                                                                         *)
(* Three parties run: the segment's task, which alone changes the queue;   *)
(* the clock of the platform, which raises a signal when a timer expires;  *)
(* and the signal handler __timer_notify, which may run on any thread and  *)
(* posts to the task a message that holds the ADDRESS of the event's       *)
(* element.  Freed elements and timers are used again, so that an address  *)
(* may have come to mean another event when the message is handled.        *)
(***************************************************************************)
EXTENDS Integers, Sequences, FiniteSets, Functions

CONSTANTS
  Types,         \* event types: single bits of event_bm
  Heap,          \* addresses an element may be allocated at
  MaxTimers,     \* MAX_TIMER_NUM
  KernelTimers,  \* timers the kernel lets a process create
  QueueSize,     \* MBLUE_TASK_MAX_MSG_IN_QUEUE
  Chains,        \* the handlers (call_chain) pending events are added with
  MaxAdds,       \* bound: events added
  NULL

Timers == 1 .. MaxTimers   \* the timers of timer_pool

ASSUME SetsAssumption == IsFiniteSet(Heap) /\ IsFiniteSet(Types)
ASSUME LimitsAssumption ==
  /\ MaxTimers \in Nat
  /\ KernelTimers \in Nat
  /\ QueueSize \in Nat \ {0}
  /\ MaxAdds \in Nat
ASSUME ChainsAssumption == Chains \subseteq SUBSET {"WAKEUP", "CANCEL", "FINISH"}
ASSUME NullAssumption == NULL \notin Heap \cup Types \cup Nat

VARIABLES
  mem,      \* the element at every address, or NULL when it is free
  queue,    \* queue_head->queue: addresses, in order
  bm,       \* queue_head->event_bm
  pool,     \* mlist->timer_lists: the timers nobody uses
  obj,      \* timer->_obj: the param of every timer's posix_timer, or NULL
  armed,    \* is the timer's kernel timer running?
  created,  \* kernel timers created, none of which is ever deleted
  signals,  \* for every timer the event whose signal is pending, or NULL
  notify,   \* for every timer the run of the signal handler: [at, e, id]
  msgs,     \* messages to the task: [e, id]
  again,    \* the task: type that reschedule has deleted and will add, or NULL
  down,     \* "no", or why the program has crashed
  adds,     \* number of events added, which also names them
  settled,  \* history: queued events that a timer message woke, or one of
            \* whose time-outs was lost
  foreign,  \* history: was a message not answered by the event it was sent for?
  orphaned  \* history: was an element freed with a notification under way?

queueVars == <<mem, queue, bm>>
timerVars == <<pool, obj, armed, created>>
history == <<settled, foreign, orphaned>>
vars == <<queueVars, timerVars, signals, notify, msgs, again, down, adds, history>>

Ids == 1 .. MaxAdds
Modes == {"PENDING_EVENT", "PERIODICAL"}
Elements == [id : Ids, type : Types, mode : Modes, tick : Timers \cup {NULL},
             chain : SUBSET {"WAKEUP", "CANCEL", "FINISH"}]

ASSUME ElementsAssumption == NULL \notin Elements

Idle == [at |-> "idle", e |-> NULL, id |-> NULL]

Init ==
  /\ mem = [a \in Heap |-> NULL]
  /\ queue = << >>
  /\ bm = {}
  /\ pool = [t \in Timers |-> t]
  /\ obj = [t \in Timers |-> NULL]
  /\ armed = [t \in Timers |-> FALSE]
  /\ created = 0
  /\ signals = [t \in Timers |-> NULL]
  /\ notify = [t \in Timers |-> Idle]
  /\ msgs = << >>
  /\ again = NULL
  /\ down = "no"
  /\ adds = 0
  /\ settled = {}
  /\ foreign = FALSE
  /\ orphaned = FALSE

TaskMayCall == down = "no" /\ again = NULL

(***************************************************************************)
(* event_queue_add.                                                        *)
(***************************************************************************)
(* timer->init and timer->start: a kernel timer is created, armed, and     *)
(* reloads by itself when the mode is not 0.  With no kernel timer left    *)
(* both fail and nobody notices (StartUnheeded: the failure of             *)
(* timer_create is not heeded; StartForgotten: it is never armed).         *)
StartUnheeded(t, a) ==
  /\ obj' = [obj EXCEPT ![t] = a]
  /\ armed' = [armed EXCEPT ![t] = TRUE]
  /\ created' = created + 1

StartForgotten(t, a) ==
  IF created < KernelTimers
    THEN obj' = [obj EXCEPT ![t] = a] /\ created' = created + 1 /\ UNCHANGED armed
    ELSE UNCHANGED <<obj, armed, created>>

StartTimer(t, a) ==
  IF created < KernelTimers THEN StartUnheeded(t, a) ELSE UNCHANGED <<obj, armed, created>>

mblue_timer_get == IF pool = << >> THEN NULL ELSE Head(pool)

(* The element is linked, and then gets a timer if it has a period.  The   *)
(* NULL of an empty pool is called through.                                *)
Link(a, type, mode, timed, chain) ==
  LET tick == IF timed THEN mblue_timer_get ELSE NULL
  IN /\ mem' = [mem EXCEPT ![a] = [id |-> adds + 1, type |-> type, mode |-> mode,
                                   tick |-> tick, chain |-> chain]]
     /\ queue' = Append(queue, a)
     /\ bm' = bm \cup {type}
     /\ adds' = adds + 1
     /\ IF tick # NULL
          THEN StartTimer(tick, a) /\ pool' = Tail(pool) /\ UNCHANGED down
          ELSE /\ down' = IF timed THEN "no timer" ELSE down
               /\ UNCHANGED timerVars

(* A pending type is refused, and so is an element there is no memory for. *)
event_queue_add(type, mode, timed, chain) ==
  /\ adds < MaxAdds
  /\ IF type \in bm \/ \A a \in Heap : mem[a] # NULL
       THEN UNCHANGED <<queueVars, timerVars, down, adds>>
       ELSE \E a \in Heap : mem[a] = NULL /\ Link(a, type, mode, timed, chain)

(***************************************************************************)
(* Removal of an element.                                                  *)
(***************************************************************************)
(* Is a notification of the element at a under way, when the messages of   *)
(* inbox are still to be handled?                                          *)
UnderWay(a, inbox) ==
  \/ mem[a].id \in Range(signals)
  \/ \E t \in Timers : notify[t].at # "idle" /\ (notify[t].e = a \/ notify[t].id = mem[a].id)
  \/ \E i \in 1 .. Len(inbox) : inbox[i].e = a

(* The events ids are settled, unless they have left the queue.            *)
Settle(ids) ==
  settled' = {i \in settled \cup ids : \E a \in Heap : mem'[a] # NULL /\ mem'[a].id = i}

(* timer->stop.  A signal that is pending stays pending; the timer->uninit *)
(* that follows stops once more and finds nothing to do.                   *)
platform_timer_stop(t) ==
  /\ obj' = [obj EXCEPT ![t] = NULL]
  /\ armed' = [armed EXCEPT ![t] = FALSE]

(* TimerKept: the timer is not put back.                                   *)
TimerKept(t) == UNCHANGED pool

mblue_timer_release(t) == pool' = Append(pool, t)

(* The queue without the node of the element at a.                         *)
list_del(a) ==
  LET at == CHOOSE i \in 1 .. Len(queue) : queue[i] = a
  IN [i \in 1 .. Len(queue) - 1 |-> IF i < at THEN queue[i] ELSE queue[i + 1]]

(* __free_event_element, after the caller has cleared the type.            *)
FreeElement(a, inbox) ==
  /\ IF mem[a].tick # NULL
       THEN platform_timer_stop(mem[a].tick) /\ mblue_timer_release(mem[a].tick)
       ELSE UNCHANGED <<obj, armed, pool>>
  /\ queue' = list_del(a)
  /\ mem' = [mem EXCEPT ![a] = NULL]
  /\ orphaned' = (orphaned \/ UnderWay(a, inbox))
  /\ UNCHANGED created

(* event_queue_get_element: the first element of the type.                 *)
ElementOf(type) == queue[CHOOSE i \in 1 .. Len(queue) :
                     /\ mem[queue[i]].type = type
                     /\ \A j \in 1 .. i - 1 : mem[queue[j]].type # type]

(* MaskKept: event_bm keeps the bit of a deleted event.                    *)
MaskKept(type) ==
  /\ FreeElement(ElementOf(type), msgs)
  /\ UNCHANGED bm

event_queue_delete(type) ==
  /\ FreeElement(ElementOf(type), msgs)
  /\ bm' = bm \ {type}

(***************************************************************************)
(* event_queue_wakeup.                                                     *)
(***************************************************************************)
(* What the handlers of an element return: r is the first one's value, s   *)
(* that of the one that value names.  Without a handler, ret keeps its     *)
(* initial value MBLUE_ELEMENT_EXIT.                                       *)
Returns == {"OK", "ELEMENT_EXIT", "WAKEUP", "CANCEL", "FINISH"}

Outcome(chain, r, s) ==
  IF "WAKEUP" \in chain THEN IF r \in chain THEN s ELSE r
  ELSE IF chain # {} THEN r ELSE "ELEMENT_EXIT"

(* Does the event end, for some values its handlers may return?            *)
MayExit(chain) == {Outcome(chain, r, s) = "ELEMENT_EXIT" : r, s \in Returns}

(* The element woken (FirstElement: its type is not looked at).            *)
FirstElement(type) == queue[1]

Target(type) == ElementOf(type)

event_queue_wakeup(type, inbox) ==
  IF type \in bm
    THEN \E exit \in MayExit(mem[Target(type)].chain) :
           IF exit
             THEN FreeElement(Target(type), inbox) /\ bm' = bm \ {mem[Target(type)].type}
             ELSE UNCHANGED <<queueVars, timerVars, orphaned>>
    ELSE UNCHANGED <<queueVars, timerVars, orphaned>>

(***************************************************************************)
(* What the task calls from its handlers.                                  *)
(***************************************************************************)
(* add_pending_event and add_simple_pending_event.                         *)
AddPendingEvent(type, timed, chain) ==
  /\ TaskMayCall
  /\ event_queue_add(type, "PENDING_EVENT", timed, chain)
  /\ UNCHANGED <<signals, notify, msgs, again, history>>

(* schedule_event, schedule_delayed_event_with_type and                    *)
(* schedule_default_event.                                                 *)
ScheduleEvent(type) ==
  /\ TaskMayCall
  /\ event_queue_add(type, "PERIODICAL", TRUE, {"WAKEUP"})
  /\ UNCHANGED <<signals, notify, msgs, again, history>>

(* reschedule_delayed_event_with_type: the old event is deleted...         *)
RescheduleDelete(type) ==
  /\ TaskMayCall
  /\ adds < MaxAdds
  /\ type \in bm
  /\ event_queue_delete(type)
  /\ Settle({})
  /\ again' = type
  /\ UNCHANGED <<signals, notify, msgs, down, adds, foreign>>

(* ...and a new one is added.                                              *)
RescheduleAdd ==
  /\ down = "no"
  /\ again # NULL
  /\ event_queue_add(again, "PERIODICAL", TRUE, {"WAKEUP"})
  /\ again' = NULL
  /\ UNCHANGED <<signals, notify, msgs, history>>

cancel_delayed_event(type) ==
  /\ TaskMayCall
  /\ type \in bm
  /\ event_queue_delete(type)
  /\ Settle({})
  /\ UNCHANGED <<signals, notify, msgs, again, down, adds, foreign>>

(* __pending_event_notify: the answer the event was waiting for has come.  *)
PendingEventNotify(type) ==
  /\ TaskMayCall
  /\ type \in bm
  /\ event_queue_wakeup(type, msgs)
  /\ Settle({})
  /\ UNCHANGED <<signals, notify, msgs, again, down, adds, foreign>>

(* timer_wakeup: the type is read from the element the message points to,  *)
(* and the event of that type is woken.  Freed memory holds anything.      *)
TimerWakeup ==
  /\ TaskMayCall
  /\ msgs # << >>
  /\ LET e == Head(msgs).e
     IN \E type \in (IF mem[e] = NULL THEN Types \cup {NULL} ELSE {mem[e].type}) :
          /\ event_queue_wakeup(type, Tail(msgs))
          /\ LET id == IF type \in bm THEN mem[Target(type)].id ELSE NULL
             IN /\ Settle({id} \ {NULL})
                /\ foreign' = (foreign \/ id # Head(msgs).id)
  /\ msgs' = Tail(msgs)
  /\ UNCHANGED <<signals, notify, again, down, adds>>

(***************************************************************************)
(* The clock and the signal handler.                                       *)
(***************************************************************************)
(* A timer expires.  At most one signal of it is pending; a one-shot timer *)
(* is disarmed, another one reloads (OneShot: it does not).                *)
OneShot(t) == armed' = [armed EXCEPT ![t] = FALSE]

Reload(t) == armed' = [armed EXCEPT ![t] = mem[obj[t]].mode = "PERIODICAL"]

Expire(t) ==
  /\ down = "no"
  /\ armed[t]
  /\ signals[t] = NULL
  /\ signals' = [signals EXCEPT ![t] = mem[obj[t]].id]
  /\ Reload(t)
  /\ UNCHANGED <<queueVars, pool, obj, created, notify, msgs, again, down, adds, history>>

(* __timer_notify tests timer->_obj.  Signals of different timers may be   *)
(* handled on different threads at once.                                   *)
NotifyTest(t) ==
  /\ down = "no"
  /\ notify[t] = Idle
  /\ signals[t] # NULL
  /\ signals' = [signals EXCEPT ![t] = NULL]
  /\ notify' = [notify EXCEPT ![t] = IF obj[t] = NULL THEN Idle
                                     ELSE [at |-> "load", e |-> obj[t], id |-> signals[t]]]
  /\ UNCHANGED <<queueVars, timerVars, msgs, again, down, adds, history>>

(* It loads the pointer again, or keeps the value it has tested, as the    *)
(* compiler likes.  By now the posix_timer may be gone.                    *)
NotifyLoad(t) ==
  /\ down = "no"
  /\ notify[t].at = "load"
  /\ \E e \in {notify[t].e, obj[t]} :
       IF e = NULL
         THEN down' = "stale" /\ UNCHANGED notify
         ELSE /\ notify' = [notify EXCEPT ![t].at = "post", ![t].e = e]
              /\ UNCHANGED down
  /\ UNCHANGED <<queueVars, timerVars, signals, msgs, again, adds, history>>

(* default_timer_event reads the element, which may have been freed: then  *)
(* the read fails or finds what is left of it.                             *)
ReadStale(t) ==
  /\ mem[notify[t].e] = NULL
  /\ down' = "stale"
  /\ UNCHANGED <<notify, msgs, settled>>

TimeoutSent(t) ==
  /\ Len(msgs) < QueueSize
  /\ msgs' = Append(msgs, [e |-> notify[t].e, id |-> notify[t].id])
  /\ notify' = [notify EXCEPT ![t] = Idle]
  /\ UNCHANGED <<down, settled>>

(* send_message gets no message from the pool, which all tasks share and   *)
(* may have emptied, or the queue of the task is full.  The result of      *)
(* neither is heeded, and the time-out is gone.                            *)
TimeoutLost(t) ==
  /\ notify' = [notify EXCEPT ![t] = Idle]
  /\ Settle({notify[t].id})
  /\ UNCHANGED <<down, msgs>>

default_timer_event(t) ==
  /\ down = "no"
  /\ notify[t].at = "post"
  /\ UNCHANGED <<queueVars, timerVars, signals, again, adds, foreign, orphaned>>
  /\ ReadStale(t) \/ TimeoutSent(t) \/ TimeoutLost(t)

Next ==
  \/ \E type \in Types :
       \/ \E timed \in BOOLEAN, chain \in Chains : AddPendingEvent(type, timed, chain)
       \/ ScheduleEvent(type)
       \/ RescheduleDelete(type)
       \/ cancel_delayed_event(type)
       \/ PendingEventNotify(type)
  \/ RescheduleAdd
  \/ TimerWakeup
  \/ \E t \in Timers :
       \/ Expire(t)
       \/ NotifyTest(t)
       \/ NotifyLoad(t)
       \/ default_timer_event(t)

(* Time passes, a raised signal is delivered and its handler runs on, and  *)
(* the task handles its messages.                                          *)
Fairness ==
  /\ \A t \in Timers :
       /\ WF_vars(Expire(t))
       /\ WF_vars(NotifyTest(t) \/ NotifyLoad(t) \/ default_timer_event(t))
  /\ WF_vars(TimerWakeup)
  /\ WF_vars(RescheduleAdd)

Spec == Init /\ [][Next]_vars /\ Fairness

(***************************************************************************)
(* Properties.                                                             *)
(***************************************************************************)
(* Types of the event queue, the timers and the messages under way.        *)
TypeOK ==
  /\ mem \in [Heap -> Elements \cup {NULL}]
  /\ queue \in Seq(Heap)
  /\ bm \subseteq Types
  /\ pool \in Seq(Timers)
  /\ obj \in [Timers -> Heap \cup {NULL}]
  /\ armed \in [Timers -> BOOLEAN]
  /\ created \in 0 .. KernelTimers
  /\ signals \in [Timers -> Ids \cup {NULL}]
  /\ notify \in [Timers -> [at : {"idle", "load", "post"},
                            e : Heap \cup {NULL}, id : Ids \cup {NULL}]]
  /\ msgs \in Seq([e : Heap, id : Ids])
  /\ again \in Types \cup {NULL}
  /\ down \in {"no", "stale", "no timer"}
  /\ adds \in 0 .. MaxAdds
  /\ settled \subseteq Ids
  /\ foreign \in BOOLEAN
  /\ orphaned \in BOOLEAN

Live == {a \in Heap : mem[a] # NULL}

(* The mask names exactly the types of the queued elements, no type is     *)
(* queued twice, and no allocated element has dropped out of the queue:    *)
(* event_queue_add refuses a type by the mask alone, and event_queue_wakeup *)
(* and the helpers trust it before they walk the list.                     *)
MaskMatchesList ==
  /\ IsInjective(queue)
  /\ Range(queue) = Live
  /\ bm = {mem[a].type : a \in Live}
  /\ \A a, b \in Live : mem[a].type = mem[b].type => a = b

(* Every timer is in the pool, unused, or belongs to exactly one queued    *)
(* element, to which alone its callback points.                            *)
TimerAccounting ==
  /\ IsInjective(pool)
  /\ \A t \in Timers :
       LET owners == {a \in Live : mem[a].tick = t}
       IN IF t \in Range(pool)
            THEN owners = {} /\ obj[t] = NULL /\ ~armed[t]
            ELSE /\ Cardinality(owners) = 1
                 /\ obj[t] \in owners \cup {NULL}
                 /\ armed[t] => obj[t] # NULL

(* A timer message wakes the event whose timer expired, and the program    *)
(* does not follow a dangling pointer, as long as no element was freed     *)
(* while a signal, a run of the handler or a message for it was under way: *)
(* the pointer that default_timer_event sends is safe exactly then.        *)
TimeoutsReachTheirEvent == ~orphaned => ~foreign /\ down # "stale"

Present(i) == \E a \in Live : mem[a].id = i
Timed(i) == \E a \in Live : mem[a].id = i /\ mem[a].tick # NULL /\ obj[mem[a].tick] = a
Periodic(i) == Timed(i) /\ \E a \in Live : mem[a].id = i /\ mem[a].mode = "PERIODICAL"

(* An event whose timer was set up is woken by a timer message, unless it  *)
(* is removed before, its time-out is lost for want of a message or of     *)
(* room in the queue, or the program crashes.                              *)
TimedEventsFire ==
  \A i \in Ids : Timed(i) ~> (i \in settled \/ ~Present(i) \/ down # "no")

(* The event i is woken by a message sent for it; a time-out of i is lost. *)
Fires(i) ==
  /\ TimerWakeup
  /\ Head(msgs).id = i
  /\ mem[Head(msgs).e] # NULL /\ mem[Head(msgs).e].id = i

Drops(i) ==
  \E t \in Timers : default_timer_event(t) /\ TimeoutLost(t) /\ notify[t].id = i

(* A periodic event that stays in the queue is woken again and again, as   *)
(* the sample scenario expects of its delayed work, or time-outs of it are *)
(* lost again and again: its timer never falls silent.                     *)
PeriodicEventsRepeat ==
  \A i \in Ids :
    <>[](down = "no" /\ Periodic(i))
      => []<><<Fires(i) \/ Drops(i)>>_vars
=============================================================================
