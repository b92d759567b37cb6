------------------------------ MODULE SystemBus ------------------------------
(***************************************************************************)
(* Tasks that talk over the system bus: the message pool                   *)
(* (mblue_message.c), send_message and ipc_invoke (ipc/), the bus task     *)
(* (system_bus.c, system_bus_service.c), and the default handlers of the   *)
(* segments the other tasks host (mblue_segment.c).                        *)
(*                                                                         *)
(* Critical sections exclude here, so that a pool operation and a queue    *)
(* operation are single steps (MessageQueue shows what the latter rests    *)
(* on).  A step of the model reaches from one access to shared state to    *)
(* the next.  Every task but the bus hosts one segment, and the task's     *)
(* name is also the segment's major.                                       *)
(***************************************************************************)
EXTENDS Integers, Sequences, FiniteSets, Functions

CONSTANTS
  Workers,        \* tasks that host a segment, which are also the majors
  Bus,            \* the task that hosts the system bus service
  LogService,     \* the worker LOGGER calls
  Registered,     \* workers whose segment is in the bus's table
  PoolSize,       \* MBLUE_MAX_MESSAGE_NUM
  QueueSize,      \* MBLUE_TASK_MAX_MSG_IN_QUEUE
  SeqLimit,       \* sequence numbers are 0 .. SeqLimit - 1 (0x8000)
  Ops,            \* requests each worker may make: sets of [type, major, minor, dst]
  Budget,         \* bound: requests each worker makes, log lines the bus writes
  Windows,        \* the unprotected points at which another task may run
  PendingIsSeen,  \* does the handler recognise MBLUE_REMOTE_CALL_PENDING?
  NULL, GARBAGE, PENDING

Tasks == Workers \cup {Bus}
Messages == 1 .. PoolSize
Calls == {"SYNC_CALL", "ASYNC_CALL"}
Types == Calls \cup {"SUBSCRIBE", "SIGNAL", "CALL_RETURN"}
Methods == {"reply", "defer", "unknown"}

(* A request is named by its task and its rank; its name also stands for   *)
(* its payload, for the cell its result is stored in and for its notifier. *)
Requests == UNION {{t} \X (1 .. Budget[t]) : t \in Tasks}

ASSUME TasksAssumption ==
  /\ IsFiniteSet(Workers)
  /\ Bus \notin Workers
  /\ LogService \in Workers
  /\ Registered \subseteq Workers
ASSUME SizesAssumption ==
  /\ PoolSize \in Nat \ {0}
  /\ QueueSize \in Nat \ {0}
  /\ SeqLimit \in Nat \ {0}
  /\ Budget \in [Tasks -> Nat]
(* Only signals name their destination (local_signal), and nobody          *)
(* subscribes to itself (the assertion of bus_subscribe).                  *)
ASSUME OpsAssumption ==
  \A w \in Workers : \A o \in Ops[w] :
    /\ o \in [type : Types \ {"CALL_RETURN"}, major : Workers,
              minor : Methods, dst : Workers \cup {NULL}]
    /\ o.dst # NULL => o.type = "SIGNAL"
    /\ o.type = "SUBSCRIBE" => o.major # w
ASSUME NullAssumption == NULL \notin Requests
ASSUME SwitchesAssumption == Windows \subseteq {"seq_ret", "test"} /\ PendingIsSeen \in BOOLEAN

VARIABLES
  msg,        \* the pool: every message's fields
  free,       \* mlist->msg_list: released messages, oldest first
  sequence,   \* the counter of mblue_message_get_sequence
  queue,      \* message queue of every task
  callSem,    \* value of every task's call_sem
  publish,    \* subscribers of every major, in order
  calls,      \* pending calls of every major, in order
  pc,         \* control point of every task
  ret,        \* where send_message returns to
  arg,        \* arguments of the send_message in progress
  mine,       \* the message ipc_invoke works on
  cur,        \* the message being handled
  todo,       \* the bus: subscribers bus_signal has still to serve
  waitOn,     \* task whose call_sem a task pends on
  op,         \* the request a worker is making, or NULL
  out,        \* local out of mblue_remote_call
  deferred,   \* calls a segment answers later: [m, load]
  issued,     \* number of requests made
  heap,       \* payloads that are allocated
  executed,   \* history: executions of every request
  result,     \* history: what every request completed with
  delivered,  \* history: signals every worker handled, in order
  lost,       \* history: messages a full queue or bus_call dropped
  faults      \* history: memory errors committed

poolVars == <<msg, free>>
busVars == <<publish, calls, todo>>
taskVars == <<ret, arg, mine, cur, waitOn, op, deferred>>
history == <<executed, result, delivered, faults>>
vars == <<msg, free, sequence, queue, callSem, publish, calls, pc, ret, arg,
          mine, cur, todo, waitOn, op, out, deferred, issued, heap, executed,
          result, delivered, lost, faults>>

(* A task that is not preempted between the critical section and the       *)
(* return of mblue_message_get_sequence ("seq_ret"), or between the        *)
(* hand-off and the test of ipc_invoke ("test"), is alone while it is      *)
(* there.  Windows names the points where preemption does happen.          *)
MayRun(t) == \A u \in Tasks \ {t} : pc[u] \in {"seq_ret", "test"} => pc[u] \in Windows

(* Task t can take its step at this point.                                 *)
At(t, label) == pc[t] = label /\ MayRun(t)

Goto(t, label) == pc' = [pc EXCEPT ![t] = label]
Set(f, t, v) == [f EXCEPT ![t] = v]

(***************************************************************************)
(* The message pool.                                                       *)
(***************************************************************************)
(* get_mblue_message (GetRefForgotten: the reference is not counted).      *)
GetRefForgotten(m) == msg[m].ref

GetRef(m) == msg[m].ref + 1

(* put_mblue_message: the count stops at zero (PutRefBelowZero: it does    *)
(* not).                                                                   *)
PutRefBelowZero(m) == msg[m].ref - 1

PutRef(m) == IF msg[m].ref > 0 THEN msg[m].ref - 1 ELSE 0

(* ReleaseCounted: a message sent without a reference is never put back.   *)
ReleaseCounted(m) ==
  /\ msg' = [msg EXCEPT ![m].ref = PutRef(m)]
  /\ free' = IF msg[m].ref = 1 THEN Append(free, m) ELSE free

mblue_message_release(m) ==
  /\ msg' = [msg EXCEPT ![m].ref = PutRef(m)]
  /\ free' = IF PutRef(m) = 0 THEN Append(free, m) ELSE free

(* template_msg_post: a full queue loses the message, and nobody is told.  *)
(* PostInFront: a stack; Fits tells whether there is room, FitsOneLess     *)
(* gives the last slot away.                                               *)
FitsOneLess(t) == Len(queue[t]) + 1 < QueueSize

Fits(t) == Len(queue[t]) < QueueSize

PostInFront(t, m) ==
  IF Fits(t)
    THEN queue' = [queue EXCEPT ![t] = <<m>> \o @] /\ UNCHANGED lost
    ELSE lost' = lost \cup {m} /\ UNCHANGED queue

template_msg_post(t, m) ==
  IF Fits(t)
    THEN queue' = [queue EXCEPT ![t] = Append(@, m)] /\ UNCHANGED lost
    ELSE lost' = lost \cup {m} /\ UNCHANGED queue

(***************************************************************************)
(* send_message: sequence number, message, hand-off and, for a             *)
(* synchronous call, the wait.                                             *)
(***************************************************************************)
Send(t, request, label) ==
  /\ arg' = Set(arg, t, request)
  /\ ret' = Set(ret, t, label)

(* A worker's own code makes a request from one of its handlers.  A call   *)
(* or a signal carries a payload of its own.                               *)
MakeRequest(w, o) ==
  LET id == <<w, issued[w] + 1>>
      load == IF o.type = "SUBSCRIBE" THEN NULL ELSE id
  IN /\ At(w, "idle")
     /\ issued[w] < Budget[w]
     /\ issued' = [issued EXCEPT ![w] = @ + 1]
     /\ Send(w, [type |-> o.type, major |-> o.major, minor |-> o.minor,
                 dst |-> o.dst, seq |-> 0, load |-> load,
                 extra |-> CASE o.type \in Calls -> id
                             [] o.type = "SUBSCRIBE" -> w
                             [] OTHER -> NULL], "op_end")
     /\ op' = Set(op, w, id)
     /\ out' = Set(out, w, GARBAGE)
     /\ heap' = IF load = NULL THEN heap ELSE heap \cup {load}
     /\ Goto(w, "seq_inc")
     /\ UNCHANGED <<poolVars, sequence, queue, callSem, busVars, mine, cur, waitOn,
                    deferred, history, lost>>

(* A number that starts again one too early, when the one before it may    *)
(* still be pending.                                                       *)
SequenceIncrementEarly(t) ==
  /\ At(t, "seq_inc")
  /\ sequence' = IF sequence + 2 >= SeqLimit THEN 0 ELSE sequence + 1
  /\ Goto(t, "seq_ret")
  /\ UNCHANGED <<poolVars, queue, callSem, busVars, taskVars, out, issued, heap,
                 history, lost>>

(* mblue_message_get_sequence: the increment under the critical section... *)
SequenceIncrement(t) ==
  /\ At(t, "seq_inc")
  /\ sequence' = IF sequence + 1 = SeqLimit THEN 0 ELSE sequence + 1
  /\ Goto(t, "seq_ret")
  /\ UNCHANGED <<poolVars, queue, callSem, busVars, taskVars, out, issued, heap,
                 history, lost>>

(* ...and the return value, loaded after it.                               *)
SequenceReturn(t) ==
  /\ At(t, "seq_ret")
  /\ arg' = [arg EXCEPT ![t].seq = sequence]
  /\ Goto(t, "alloc")
  /\ UNCHANGED <<poolVars, sequence, queue, callSem, busVars, ret, mine, cur, waitOn,
                 op, out, deferred, issued, heap, history, lost>>

(* init_message.                                                           *)
InitMessage(t) ==
  /\ At(t, "alloc")
  /\ free # << >>
  /\ LET m == Head(free)
         a == arg[t]
     IN /\ msg' = [msg EXCEPT ![m] =
             [seq |-> a.seq, ref |-> IF a.type \in Calls THEN 1 ELSE 0,
              type |-> a.type, major |-> a.major, minor |-> a.minor,
              src |-> t, dst |-> a.dst, load |-> a.load, extra |-> a.extra]]
        /\ mine' = Set(mine, t, m)
  /\ free' = Tail(free)
  /\ Goto(t, "invoke")
  /\ UNCHANGED <<sequence, queue, callSem, busVars, ret, arg, cur, waitOn, op, out,
                 deferred, issued, heap, history, lost>>

(* The pool is empty: MBLUE_ERR_NOMEM, which every caller ignores.         *)
NoMessage(t) ==
  /\ At(t, "alloc")
  /\ free = << >>
  /\ Goto(t, ret[t])
  /\ UNCHANGED <<poolVars, sequence, queue, callSem, busVars, taskVars, out, issued,
                 heap, history, lost>>

(* ipc_invoke up to the hand-off.  A message without destination goes to   *)
(* the bus.                                                                *)
InvokePost(t) ==
  LET m == mine[t]
      dst == IF msg[m].dst = NULL THEN Bus ELSE msg[m].dst
  IN /\ At(t, "invoke")
     /\ msg' = [msg EXCEPT ![m].dst = dst]
     /\ template_msg_post(dst, m)
     /\ Goto(t, "test")
     /\ UNCHANGED <<free, sequence, callSem, busVars, taskVars, out, issued, heap,
                    history>>

(* ipc_invoke reads the type and the source out of the message it no       *)
(* longer owns, and waits if they say so.                                  *)
(* InvokeTestNoWait: nobody waits.                                         *)
InvokeTestNoWait(t) ==
  /\ At(t, "test")
  /\ Goto(t, ret[t])
  /\ UNCHANGED <<poolVars, sequence, queue, callSem, busVars, taskVars, out, issued,
                 heap, history, lost>>

InvokeTest(t) ==
  /\ At(t, "test")
  /\ IF msg[mine[t]].type = "SYNC_CALL"
       THEN waitOn' = Set(waitOn, t, msg[mine[t]].src) /\ Goto(t, "pend")
       ELSE Goto(t, ret[t]) /\ UNCHANGED waitOn
  /\ UNCHANGED <<poolVars, sequence, queue, callSem, busVars, ret, arg, mine, cur, op,
                 out, deferred, issued, heap, history, lost>>

(* template_pend (InvokePendKeep: the semaphore keeps its count).          *)
InvokePendKeep(t) ==
  /\ At(t, "pend")
  /\ callSem[waitOn[t]] > 0
  /\ Goto(t, ret[t])
  /\ UNCHANGED <<poolVars, sequence, queue, callSem, busVars, taskVars, out, issued,
                 heap, history, lost>>

InvokePend(t) ==
  /\ At(t, "pend")
  /\ callSem[waitOn[t]] > 0
  /\ callSem' = [callSem EXCEPT ![waitOn[t]] = @ - 1]
  /\ Goto(t, ret[t])
  /\ UNCHANGED <<poolVars, sequence, queue, busVars, taskVars, out, issued, heap,
                 history, lost>>

(* mblue_remote_call and the other senders return to the worker's code.    *)
RequestEnd(w) ==
  /\ At(w, "op_end")
  /\ result' = IF arg[w].type = "SYNC_CALL" THEN Set(result, op[w], out[w]) ELSE result
  /\ op' = Set(op, w, NULL)
  /\ Goto(w, "idle")
  /\ UNCHANGED <<poolVars, sequence, queue, callSem, busVars, ret, arg, mine, cur,
                 waitOn, out, deferred, issued, heap, executed, delivered, faults, lost>>

(***************************************************************************)
(* A worker handles a message: template_proc and the default handlers.     *)
(***************************************************************************)
Receive(t, type) ==
  /\ At(t, "idle")
  /\ queue[t] # << >>
  /\ msg[Head(queue[t])].type \in type
  /\ cur' = Set(cur, t, Head(queue[t]))
  /\ queue' = [queue EXCEPT ![t] = Tail(@)]

(* ipc_return(GET_MAJOR(m), m->seq, load)                                  *)
CallReturn(m, load) ==
  [type |-> "CALL_RETURN", major |-> msg[m].major, minor |-> "reply", dst |-> NULL,
   seq |-> msg[m].seq, load |-> load, extra |-> NULL]

(* default_ipc_handler: a method answers at once, or keeps the call to     *)
(* answer it later, or does not exist.                                     *)
HandleCall(w) ==
  LET m == Head(queue[w])
      load == msg[m].load
      method == msg[m].minor
      answer == IF method = "defer" THEN PENDING ELSE load
      replies == \/ method = "reply"
                 \/ method = "defer" /\ ~PendingIsSeen
  IN /\ Receive(w, Calls)
     /\ executed' = IF method = "unknown" THEN executed
                    ELSE [executed EXCEPT ![load] = @ + 1]
     /\ deferred' = IF method = "defer"
                    THEN [deferred EXCEPT ![w] = @ \cup {[m |-> m, load |-> load]}]
                    ELSE deferred
     /\ IF replies
          THEN Send(w, CallReturn(m, answer), "handler_end") /\ Goto(w, "alloc")
          ELSE Goto(w, "handler_end") /\ UNCHANGED <<arg, ret>>
     /\ UNCHANGED <<poolVars, sequence, callSem, busVars, mine, waitOn, op, out, issued,
                    heap, result, delivered, faults, lost>>

(* default_signal_handler up to the end of the segment's own handler.      *)
HandleSignal(w) ==
  /\ Receive(w, {"SIGNAL"})
  /\ delivered' = [delivered EXCEPT ![w] = Append(@, msg[Head(queue[w])].load)]
  /\ Goto(w, "handler_end")
  /\ UNCHANGED <<poolVars, sequence, callSem, busVars, ret, arg, mine, waitOn, op, out,
                 deferred, issued, heap, executed, result, faults, lost>>

(* mblue_free(msg->smart_payload) (KeepPayload: forgotten).                *)
KeepPayload(load) == UNCHANGED <<heap, faults>>

FreePayload(load) ==
  /\ heap' = heap \ {load}
  /\ faults' = IF load \in heap THEN faults ELSE faults \cup {"double_free"}

(* Both handlers end by freeing the payload and releasing the message.     *)
HandlerEnd(w) ==
  /\ At(w, "handler_end")
  /\ FreePayload(msg[cur[w]].load)
  /\ mblue_message_release(cur[w])
  /\ Goto(w, "idle")
  /\ UNCHANGED <<sequence, queue, callSem, busVars, taskVars, out, issued, executed,
                 result, delivered, lost>>

(* A deferred call is answered when the awaited event arrives; the pending *)
(* event holds a pointer to the request message (event_helper.h).          *)
AnswerDeferred(w) ==
  /\ At(w, "idle")
  /\ \E d \in deferred[w] :
       /\ deferred' = [deferred EXCEPT ![w] = @ \ {d}]
       /\ Send(w, CallReturn(d.m, d.load), "idle")
  /\ Goto(w, "alloc")
  /\ UNCHANGED <<poolVars, sequence, queue, callSem, busVars, mine, cur, waitOn, op,
                 out, issued, heap, history, lost>>

(***************************************************************************)
(* The bus task.                                                           *)
(***************************************************************************)
(* LOGGER: an asynchronous call of the log service, from the bus itself.   *)
(* Past the bound log_service_write fails, as when it finds no memory.     *)
Logger(label) ==
  LET id == <<Bus, issued[Bus] + 1>>
  IN IF issued[Bus] < Budget[Bus]
       THEN /\ issued' = [issued EXCEPT ![Bus] = @ + 1]
            /\ heap' = heap \cup {id}
            /\ Send(Bus, [type |-> "ASYNC_CALL", major |-> LogService,
                          minor |-> "reply", dst |-> NULL, seq |-> 0,
                          load |-> id, extra |-> id], label)
            /\ Goto(Bus, "seq_inc")
       ELSE /\ Goto(Bus, label)
            /\ UNCHANGED <<issued, heap, arg, ret>>

Major == msg[Head(queue[Bus])].major

(* handle_subscribe, bus_subscribe.                                        *)
BusSubscribe ==
  LET m == Head(queue[Bus])
  IN /\ Receive(Bus, {"SUBSCRIBE"})
     /\ mblue_message_release(m)
     /\ publish' = [publish EXCEPT ![Major] = Append(@, msg[m].extra)]
     /\ UNCHANGED <<sequence, callSem, calls, todo, pc, ret, arg, mine, waitOn, op, out,
                    deferred, issued, heap, history, lost>>

(* bus_signal without subscribers.                                         *)
BusSignalNobody ==
  /\ Receive(Bus, {"SIGNAL"})
  /\ publish[Major] = << >>
  /\ Logger("bus_end")
  /\ UNCHANGED <<poolVars, sequence, callSem, busVars, mine, waitOn, op, out, deferred,
                 history, lost>>

BusSignal ==
  /\ Receive(Bus, {"SIGNAL"})
  /\ publish[Major] # << >>
  /\ todo' = publish[Major]
  /\ Goto(Bus, "replicate")
  /\ UNCHANGED <<poolVars, sequence, callSem, publish, calls, ret, arg, mine, waitOn,
                 op, out, deferred, issued, heap, history, lost>>

(* One iteration of bus_signal's loop: a shallow copy to one subscriber.   *)
BusReplicate ==
  /\ At(Bus, "replicate")
  /\ free # << >>
  /\ LET r == Head(free)
         s == cur[Bus]
     IN /\ msg' = [msg EXCEPT ![r] = [msg[s] EXCEPT !.ref = GetRef(s), !.dst = Head(todo)]]
        /\ template_msg_post(Head(todo), r)
  /\ free' = Tail(free)
  /\ todo' = Tail(todo)
  /\ Goto(Bus, IF Len(todo) = 1 THEN "bus_end" ELSE "replicate")
  /\ UNCHANGED <<sequence, callSem, publish, calls, taskVars, out, issued, heap, history>>

(* mblue_message_alloc returned NULL and memcpy writes through it.         *)
BusReplicateNull ==
  /\ At(Bus, "replicate")
  /\ free = << >>
  /\ faults' = faults \cup {"null_replica"}
  /\ Goto(Bus, "dead")
  /\ UNCHANGED <<poolVars, sequence, queue, callSem, busVars, taskVars, out, issued,
                 heap, executed, result, delivered, lost>>

(* bus_call of a segment the table lacks: the message is not released and  *)
(* nobody wakes the caller.                                                *)
BusCallUnknown ==
  /\ Receive(Bus, Calls)
  /\ Major \notin Registered
  /\ lost' = lost \cup {Head(queue[Bus])}
  /\ Logger("idle")
  /\ UNCHANGED <<poolVars, sequence, callSem, busVars, mine, waitOn, op, out, deferred,
                 history>>

(* bus_call: note the pending call, take a reference, pass the message on. *)
BusCall ==
  LET m == Head(queue[Bus])
  IN /\ At(Bus, "idle")
     /\ queue[Bus] # << >>
     /\ msg[m].type \in Calls
     /\ Major \in Registered
     /\ calls' = [calls EXCEPT ![Major] =
                    Append(@, [m |-> m, type |-> msg[m].type, info |-> msg[m].extra])]
     /\ msg' = [msg EXCEPT ![m].ref = GetRef(m), ![m].dst = Major]
     /\ cur' = Set(cur, Bus, m)
     /\ queue' = [queue EXCEPT ![Bus] = Tail(@),
                               ![Major] = IF Fits(Major) THEN Append(@, m) ELSE @]
     /\ lost' = IF Fits(Major) THEN lost ELSE lost \cup {m}
     /\ UNCHANGED <<free, sequence, callSem, publish, todo, pc, ret, arg, mine, waitOn,
                    op, out, deferred, issued, heap, history>>

(* Positions of the pending calls a return with this number matches        *)
(* (MatchingAny: any call of the segment).                                 *)
MatchingAny(major, seq) == DOMAIN calls[major]

Matching(major, seq) ==
  {i \in DOMAIN calls[major] : msg[calls[major][i].m].seq = seq}

First(S) == CHOOSE i \in S : \A j \in S : i <= j

Without(s, i) == [j \in 1 .. Len(s) - 1 |-> IF j < i THEN s[j] ELSE s[j + 1]]

(* bus_call_return, no pending call for this major.                        *)
BusReturnNone ==
  /\ Receive(Bus, {"CALL_RETURN"})
  /\ calls[Major] = << >>
  /\ Logger("bus_end")
  /\ UNCHANGED <<poolVars, sequence, callSem, busVars, mine, waitOn, op, out, deferred,
                 history, lost>>

(* bus_call_return, pending calls but none with this number.               *)
BusReturnStray ==
  /\ Receive(Bus, {"CALL_RETURN"})
  /\ calls[Major] # << >>
  /\ Matching(Major, msg[Head(queue[Bus])].seq) = {}
  /\ Goto(Bus, "bus_end")
  /\ UNCHANGED <<poolVars, sequence, callSem, busVars, ret, arg, mine, waitOn, op, out,
                 deferred, issued, heap, history, lost>>

(* notifier->notify(...) (NotifyNobody: not called).                       *)
NotifyNobody(call, value) == UNCHANGED result

Notify(call, value) == result' = Set(result, call.info, value)

(* bus_call_return, first match.  A synchronous caller's cell is written   *)
(* (it may be gone) and the caller's semaphore posted; an asynchronous     *)
(* caller is notified.  The call is forgotten; releases follow.            *)
BusReturn ==
  LET d == Head(queue[Bus])
      found == Matching(Major, msg[d].seq)
      call == calls[Major][First(found)]
      task == msg[call.m].src
      cell == msg[call.m].extra
  IN /\ Receive(Bus, {"CALL_RETURN"})
     /\ found # {}
     /\ IF call.type = "SYNC_CALL"
          THEN /\ IF op[task] = cell
                    THEN out' = Set(out, task, msg[d].load) /\ UNCHANGED faults
                    ELSE faults' = faults \cup {"dead_frame"} /\ UNCHANGED out
               /\ callSem' = [callSem EXCEPT ![task] = @ + 1]
               /\ UNCHANGED result
          ELSE /\ Notify(call, msg[d].load)
               /\ UNCHANGED <<out, callSem, faults>>
     /\ calls' = [calls EXCEPT ![Major] = Without(@, First(found))]
     /\ mine' = Set(mine, Bus, call.m)
     /\ Goto(Bus, "release_call")
     /\ UNCHANGED <<poolVars, sequence, publish, todo, ret, arg, waitOn, op, deferred,
                    issued, heap, executed, delivered, lost>>

BusReleaseCall ==
  /\ At(Bus, "release_call")
  /\ mblue_message_release(mine[Bus])
  /\ Goto(Bus, "bus_end")
  /\ UNCHANGED <<sequence, queue, callSem, busVars, taskVars, out, issued, heap, history,
                 lost>>

(* bus_signal and bus_call_return end by releasing their message.          *)
BusEnd ==
  /\ At(Bus, "bus_end")
  /\ mblue_message_release(cur[Bus])
  /\ Goto(Bus, "idle")
  /\ UNCHANGED <<sequence, queue, callSem, busVars, taskVars, out, issued, heap, history,
                 lost>>

(***************************************************************************)
Init ==
  /\ msg = [m \in Messages |-> [seq |-> 0, ref |-> 0, type |-> "SUBSCRIBE",
                                major |-> LogService, minor |-> "unknown",
                                src |-> NULL, dst |-> NULL, load |-> NULL,
                                extra |-> NULL]]
  /\ free = [i \in 1 .. PoolSize |-> i]
  /\ sequence = 0
  /\ queue = [t \in Tasks |-> << >>]
  /\ callSem = [t \in Tasks |-> 0]
  /\ publish = [w \in Workers |-> << >>]
  /\ calls = [w \in Workers |-> << >>]
  /\ pc = [t \in Tasks |-> "idle"]
  /\ ret = [t \in Tasks |-> "idle"]
  /\ arg = [t \in Tasks |-> [type |-> "SUBSCRIBE", major |-> LogService,
                             minor |-> "unknown", dst |-> NULL, seq |-> 0,
                             load |-> NULL, extra |-> NULL]]
  /\ mine = [t \in Tasks |-> 1]
  /\ cur = [t \in Tasks |-> 1]
  /\ todo = << >>
  /\ waitOn = [t \in Tasks |-> t]
  /\ op = [t \in Tasks |-> NULL]
  /\ out = [t \in Tasks |-> GARBAGE]
  /\ deferred = [t \in Tasks |-> {}]
  /\ issued = [t \in Tasks |-> 0]
  /\ heap = {}
  /\ executed = [r \in Requests |-> 0]
  /\ result = [r \in Requests |-> NULL]
  /\ delivered = [w \in Workers |-> << >>]
  /\ lost = {}
  /\ faults = {}

(* What a task does on its own once it has something to do.                *)
SendStep(t) ==
  \/ SequenceIncrement(t) \/ SequenceReturn(t) \/ InitMessage(t) \/ NoMessage(t)
  \/ InvokePost(t) \/ InvokeTest(t) \/ InvokePend(t)

WorkerStep(w) ==
  \/ SendStep(w) \/ RequestEnd(w)
  \/ HandleCall(w) \/ HandleSignal(w) \/ HandlerEnd(w) \/ AnswerDeferred(w)

BusStep ==
  \/ SendStep(Bus)
  \/ BusSubscribe
  \/ BusSignalNobody \/ BusSignal \/ BusReplicate \/ BusReplicateNull
  \/ BusCallUnknown \/ BusCall
  \/ BusReturnNone \/ BusReturnStray \/ BusReturn \/ BusReleaseCall
  \/ BusEnd

Quiescent == \A t \in Tasks : pc[t] = "idle" /\ queue[t] = << >> /\ deferred[t] = {}

Exhausted == \A w \in Workers : issued[w] = Budget[w]

(* All requests of the bounded run are made and nothing is left to do.     *)
Finished == Quiescent /\ Exhausted /\ UNCHANGED vars

Next ==
  \/ BusStep
  \/ \E w \in Workers : WorkerStep(w) \/ \E o \in Ops[w] : MakeRequest(w, o)
  \/ Finished

Spec == Init /\ [][Next]_vars

(* The operating system does not idle while some task can run; when a      *)
(* request is made is up to the application.  This is less than fairness   *)
(* to every task, and enough as long as the number of requests is bounded. *)
Fairness == WF_vars(BusStep \/ \E w \in Workers : WorkerStep(w))

FairSpec == Spec /\ Fairness

(***************************************************************************)
(* Properties.                                                             *)
(***************************************************************************)
Values == Requests \cup {NULL, GARBAGE, PENDING}

Labels == {"idle", "seq_inc", "seq_ret", "alloc", "invoke", "test", "pend", "op_end",
           "handler_end", "replicate", "release_call", "bus_end", "dead"}

(* Types of the pool, the queues, the bus and what the tasks hold.         *)
TypeOK ==
  /\ msg \in [Messages -> [seq : 0 .. SeqLimit - 1, ref : 0 .. 2, type : Types,
                           major : Workers, minor : Methods,
                           src : Tasks \cup {NULL}, dst : Tasks \cup {NULL},
                           load : Values, extra : Values \cup Workers]]
  /\ Range(free) \subseteq Messages
  /\ sequence \in 0 .. SeqLimit - 1
  /\ \A t \in Tasks : Range(queue[t]) \subseteq Messages /\ Len(queue[t]) <= QueueSize
  /\ callSem \in [Tasks -> Nat]
  /\ \A w \in Workers :
       /\ Range(publish[w]) \subseteq Workers
       /\ Range(calls[w]) \subseteq [m : Messages, type : Calls, info : Requests]
  /\ pc \in [Tasks -> Labels]
  /\ ret \in [Tasks -> Labels]
  /\ mine \in [Tasks -> Messages]
  /\ cur \in [Tasks -> Messages]
  /\ waitOn \in [Tasks -> Tasks]
  /\ op \in [Tasks -> Requests \cup {NULL}]
  /\ out \in [Tasks -> Values]
  /\ \A t \in Tasks : deferred[t] \subseteq [m : Messages, load : Requests]
  /\ issued \in [Tasks -> Nat]
  /\ heap \subseteq Requests
  /\ executed \in [Requests -> Nat]
  /\ result \in [Requests -> Values]
  /\ lost \subseteq Messages
  /\ faults \subseteq {"double_free", "null_replica", "dead_frame"}

(***************************************************************************)
(* Who refers to a message: the queue it is in, the handler that has not   *)
(* released it, the task that has not handed it off, a pending call.       *)
(***************************************************************************)
Queued(m) == UNION {{t} \X {i \in DOMAIN queue[t] : queue[t][i] = m} : t \in Tasks}

Sending == {"seq_inc", "seq_ret", "alloc", "invoke", "test", "pend"}

Handled(m) ==
  {t \in Tasks :
     /\ cur[t] = m
     /\ \/ pc[t] \in {"handler_end", "replicate", "release_call", "bus_end", "dead"}
        \/ pc[t] \in Sending /\ ret[t] \in {"handler_end", "bus_end"}}

Owned(m) == {t \in Tasks : mine[t] = m /\ pc[t] \in {"invoke", "release_call"}}

Pending(m) ==
  UNION {{w} \X {i \in DOMAIN calls[w] : calls[w][i].m = m} : w \in Workers}

References(m) ==
  Cardinality(Queued(m)) + Cardinality(Handled(m)) + Cardinality(Owned(m))
    + Cardinality(Pending(m))

(* The reference counts kept by get_mblue_message, put_mblue_message and   *)
(* init_message are exact whatever the interleaving of the sender, the bus *)
(* and the handler: a message on the free list is there once and nobody    *)
(* refers to it, and any other has as many references as its count says (a *)
(* count of 0 is one owner), unless it was dropped.                        *)
PoolAccounting ==
  /\ \A i, j \in DOMAIN free : free[i] = free[j] => i = j
  /\ Range(free) \cap lost = {}
  /\ \A m \in Messages \ lost :
       References(m) = IF m \in Range(free) THEN 0
                       ELSE IF msg[m].ref = 0 THEN 1 ELSE msg[m].ref

(* tpost never runs ahead or twice: a task's call_sem is posted only while *)
(* the task waits in its synchronous call, once, and after the reply to    *)
(* that very call was stored in its out (bus_call_return).                 *)
WakeupHasReply ==
  \A w \in Workers :
    callSem[w] > 0 => /\ callSem[w] = 1
                      /\ pc[w] \in {"test", "pend"}
                      /\ out[w] = op[w]

(* A synchronous call returns the reply to this call, "return payload for  *)
(* sync remote call" (mblue_message.h:56), never a value of another call,  *)
(* an error code or what its out happened to hold.                         *)
OwnReply ==
  \A w \in Workers :
    pc[w] = "op_end" /\ arg[w].type = "SYNC_CALL" => out[w] = op[w]

(* What bus_call_return and ipc_invoke rely on without enforcing it.       *)
(* Numbers wrap at SeqLimit, and two tasks can load the same one: pending  *)
(* calls of a segment have to differ for a return to find its own call.    *)
CallsToldApart ==
  \A w \in Workers : \A i, j \in DOMAIN calls[w] :
    msg[calls[w][i].m].seq = msg[calls[w][j].m].seq => i = j

(* The message that ipc_invoke tests (ipc.c:96) belongs to others by then: *)
(* what it reads there has to be what it sent.                             *)
TestsOwnMessage ==
  \A t \in Tasks : pc[t] = "test" =>
    /\ msg[mine[t]].type = "SYNC_CALL" <=> arg[t].type = "SYNC_CALL"
    /\ arg[t].type = "SYNC_CALL" => msg[mine[t]].src = t

(* A synchronous caller takes the failure of send_message for a reply.     *)
CallersServed ==
  \A t \in Tasks : pc[t] = "alloc" /\ arg[t].type = "SYNC_CALL" => free # << >>

(* Pool and numbers suffice for the load: as long as calls are not under   *)
(* way for so long that a number is used again, a message not recycled     *)
(* while its sender still looks at it, and the pool not empty when a       *)
(* synchronous caller asks for a message, replies reach those they are for *)
(* (see ImplementsRemoteCall, WakeupHasReply).                             *)
Undisturbed == CallsToldApart /\ TestsOwnMessage /\ CallersServed

(* All copies of a signal share one payload, and every subscriber's        *)
(* handler frees it (the TODO of system_bus.c:196).                        *)
OneSubscriber == \A w \in Workers : Len(publish[w]) <= 1

(* A payload is forgotten with its message when a queue is full or a       *)
(* segment is not registered, when there is no message for it, and when    *)
(* nobody subscribed to its signal.                                        *)
NothingDropped ==
  /\ lost = {}
  /\ \A t \in Tasks : pc[t] \in {"alloc", "replicate"} => free # << >>
  /\ At(Bus, "idle") /\ queue[Bus] # << >> /\ msg[Head(queue[Bus])].type = "SIGNAL" =>
       publish[Major] # << >>

(* Pool, queues, numbers and subscriptions suffice for the load: replies   *)
(* reach those they are for, and no payload is forgotten or shared.        *)
Ample == Undisturbed /\ OneSubscriber /\ NothingDropped

(* Payloads are freed exactly once by the handlers they are passed to      *)
(* (mblue_free in default_signal_handler and default_ipc_handler): none    *)
(* twice, and none is left when every message has been handled.            *)
PayloadFreedOnce == "double_free" \notin faults /\ (Quiescent => heap = {})

(* Workers that only broadcast.                                            *)
Publishers ==
  {w \in Workers : \A o \in Ops[w] : o.type = "SIGNAL" /\ o.dst = NULL}

(* bus_subscribe does not look whether the subscriber is in the list.      *)
SubscribedTwice(w) ==
  \E v \in Workers : \E i, j \in DOMAIN publish[v] :
    i # j /\ publish[v][i] = w /\ publish[v][j] = w

(* A subscriber receives the signals of a publisher in the order they were *)
(* sent and none twice, though they travel through two queues, are copied  *)
(* by bus_signal and share recycled messages.  Only one that subscribed    *)
(* twice may receive a signal again.                                       *)
SignalsInOrder ==
  \A p \in Publishers, w \in Workers : \A i, j \in DOMAIN delivered[w] :
    LET a == delivered[w][i]
        b == delivered[w][j]
    IN i < j /\ a[1] = p /\ b[1] = p
         => a[2] <= b[2] /\ (a[2] = b[2] => SubscribedTwice(w))

(* A signal sent when the bus knows its subscriber reaches the             *)
(* subscriber's handler: neither the bus's queue nor the copy is lost.     *)
SignalsArrive ==
  \A p \in Publishers, w \in Workers : \A n \in 1 .. Budget[p] :
    (pc[p] = "seq_inc" /\ op[p] = <<p, n>> /\ w \in Range(publish[p]))
      ~> (<<p, n>> \in Range(delivered[w]))

(***************************************************************************)
(* Remote calls as the caller sees them.  "broken" is no phase of          *)
(* RemoteCall: a request executed twice, or answered with something that   *)
(* is not its reply.                                                       *)
(***************************************************************************)
Phase(r) ==
  CASE result[r] = r /\ executed[r] = 1 -> "completed"
    [] result[r] = NULL /\ executed[r] = 1 -> "executed"
    [] result[r] = NULL /\ executed[r] = 0 ->
         IF r[2] <= issued[r[1]] THEN "issued" ELSE "new"
    [] OTHER -> "broken"

Remote == INSTANCE RemoteCall WITH phase <- [r \in Requests |-> Phase(r)]

(* Message pool, bus and handlers implement remote calls: each is executed *)
(* at most once and completes at most once, after its execution and with   *)
(* the result of its own execution, synchronous or asynchronous, answered  *)
(* at once or later, in any order.                                         *)
ImplementsRemoteCall == Remote!Spec

(* Every call of an existing method is answered: a caller that waits on    *)
(* its call_sem is woken, a notifier is called.                            *)
CallsComplete ==
  \A r \in Requests :
    (/\ r[1] \in Workers
     /\ op[r[1]] = r
     /\ arg[r[1]].type \in Calls
     /\ arg[r[1]].minor # "unknown") ~> (result[r] = r)

==============================================================================
