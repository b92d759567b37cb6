--------------------------- MODULE RemoteCallProofs ---------------------------
(***************************************************************************)
(* Proof that pool, bus and handlers implement remote calls and wake every *)
(* caller with its own reply, for any number of tasks, any pool, queues    *)
(* and requests, as long as the system is Undisturbed: that condition      *)
(* names the three places at which the code relies on luck.  And that the  *)
(* payload of a call or of a signal is freed once, as long as no segment   *)
(* has two subscribers and nothing is dropped.                             *)
(***************************************************************************)
EXTENDS SystemBusProofs

(***************************************************************************)
(* Where calls and replies are.                                            *)
(***************************************************************************)
Preparing == {"seq_inc", "seq_ret", "alloc"}

(* A message in use that carries a call.                                   *)
InCall(m) == m \notin Range(free) /\ msg[m].type \in Calls

(* A message on its way: in a queue, or about to be handed off.            *)
InQueue(m) == \E t \in Tasks : m \in Range(queue[t])
WithSender(m) == \E t \in Tasks : pc[t] = "invoke" /\ mine[t] = m
Underway(m) == InQueue(m) \/ WithSender(m)

(* Segment w has the call m in its list of pending calls.                  *)
Awaits(m, w) == \E i \in DOMAIN calls[w] : calls[w][i].m = m
Open(m) == Underway(m) \/ \E w \in Workers : Awaits(m, w)

(* ...and a return with this number and load finds it there.               *)
Expects(w, s, r) == \E m \in Messages : Awaits(m, w) /\ msg[m].seq = s /\ msg[m].load = r

(* The reply to a request is kept by a pending event, about to be sent,    *)
(* or under way to the bus.                                                *)
Keeps(t, r) == \E d \in deferred[t] : d.load = r
Gives(t, r) == pc[t] \in Preparing /\ arg[t].type = "CALL_RETURN" /\ arg[t].load = r
Brings(m, r) == Underway(m) /\ msg[m].type = "CALL_RETURN" /\ msg[m].load = r

(* Does task t wait for the reply to r?                                    *)
WaitsFor(t, r) ==
  /\ op[t] = r /\ callSem[t] = 0
  /\ arg[t].type = "SYNC_CALL" /\ pc[t] \in {"invoke", "test", "pend"}
NotCalled(t, r) == op[t] = r => arg[t].type # "SYNC_CALL"

(***************************************************************************)
(* The inductive invariant: calls.                                         *)
(***************************************************************************)
Asks(t) == pc[t] \in Preparing /\ arg[t].type \in Calls

(* A call in use names its request, of the task that sent it.              *)
CallNamed(m) ==
  LET r == msg[m].load
  IN /\ r \in Requests /\ msg[m].extra = r /\ msg[m].src = r[1]
     /\ r[2] <= issued[r[1]]
     /\ Asks(r[1]) => r[2] < issued[r[1]]

CallsNamed == \A m \in Messages : InCall(m) => CallNamed(m)

OneMessage ==
  \A m, n \in Messages : InCall(m) /\ InCall(n) /\ msg[m].load = msg[n].load => m = n

NewRequests == \A r \in Requests : r[2] > issued[r[1]] => executed[r] = 0 /\ result[r] = NULL

NotExecuted == \A m \in Messages : InCall(m) /\ Underway(m) => executed[msg[m].load] = 0

OpenCall(m) ==
  /\ result[msg[m].load] = NULL
  /\ msg[m].type = "SYNC_CALL" => WaitsFor(msg[m].src, msg[m].load)
  /\ msg[m].type = "ASYNC_CALL" => NotCalled(msg[m].src, msg[m].load)

OpenCalls == \A m \in Messages : InCall(m) /\ Open(m) => OpenCall(m)

PendingCall(w, c) ==
  InCall(c.m) /\ c.type = msg[c.m].type /\ c.info = msg[c.m].load /\ msg[c.m].major = w

PendingCalls == \A w \in Workers : \A i \in DOMAIN calls[w] : PendingCall(w, calls[w][i])

(* A call goes to the bus first, which notes it before it passes it on,    *)
(* and only signals are copied.                                            *)
Passed ==
  /\ \A w \in Workers : \A m \in Range(queue[w]) :
       msg[m].type \in Calls => Awaits(m, msg[m].major)
  /\ \A t \in Tasks : pc[t] = "invoke" /\ msg[mine[t]].type \in Calls => msg[mine[t]].dst = NULL
  /\ pc[Bus] = "replicate" => msg[cur[Bus]].type = "SIGNAL"

CallPart ==
  /\ CallsNamed /\ OneMessage /\ NewRequests /\ NotExecuted /\ OpenCalls
  /\ PendingCalls /\ Passed

(***************************************************************************)
(* The inductive invariant: replies.                                       *)
(***************************************************************************)
(* Who has the reply to r: a task that keeps it, a task about to send it,  *)
(* or a message.                                                           *)
ReplyKinds == {"kept", "given", "sent"}
Holders == Tasks \cup Messages

ReplyAt(r, k, x) ==
  \/ k = "kept" /\ x \in Tasks /\ Keeps(x, r)
  \/ k = "given" /\ x \in Tasks /\ Gives(x, r)
  \/ k = "sent" /\ x \in Messages /\ Brings(x, r)

OneReply ==
  \A r \in Requests : \A k, l \in ReplyKinds : \A x, y \in Holders :
    ReplyAt(r, k, x) /\ ReplyAt(r, l, y) => k = l /\ x = y

RepliesDue ==
  \A r \in Requests : \A k \in ReplyKinds : \A x \in Holders :
    ReplyAt(r, k, x) => executed[r] = 1

BringsExpected ==
  \A m \in Messages : Underway(m) /\ msg[m].type = "CALL_RETURN" =>
    msg[m].load \in Requests /\ Expects(msg[m].major, msg[m].seq, msg[m].load)

ReplyPart == OneReply /\ RepliesDue /\ BringsExpected

(***************************************************************************)
(* The inductive invariant: tasks.                                         *)
(***************************************************************************)
AskGood(t) ==
  LET r == <<t, issued[t]>>
  IN Asks(t) => /\ arg[t].load = r /\ arg[t].extra = r /\ arg[t].dst = NULL
                /\ r \in Requests /\ executed[r] = 0 /\ result[r] = NULL
                /\ arg[t].type = "SYNC_CALL" => op[t] = r

CallGood(t) ==
  /\ pc[t] \in Sending \cup {"op_end"} /\ arg[t].type = "SYNC_CALL" =>
       /\ t \in Workers
       /\ pc[t] # "op_end" => ret[t] = "op_end"
       /\ op[t] \in Requests /\ op[t][1] = t /\ op[t][2] <= issued[t]
  /\ pc[t] = "pend" => arg[t].type = "SYNC_CALL" /\ waitOn[t] = t
  /\ pc[t] \in {"seq_inc", "seq_ret"} => arg[t].type # "CALL_RETURN"
  /\ pc[t] = "invoke" /\ arg[t].type = "SYNC_CALL" =>
       msg[mine[t]].type = "SYNC_CALL" /\ msg[mine[t]].load = op[t]

WokenGood(t) ==
  callSem[t] > 0 =>
    /\ callSem[t] = 1 /\ pc[t] \in {"test", "pend"} /\ arg[t].type = "SYNC_CALL"
    /\ out[t] = op[t] /\ executed[op[t]] = 1 /\ result[op[t]] = NULL

KeepGood(t) == \A d \in deferred[t] : msg[d.m].load = d.load /\ Awaits(d.m, msg[d.m].major)

GiveGood(t) ==
  pc[t] \in Preparing /\ arg[t].type = "CALL_RETURN" =>
    arg[t].load \in Requests /\ Expects(arg[t].major, arg[t].seq, arg[t].load)

(* A synchronous call that returns has its own reply.                      *)
Answered(t) ==
  pc[t] = "op_end" /\ arg[t].type = "SYNC_CALL" =>
    out[t] = op[t] /\ executed[op[t]] = 1 /\ result[op[t]] = NULL

TaskGood(t) ==
  /\ AskGood(t) /\ CallGood(t) /\ WokenGood(t)
  /\ KeepGood(t) /\ GiveGood(t) /\ Answered(t)

TaskPart == \A t \in Tasks : TaskGood(t)

RemoteInv == BusInv /\ CallPart /\ ReplyPart /\ TaskPart

(***************************************************************************)
(* What a step may leave as it is.                                         *)
(***************************************************************************)
Same(m) ==
  /\ msg'[m].type = msg[m].type /\ msg'[m].load = msg[m].load
  /\ msg'[m].extra = msg[m].extra /\ msg'[m].src = msg[m].src
  /\ msg'[m].seq = msg[m].seq /\ msg'[m].major = msg[m].major

Kept == \A m \in Messages : m \notin Range(free) => Same(m)

(* No message is made a call.                                              *)
CallsKept == \A m \in Messages : InCall(m)' => InCall(m) /\ Same(m)

AwaitsKept == \A m \in Messages, w \in Workers : Awaits(m, w) => Awaits(m, w)'

ExpectsKept == \A w \in Workers : \A s, r : Expects(w, s, r) => Expects(w, s, r)'

TaskKept(u) ==
  /\ pc'[u] = pc[u] /\ arg'[u] = arg[u] /\ ret'[u] = ret[u] /\ mine'[u] = mine[u]
  /\ op'[u] = op[u] /\ waitOn'[u] = waitOn[u] /\ issued'[u] = issued[u]
  /\ deferred'[u] = deferred[u] /\ out'[u] = out[u] /\ callSem'[u] = callSem[u]

Others(t) == \A u \in Tasks : u # t => TaskKept(u)

(* A caller goes on waiting, and one that does not call is not called one. *)
CallerKept(t) ==
  \A r \in Requests : r[1] = t /\ r[2] <= issued[t] =>
    /\ WaitsFor(t, r) => WaitsFor(t, r)'
    /\ NotCalled(t, r) => NotCalled(t, r)'

AskKept(t) ==
  /\ issued[t] <= issued'[t]
  /\ Asks(t)' => (Asks(t) /\ issued'[t] = issued[t]) \/ issued[t] < issued'[t]

(***************************************************************************)
(* Messages that are on their way or awaited are in use.                   *)
(***************************************************************************)
LEMMA Located ==
  BusInv => \A m \in Messages :
              /\ Underway(m) => m \notin Range(free)
              /\ \A w \in Workers : Awaits(m, w) => m \notin Range(free)
<1>1. SUFFICES ASSUME BusInv, NEW m \in Messages
               PROVE  /\ Underway(m) => m \notin Range(free)
                      /\ \A w \in Workers : Awaits(m, w) => m \notin Range(free)
  OBVIOUS
<1>2. OnePlace /\ Counted(m)
  BY <1>1 DEF BusInv, Accounts, AllCounted
<1>3. ASSUME Underway(m)
      PROVE  m \notin Range(free)
  <2>1. PICK t \in Tasks : IsAt(m, "queue", t) \/ IsAt(m, "sender", t)
    BY <1>3 DEF Underway, InQueue, WithSender, IsAt
  <2>2. QED
    BY <1>2, <2>1, PlacesApart DEF Kinds
<1>4. ASSUME NEW w \in Workers, Awaits(m, w)
      PROVE  m \notin Range(free)
  <2>1. Waits(m, w) /\ w \in Tasks
    BY <1>4, Names DEF Awaits, Waits
  <2>2. Awaited(m)
    BY <2>1 DEF Awaited
  <2>3. QED
    BY <1>2, <2>2 DEF Counted
<1>5. QED
  BY <1>3, <1>4

LEMMA LocatedNext ==
  BusInv' => \A m \in Messages :
              /\ Underway(m)' => m \notin Range(free')
              /\ \A w \in Workers : Awaits(m, w)' => m \notin Range(free')
<1>1. (BusInv => \A m \in Messages :
              /\ Underway(m) => m \notin Range(free)
              /\ \A w \in Workers : Awaits(m, w) => m \notin Range(free))'
  BY Located, PTL
<1>2. QED
  BY <1>1

LEMMA MessageTypes ==
  BusInv => /\ msg \in [Messages -> MessageSet] /\ arg \in [Tasks -> ArgumentSet]
            /\ calls \in [Workers -> Seq(CallSet)]
            /\ pc \in [Tasks -> Labels] /\ mine \in [Tasks -> Messages]
            /\ issued \in [Tasks -> Nat] /\ callSem \in [Tasks -> Nat]
            /\ queue \in [Tasks -> Seq(Messages)] /\ cur \in [Tasks -> Messages]
            /\ deferred \in [Tasks -> SUBSET DeferredSet]
            /\ executed \in [Requests -> Nat] /\ result \in [Requests -> Values]
BY DEF BusInv, PoolTypes, BusTypes, TaskTypes, HistoryTypes

LEMMA RequestParts == \A r \in Requests : r[1] \in Tasks /\ r[2] \in Nat
BY SizesAssumption DEF Requests

(***************************************************************************)
(* Calls, when none is made.                                               *)
(***************************************************************************)
LEMMA NoCallMade ==
  ASSUME Kept,
         \A m \in Messages : m \in Range(free) /\ m \notin Range(free') => msg'[m].type \notin Calls
  PROVE  CallsKept
<1>1. SUFFICES ASSUME NEW m \in Messages, m \notin Range(free'), msg'[m].type \in Calls
               PROVE  InCall(m) /\ Same(m)
  BY DEF CallsKept, InCall
<1>2. m \notin Range(free)
  BY <1>1
<1>3. Same(m)
  BY <1>2 DEF Kept
<1>4. QED
  BY <1>1, <1>2, <1>3 DEF InCall, Same

LEMMA NamesKept ==
  ASSUME CallsNamed, OneMessage, CallsKept, BusInv, BusInv', \A t \in Tasks : AskKept(t)
  PROVE  CallsNamed' /\ OneMessage'
<1>1. /\ issued \in [Tasks -> Nat] /\ issued' \in [Tasks -> Nat]
      /\ \A r \in Requests : r[1] \in Tasks /\ r[2] \in Nat
  BY SizesAssumption DEF BusInv, TaskTypes, Requests
<1>2. ASSUME NEW m \in Messages, InCall(m)'
      PROVE  CallNamed(m)'
  <2>1. InCall(m) /\ Same(m)
    BY <1>2 DEF CallsKept
  <2>2. PICK r : r = msg[m].load
    OBVIOUS
  <2>3. /\ r \in Requests /\ msg[m].extra = r /\ msg[m].src = r[1]
        /\ r[2] <= issued[r[1]] /\ (Asks(r[1]) => r[2] < issued[r[1]])
    BY <2>1, <2>2, Zenon DEF CallsNamed, CallNamed
  <2>4. msg'[m].load = r /\ msg'[m].extra = r /\ msg'[m].src = r[1]
    BY <2>1, <2>2, <2>3 DEF Same
  <2>5. PICK t \in Tasks : t = r[1]
    BY <1>1, <2>3
  <2>6. issued[t] \in Nat /\ issued'[t] \in Nat /\ r[2] \in Nat
    BY <1>1, <2>3, <2>5
  <2>7. AskKept(t)
    OBVIOUS
  <2>8. r[2] <= issued'[t] /\ (Asks(t)' => r[2] < issued'[t])
    <3>1. r[2] <= issued[t] /\ (Asks(t) => r[2] < issued[t])
      BY <2>3, <2>5
    <3>2. issued[t] <= issued'[t]
      BY <2>7 DEF AskKept
    <3>3. CASE Asks(t)'
      <4>1. (Asks(t) /\ issued'[t] = issued[t]) \/ issued[t] < issued'[t]
        BY <2>7, <3>3, Zenon DEF AskKept
      <4>2. QED
        BY <2>6, <3>1, <3>2, <4>1
    <3>4. QED
      BY <2>6, <3>1, <3>2, <3>3
  <2>9. QED
    BY <2>3, <2>4, <2>5, <2>8, Zenon DEF CallNamed
<1>3. OneMessage'
  <2>1. SUFFICES ASSUME NEW m \in Messages, NEW n \in Messages, InCall(m)', InCall(n)',
                        msg'[m].load = msg'[n].load
                 PROVE  m = n
    BY Zenon DEF OneMessage
  <2>2. InCall(m) /\ InCall(n) /\ Same(m) /\ Same(n)
    BY <2>1 DEF CallsKept
  <2>3. msg[m].load = msg[n].load
    BY <2>1, <2>2 DEF Same
  <2>4. QED
    BY <2>2, <2>3 DEF OneMessage
<1>4. QED
  BY <1>2, <1>3, Zenon DEF CallsNamed

(* The call of task t with request r goes on as it did.                    *)
GoesOn(t, r) ==
  /\ result'[r] = result[r]
  /\ WaitsFor(t, r) => WaitsFor(t, r)'
  /\ NotCalled(t, r) => NotCalled(t, r)'

LEMMA OpenKept ==
  ASSUME BusInv, CallsNamed, NotExecuted, OpenCalls, CallsKept,
         \A m \in Messages : InCall(m)' => /\ Underway(m)' => Underway(m)
                                           /\ Open(m)' => Open(m),
         \A m \in Messages : InCall(m) /\ InCall(m)' /\ Underway(m)' =>
           executed'[msg[m].load] = executed[msg[m].load],
         \A m \in Messages, t \in Tasks, r \in Requests :
           /\ InCall(m) /\ InCall(m)' /\ Open(m) /\ Open(m)'
           /\ msg[m].src = t /\ msg[m].load = r
           => GoesOn(t, r)
  PROVE  NotExecuted' /\ OpenCalls'
<1>1. NotExecuted'
  <2>1. SUFFICES ASSUME NEW m \in Messages, InCall(m)', Underway(m)'
                 PROVE  executed'[msg'[m].load] = 0
    BY DEF NotExecuted
  <2>2. InCall(m) /\ Same(m) /\ Underway(m)
    BY <2>1 DEF CallsKept
  <2>3. executed[msg[m].load] = 0 /\ executed'[msg[m].load] = executed[msg[m].load]
    BY <2>1, <2>2, Zenon DEF NotExecuted
  <2>4. QED
    BY <2>2, <2>3 DEF Same
<1>2. OpenCalls'
  <2>1. SUFFICES ASSUME NEW m \in Messages, InCall(m)', Open(m)'
                 PROVE  OpenCall(m)'
    BY DEF OpenCalls
  <2>2. InCall(m) /\ Same(m) /\ Open(m)
    BY <2>1 DEF CallsKept
  <2>3. OpenCall(m)
    BY <2>2 DEF OpenCalls
  <2>4. PICK t \in Tasks, r \in Requests : t = msg[m].src /\ r = msg[m].load
    <3>1. CallNamed(m)
      BY <2>2 DEF CallsNamed
    <3>2. msg[m].load \in Requests /\ msg[m].src \in Tasks
      BY <3>1, RequestParts DEF CallNamed
    <3>3. QED
      BY <3>2
  <2>5. /\ result'[r] = result[r]
        /\ WaitsFor(t, r) => WaitsFor(t, r)'
        /\ NotCalled(t, r) => NotCalled(t, r)'
    <3>1. GoesOn(t, r)
      BY <2>1, <2>2, <2>4, Zenon
    <3>2. QED
      BY <3>1 DEF GoesOn
  <2>6. /\ result[r] = NULL
        /\ msg[m].type = "SYNC_CALL" => WaitsFor(t, r)
        /\ msg[m].type = "ASYNC_CALL" => NotCalled(t, r)
    BY <2>3, <2>4 DEF OpenCall
  <2>7. msg'[m].type = msg[m].type /\ msg'[m].load = r /\ msg'[m].src = t
    BY <2>2, <2>4 DEF Same
  <2>8. QED
    BY <2>5, <2>6, <2>7, Zenon DEF OpenCall
<1>3. QED
  BY <1>1, <1>2

LEMMA AwaitsSame ==
  ASSUME calls' = calls
  PROVE  AwaitsKept /\ \A m, w : Awaits(m, w)' <=> Awaits(m, w)
BY DEF AwaitsKept, Awaits

LEMMA ExpectsStays ==
  ASSUME BusInv, Kept, AwaitsKept
  PROVE  ExpectsKept
<1>1. SUFFICES ASSUME NEW w \in Workers, NEW s, NEW r, NEW m \in Messages,
                      Awaits(m, w), msg[m].seq = s, msg[m].load = r
               PROVE  Expects(w, s, r)'
  BY DEF ExpectsKept, Expects
<1>2. Awaits(m, w)'
  BY <1>1 DEF AwaitsKept
<1>3. Same(m)
  BY <1>1, Located DEF Kept
<1>4. QED
  BY <1>1, <1>2, <1>3 DEF Expects, Same

LEMMA PendingKept ==
  ASSUME BusInv, BusInv', PendingCalls, Kept, calls' = calls
  PROVE  PendingCalls'
<1>1. ASSUME NEW w \in Workers, NEW i \in DOMAIN calls[w]
      PROVE  PendingCall(w, calls[w][i])'
  <2>1. PICK c : c = calls[w][i]
    OBVIOUS
  <2>2. InCall(c.m) /\ c.type = msg[c.m].type /\ c.info = msg[c.m].load /\ msg[c.m].major = w
    BY <2>1 DEF PendingCalls, PendingCall
  <2>3. c.m \in Messages
    <3>1. calls[w] \in Seq(CallSet)
      BY MessageTypes
    <3>2. c \in CallSet
      BY <2>1, <3>1, ElementOfSeq
    <3>3. QED
      BY <3>2 DEF CallSet
  <2>4. Same(c.m)
    BY <2>2, <2>3 DEF Kept, InCall
  <2>5. Awaits(c.m, w)'
    BY <2>1 DEF Awaits
  <2>6. c.m \notin Range(free')
    BY <2>3, <2>5, LocatedNext
  <2>7. PendingCall(w, c)'
    BY <2>2, <2>4, <2>6 DEF PendingCall, InCall, Same
  <2>8. QED
    BY <2>1, <2>7
<1>2. QED
  BY <1>1, Zenon DEF PendingCalls

(***************************************************************************)
(* Replies: none gets a second holder.                                     *)
(***************************************************************************)
RepliesLeft == \A r \in Requests : \A k \in ReplyKinds : \A x \in Holders :
                 ReplyAt(r, k, x)' => ReplyAt(r, k, x)

LEMMA RepliesKept ==
  ASSUME OneReply, RepliesDue, RepliesLeft, executed' = executed
  PROVE  OneReply' /\ RepliesDue'
<1>1. OneReply'
  <2>1. SUFFICES ASSUME NEW r \in Requests, NEW k \in ReplyKinds, NEW l \in ReplyKinds,
                        NEW x \in Holders, NEW y \in Holders,
                        ReplyAt(r, k, x)', ReplyAt(r, l, y)'
                 PROVE  k = l /\ x = y
    BY Zenon DEF OneReply
  <2>2. ReplyAt(r, k, x) /\ ReplyAt(r, l, y)
    BY <2>1, Zenon DEF RepliesLeft
  <2>3. QED
    BY <2>2, Zenon DEF OneReply
<1>2. RepliesDue'
  <2>1. ASSUME NEW r \in Requests, NEW k \in ReplyKinds, NEW x \in Holders, ReplyAt(r, k, x)'
        PROVE  executed'[r] = 1
    BY <2>1, Zenon DEF RepliesDue, RepliesLeft
  <2>2. QED
    BY <2>1, Zenon DEF RepliesDue
<1>3. QED
  BY <1>1, <1>2

(* A reply passes from one holder to the next.                             *)
LEMMA ReplyMoves ==
  ASSUME OneReply, RepliesDue, executed' = executed, NEW q \in Requests,
         NEW k0 \in ReplyKinds, NEW x0 \in Holders, NEW k1 \in ReplyKinds, NEW x1 \in Holders,
         ReplyAt(q, k0, x0),
         \A r \in Requests : \A k \in ReplyKinds : \A x \in Holders :
           ReplyAt(r, k, x)' => \/ ReplyAt(r, k, x) /\ ~(r = q /\ k = k0 /\ x = x0)
                                \/ r = q /\ k = k1 /\ x = x1
  PROVE  OneReply' /\ RepliesDue'
<1>1. ASSUME NEW k \in ReplyKinds, NEW x \in Holders, ReplyAt(q, k, x)'
      PROVE  k = k1 /\ x = x1
  <2>1. ReplyAt(q, k, x) => k = k0 /\ x = x0
    BY Zenon DEF OneReply
  <2>2. QED
    BY <1>1, <2>1, Zenon
<1>2. ASSUME NEW r \in Requests, r # q, NEW k \in ReplyKinds, NEW x \in Holders, ReplyAt(r, k, x)'
      PROVE  ReplyAt(r, k, x)
  BY <1>2, Zenon
<1>3. OneReply'
  <2>1. SUFFICES ASSUME NEW r \in Requests, NEW k \in ReplyKinds, NEW l \in ReplyKinds,
                        NEW x \in Holders, NEW y \in Holders,
                        ReplyAt(r, k, x)', ReplyAt(r, l, y)'
                 PROVE  k = l /\ x = y
    BY Zenon DEF OneReply
  <2>2. CASE r = q
    BY <1>1, <2>1, <2>2, Zenon
  <2>3. CASE r # q
    <3>1. ReplyAt(r, k, x) /\ ReplyAt(r, l, y)
      BY <1>2, <2>1, <2>3, Zenon
    <3>2. QED
      BY <3>1, Zenon DEF OneReply
  <2>4. QED
    BY <2>2, <2>3
<1>4. RepliesDue'
  <2>1. ASSUME NEW r \in Requests, NEW k \in ReplyKinds, NEW x \in Holders, ReplyAt(r, k, x)'
        PROVE  executed[r] = 1
    <3>1. CASE r = q
      BY <3>1, Zenon DEF RepliesDue
    <3>2. CASE r # q
      BY <1>2, <2>1, <3>2, Zenon DEF RepliesDue
    <3>3. QED
      BY <3>1, <3>2
  <2>2. QED
    BY <2>1, Zenon DEF RepliesDue
<1>5. QED
  BY <1>3, <1>4

(* A method is executed, and a reply made.                                 *)
Executes(q) ==
  /\ executed[q] # 1 /\ executed'[q] = 1
  /\ \A r \in Requests : r # q => executed'[r] = executed[r]

OneMore(q, k1, x1) ==
  \A r \in Requests : \A k \in ReplyKinds : \A x \in Holders :
    ReplyAt(r, k, x)' => ReplyAt(r, k, x) \/ (r = q /\ k = k1 /\ x = x1)

LEMMA ReplyMade ==
  ASSUME OneReply, RepliesDue, NEW q \in Requests, Executes(q),
         NEW k1 \in ReplyKinds, NEW x1 \in Holders, OneMore(q, k1, x1)
  PROVE  OneReply' /\ RepliesDue'
<1>1. executed'[q] = 1 /\ \A r \in Requests : r # q => executed'[r] = executed[r]
  BY Zenon DEF Executes
<1>2. \A r \in Requests : \A k \in ReplyKinds : \A x \in Holders :
        ReplyAt(r, k, x)' => ReplyAt(r, k, x) \/ (r = q /\ k = k1 /\ x = x1)
  BY Zenon DEF OneMore
<1>3. ASSUME NEW k \in ReplyKinds, NEW x \in Holders, ReplyAt(q, k, x)
      PROVE  FALSE
  <2>1. executed[q] = 1
    BY <1>3, Zenon DEF RepliesDue
  <2>2. QED
    BY <2>1 DEF Executes
<1>4. OneReply'
  <2>1. SUFFICES ASSUME NEW r \in Requests, NEW k \in ReplyKinds, NEW l \in ReplyKinds,
                        NEW x \in Holders, NEW y \in Holders,
                        ReplyAt(r, k, x)', ReplyAt(r, l, y)'
                 PROVE  k = l /\ x = y
    BY Zenon DEF OneReply
  <2>2. CASE r = q
    BY <1>2, <1>3, <2>1, <2>2, Zenon
  <2>3. CASE r # q
    <3>1. ReplyAt(r, k, x) /\ ReplyAt(r, l, y)
      BY <1>2, <2>1, <2>3, Zenon
    <3>2. QED
      BY <3>1, Zenon DEF OneReply
  <2>4. QED
    BY <2>2, <2>3
<1>5. RepliesDue'
  <2>1. ASSUME NEW r \in Requests, NEW k \in ReplyKinds, NEW x \in Holders, ReplyAt(r, k, x)'
        PROVE  executed'[r] = 1
    <3>1. CASE r = q
      BY <1>1, <3>1, Zenon
    <3>2. CASE r # q
      <4>1. ReplyAt(r, k, x)
        BY <1>2, <2>1, <3>2, Zenon
      <4>2. executed[r] = 1 /\ executed'[r] = executed[r]
        BY <1>1, <3>2, <4>1, Zenon DEF RepliesDue
      <4>3. QED
        BY <4>2, Zenon
    <3>3. QED
      BY <3>1, <3>2
  <2>2. QED
    BY <2>1, Zenon DEF RepliesDue
<1>6. QED
  BY <1>4, <1>5

(* No call and no reply gets on its way.                                   *)
NoCallSent ==
  \A m \in Messages : Underway(m)' /\ msg'[m].type \in Calls => Underway(m)
NoReturnSent ==
  \A m \in Messages : Underway(m)' /\ msg'[m].type = "CALL_RETURN" => Underway(m)

TaskLeft(t) ==
  \A r \in Requests : (Keeps(t, r)' => Keeps(t, r)) /\ (Gives(t, r)' => Gives(t, r))

LEMMA SentBefore ==
  ASSUME BusInv, Kept, NoReturnSent, NEW m \in Messages, Underway(m)', msg'[m].type = "CALL_RETURN"
  PROVE  Underway(m) /\ m \notin Range(free) /\ Same(m)
<1>1. Underway(m)
  BY DEF NoReturnSent
<1>2. m \notin Range(free)
  BY <1>1, Located
<1>3. QED
  BY <1>1, <1>2 DEF Kept

LEMMA RepliesStay ==
  ASSUME BusInv, Kept, NoReturnSent, NEW t \in Tasks, Others(t), TaskLeft(t)
  PROVE  RepliesLeft
<1>1. SUFFICES ASSUME NEW r \in Requests, NEW k \in ReplyKinds, NEW x \in Holders,
                      ReplyAt(r, k, x)'
               PROVE  ReplyAt(r, k, x)
  BY Zenon DEF RepliesLeft
<1>2. CASE x \in Tasks /\ k = "kept" /\ Keeps(x, r)'
  <2>1. x # t => Keeps(x, r)
    BY <1>2 DEF Others, TaskKept, Keeps
  <2>2. x = t => Keeps(x, r)
    BY <1>2 DEF TaskLeft
  <2>3. QED
    BY <1>2, <2>1, <2>2 DEF ReplyAt
<1>3. CASE x \in Tasks /\ k = "given" /\ Gives(x, r)'
  <2>1. x # t => Gives(x, r)
    BY <1>3 DEF Others, TaskKept, Gives
  <2>2. x = t => Gives(x, r)
    BY <1>3 DEF TaskLeft
  <2>3. QED
    BY <1>3, <2>1, <2>2 DEF ReplyAt
<1>4. CASE x \in Messages /\ k = "sent" /\ Brings(x, r)'
  <2>1. Underway(x) /\ Same(x)
    BY <1>4, SentBefore DEF Brings
  <2>2. Brings(x, r)
    BY <1>4, <2>1 DEF Brings, Same
  <2>3. QED
    BY <1>4, <2>2 DEF ReplyAt
<1>5. QED
  BY <1>1, <1>2, <1>3, <1>4, Zenon DEF ReplyAt

LEMMA BringsKept ==
  ASSUME BusInv, BringsExpected, Kept, NoReturnSent, ExpectsKept
  PROVE  BringsExpected'
<1>1. ASSUME NEW m \in Messages, Underway(m)', msg'[m].type = "CALL_RETURN"
      PROVE  msg'[m].load \in Requests /\ Expects(msg[m].major, msg[m].seq, msg[m].load)'
  <2>1. Underway(m) /\ Same(m)
    BY <1>1, SentBefore
  <2>2. PICK w, s, r : w = msg[m].major /\ s = msg[m].seq /\ r = msg[m].load
    OBVIOUS
  <2>3. w \in Workers
    BY <2>2, MessageTypes DEF MessageSet
  <2>4. r \in Requests /\ Expects(w, s, r)
    BY <1>1, <2>1, <2>2 DEF BringsExpected, Same
  <2>5. Expects(w, s, r)'
    BY <2>3, <2>4 DEF ExpectsKept
  <2>6. w = msg'[m].major /\ s = msg'[m].seq /\ r = msg'[m].load
    BY <2>1, <2>2 DEF Same
  <2>7. QED
    BY <2>4, <2>5, <2>6
<1>2. QED
  BY <1>1, Zenon DEF BringsExpected

(* Kept calls, and replies about to be sent.                               *)
LEMMA KeepStays ==
  ASSUME BusInv, NEW u \in Tasks, KeepGood(u), Kept, AwaitsKept, deferred'[u] \subseteq deferred[u]
  PROVE  KeepGood(u)'
<1>1. ASSUME NEW d \in deferred'[u]
      PROVE  msg'[d.m].load = d.load /\ Awaits(d.m, msg[d.m].major)'
  <2>1. d.m \in Messages
    <3>1. deferred[u] \subseteq DeferredSet
      BY MessageTypes
    <3>2. QED
      BY <3>1 DEF DeferredSet
  <2>0. d \in deferred[u]
    OBVIOUS
  <2>2. PICK w : w = msg[d.m].major
    OBVIOUS
  <2>3. w \in Workers
    BY <2>1, <2>2, MessageTypes DEF MessageSet
  <2>4. msg[d.m].load = d.load /\ Awaits(d.m, w)
    BY <2>0, <2>2 DEF KeepGood
  <2>5. Same(d.m)
    BY <2>1, <2>3, <2>4, Located DEF Kept
  <2>6. Awaits(d.m, w)'
    BY <2>1, <2>3, <2>4 DEF AwaitsKept
  <2>7. QED
    BY <2>2, <2>4, <2>5, <2>6 DEF Same
<1>2. QED
  BY <1>1, Zenon DEF KeepGood

LEMMA GiveStays ==
  ASSUME BusInv, NEW u \in Tasks, GiveGood(u), ExpectsKept, pc'[u] = pc[u], arg'[u] = arg[u]
  PROVE  GiveGood(u)'
<1>1. SUFFICES ASSUME pc[u] \in Preparing, arg[u].type = "CALL_RETURN"
               PROVE  arg[u].load \in Requests /\ Expects(arg[u].major, arg[u].seq, arg[u].load)'
  BY Zenon DEF GiveGood
<1>2. PICK w, s, r : w = arg[u].major /\ s = arg[u].seq /\ r = arg[u].load
  OBVIOUS
<1>3. w \in Workers
  BY <1>2, MessageTypes DEF ArgumentSet
<1>4. r \in Requests /\ Expects(w, s, r)
  BY <1>1, <1>2 DEF GiveGood
<1>5. Expects(w, s, r)'
  BY <1>3, <1>4 DEF ExpectsKept
<1>6. QED
  BY <1>2, <1>4, <1>5

(* What is on record for the requests of a task that asks or was answered. *)
Recorded(u, r) ==
  \/ Asks(u) /\ r = <<u, issued[u]>>
  \/ (callSem[u] > 0 \/ (pc[u] = "op_end" /\ arg[u].type = "SYNC_CALL")) /\ r = op[u]

RecordKept(u) ==
  \A r \in Requests : Recorded(u, r) => executed'[r] = executed[r] /\ result'[r] = result[r]

LEMMA OtherTask ==
  ASSUME BusInv, NEW u \in Tasks, TaskGood(u), TaskKept(u), RecordKept(u), Kept,
         KeepGood(u)', GiveGood(u)'
  PROVE  TaskGood(u)'
<1>1. /\ pc'[u] = pc[u] /\ arg'[u] = arg[u] /\ ret'[u] = ret[u] /\ mine'[u] = mine[u]
      /\ op'[u] = op[u] /\ waitOn'[u] = waitOn[u] /\ issued'[u] = issued[u]
      /\ out'[u] = out[u] /\ callSem'[u] = callSem[u]
  BY DEF TaskKept
<1>2. AskGood(u) /\ CallGood(u) /\ WokenGood(u) /\ Answered(u)
  BY DEF TaskGood
<1>3. AskGood(u)'
  <2>1. SUFFICES ASSUME Asks(u)
                 PROVE  AskGood(u)'
    BY <1>1 DEF AskGood, Asks
  <2>2. PICK r : r = <<u, issued[u]>>
    OBVIOUS
  <2>3. /\ arg[u].load = r /\ arg[u].extra = r /\ arg[u].dst = NULL
        /\ r \in Requests /\ executed[r] = 0 /\ result[r] = NULL
        /\ arg[u].type = "SYNC_CALL" => op[u] = r
    BY <1>2, <2>1, <2>2, Zenon DEF AskGood
  <2>4. executed'[r] = 0 /\ result'[r] = NULL
    BY <2>1, <2>2, <2>3 DEF RecordKept, Recorded
  <2>5. <<u, issued'[u]>> = r
    BY <1>1, <2>2
  <2>6. QED
    BY <1>1, <2>3, <2>4, <2>5, Zenon DEF AskGood
<1>4. CallGood(u)'
  <2>1. ASSUME pc[u] = "invoke"
        PROVE  msg'[mine[u]].type = msg[mine[u]].type /\ msg'[mine[u]].load = msg[mine[u]].load
    <3>1. mine[u] \in Messages
      BY MessageTypes
    <3>2. Underway(mine[u])
      BY <2>1 DEF Underway, WithSender
    <3>3. Same(mine[u])
      BY <3>1, <3>2, Located DEF Kept
    <3>4. QED
      BY <3>3 DEF Same
  <2>2. QED
    BY <1>1, <1>2, <2>1 DEF CallGood
<1>5. WokenGood(u)' /\ Answered(u)'
  <2>1. CASE callSem[u] > 0 \/ (pc[u] = "op_end" /\ arg[u].type = "SYNC_CALL")
    <3>1. PICK r : r = op[u]
      OBVIOUS
    <3>2. r \in Requests
      BY <1>2, <2>1, <3>1 DEF CallGood, WokenGood, Sending
    <3>3. executed'[r] = executed[r] /\ result'[r] = result[r]
      BY <2>1, <3>1, <3>2 DEF RecordKept, Recorded
    <3>4. QED
      BY <1>1, <1>2, <3>1, <3>3 DEF WokenGood, Answered
  <2>2. CASE ~(callSem[u] > 0 \/ (pc[u] = "op_end" /\ arg[u].type = "SYNC_CALL"))
    BY <1>1, <2>2 DEF WokenGood, Answered
  <2>3. QED
    BY <2>1, <2>2
<1>6. QED
  BY <1>3, <1>4, <1>5 DEF TaskGood

(***************************************************************************)
(* Steps that make no call, no execution and no reply.                     *)
(***************************************************************************)
LEMMA OthersAsk ==
  ASSUME BusInv, NEW t \in Tasks, Others(t), AskKept(t)
  PROVE  \A u \in Tasks : AskKept(u)
<1>1. ASSUME NEW u \in Tasks, u # t
      PROVE  AskKept(u)
  <2>1. TaskKept(u)
    BY <1>1 DEF Others
  <2>2. pc'[u] = pc[u] /\ arg'[u] = arg[u] /\ issued'[u] = issued[u]
    BY <2>1 DEF TaskKept
  <2>3. issued[u] \in Nat
    BY MessageTypes
  <2>4. QED
    BY <2>2, <2>3 DEF AskKept, Asks
<1>2. QED
  BY <1>1

(* No request is made anew.                                                *)
LEMMA NewStay ==
  ASSUME BusInv, BusInv', NewRequests, \A u \in Tasks : AskKept(u),
         \A r \in Requests : r[2] > issued'[r[1]] => executed'[r] = executed[r] /\ result'[r] = result[r]
  PROVE  NewRequests'
<1>1. ASSUME NEW r \in Requests, r[2] > issued'[r[1]]
      PROVE  executed'[r] = 0 /\ result'[r] = NULL
  <2>1. r[1] \in Tasks /\ r[2] \in Nat
    BY RequestParts
  <2>2. issued \in [Tasks -> Nat] /\ issued' \in [Tasks -> Nat]
    BY DEF BusInv, TaskTypes
  <2>3. issued[r[1]] \in Nat /\ issued'[r[1]] \in Nat
    BY <2>1, <2>2
  <2>4. issued[r[1]] <= issued'[r[1]]
    BY <2>1 DEF AskKept
  <2>5. r[2] > issued[r[1]]
    BY <1>1, <2>1, <2>3, <2>4
  <2>6. executed[r] = 0 /\ result[r] = NULL
    BY <2>5, Zenon DEF NewRequests
  <2>7. QED
    BY <1>1, <2>6
<1>2. QED
  BY <1>1, Zenon DEF NewRequests

(* A caller other than the one that moves.                                 *)
LEMMA OtherCaller ==
  ASSUME NEW u, NEW r, TaskKept(u), result'[r] = result[r]
  PROVE  GoesOn(u, r)
BY DEF TaskKept, GoesOn, WaitsFor, NotCalled

LEMMA CallsGoOn ==
  ASSUME RemoteInv, BusInv', NEW t \in Tasks, Kept, CallsKept, NoCallSent, calls' = calls,
         Others(t), AskKept(t), Passed',
         \A r \in Requests : r[2] > issued'[r[1]] => executed'[r] = executed[r] /\ result'[r] = result[r],
         \A m \in Messages : InCall(m) /\ InCall(m)' /\ Underway(m)' =>
           executed'[msg[m].load] = executed[msg[m].load],
         \A m \in Messages, u \in Tasks, r \in Requests :
           /\ InCall(m) /\ InCall(m)' /\ Open(m) /\ Open(m)'
           /\ msg[m].src = u /\ msg[m].load = r
           => GoesOn(u, r)
  PROVE  CallPart'
<1>1. /\ BusInv /\ CallsNamed /\ OneMessage /\ NewRequests /\ NotExecuted /\ OpenCalls
      /\ PendingCalls
  BY DEF RemoteInv, CallPart
<1>2. \A u \in Tasks : AskKept(u)
  BY <1>1, OthersAsk
<1>3. CallsNamed' /\ OneMessage'
  BY <1>1, <1>2, NamesKept
<1>4. NewRequests'
  BY <1>1, <1>2, NewStay
<1>5. PendingCalls'
  BY <1>1, PendingKept
<1>6. \A m \in Messages : InCall(m)' => (Underway(m)' => Underway(m)) /\ (Open(m)' => Open(m))
  <2>1. SUFFICES ASSUME NEW m \in Messages, InCall(m)'
                 PROVE  (Underway(m)' => Underway(m)) /\ (Open(m)' => Open(m))
    OBVIOUS
  <2>2. Underway(m)' => Underway(m)
    BY <2>1 DEF NoCallSent, InCall
  <2>3. \A w : Awaits(m, w)' <=> Awaits(m, w)
    BY AwaitsSame
  <2>4. QED
    BY <2>2, <2>3, Zenon DEF Open
<1>7. NotExecuted' /\ OpenCalls'
  BY <1>1, <1>6, OpenKept
<1>8. QED
  BY <1>3, <1>4, <1>5, <1>7 DEF CallPart

LEMMA OrdinaryCalls ==
  ASSUME RemoteInv, BusInv', NEW t \in Tasks, Kept, CallsKept, NoCallSent, calls' = calls,
         executed' = executed, result' = result, Others(t), AskKept(t), CallerKept(t), Passed'
  PROVE  CallPart'
<1>1. ASSUME NEW m \in Messages, NEW u \in Tasks, NEW r \in Requests, InCall(m),
             msg[m].src = u, msg[m].load = r
      PROVE  GoesOn(u, r)
  <2>1. CallNamed(m)
    BY <1>1 DEF RemoteInv, CallPart, CallsNamed
  <2>2. u = r[1] /\ r[2] <= issued[u]
    BY <1>1, <2>1, Zenon DEF CallNamed
  <2>3. CASE u = t
    BY <2>2, <2>3 DEF CallerKept, GoesOn
  <2>4. CASE u # t
    <3>1. TaskKept(u)
      BY <2>4 DEF Others
    <3>2. QED
      BY <3>1, OtherCaller
  <2>5. QED
    BY <2>3, <2>4
<1>2. QED
  BY <1>1, CallsGoOn

(* Tasks that do not move.                                                 *)
LEMMA Onlookers ==
  ASSUME RemoteInv, NEW t \in Tasks, Kept, AwaitsKept, ExpectsKept, Others(t),
         \A u \in Tasks : u # t => RecordKept(u)
  PROVE  \A u \in Tasks : u # t => TaskGood(u)'
<1>1. SUFFICES ASSUME NEW u \in Tasks, u # t
               PROVE  TaskGood(u)'
  OBVIOUS
<1>2. TaskKept(u) /\ RecordKept(u) /\ TaskGood(u) /\ BusInv
  BY <1>1 DEF Others, RemoteInv, TaskPart
<1>3. KeepGood(u) /\ GiveGood(u) /\ deferred'[u] = deferred[u] /\ pc'[u] = pc[u] /\ arg'[u] = arg[u]
  BY <1>2 DEF TaskGood, TaskKept
<1>4. KeepGood(u)' /\ GiveGood(u)'
  BY <1>2, <1>3, KeepStays, GiveStays
<1>5. QED
  BY <1>2, <1>4, OtherTask

LEMMA Ordinary ==
  ASSUME RemoteInv, BusInv', NEW t \in Tasks, Kept, CallsKept, NoCallSent, NoReturnSent, calls' = calls,
         executed' = executed, result' = result, Others(t), AskKept(t), CallerKept(t), Passed',
         TaskLeft(t), deferred'[t] = deferred[t],
         AskGood(t)', CallGood(t)', WokenGood(t)', GiveGood(t)', Answered(t)'
  PROVE  RemoteInv'
<1>1. CallPart'
  BY OrdinaryCalls
<1>2. BusInv /\ OneReply /\ RepliesDue /\ BringsExpected
  BY DEF RemoteInv, ReplyPart
<1>3. AwaitsKept /\ ExpectsKept
  BY <1>2, AwaitsSame, ExpectsStays
<1>4. ReplyPart'
  <2>1. OneReply' /\ RepliesDue'
    BY <1>2, RepliesStay, RepliesKept
  <2>2. BringsExpected'
    BY <1>2, <1>3, BringsKept
  <2>3. QED
    BY <2>1, <2>2 DEF ReplyPart
<1>5. \A u \in Tasks : u # t => TaskGood(u)'
  <2>1. \A u \in Tasks : RecordKept(u)
    BY DEF RecordKept
  <2>2. QED
    BY <1>3, <2>1, Onlookers
<1>6. TaskGood(t)'
  <2>1. KeepGood(t)
    BY DEF RemoteInv, TaskPart, TaskGood
  <2>2. KeepGood(t)'
    BY <1>2, <1>3, <2>1, KeepStays
  <2>3. QED
    BY <2>2 DEF TaskGood
<1>7. TaskPart'
  <2>1. ASSUME NEW u \in Tasks
        PROVE  TaskGood(u)'
    BY <1>5, <1>6
  <2>2. QED
    BY <2>1, Zenon DEF TaskPart
<1>8. QED
  BY <1>1, <1>4, <1>7 DEF RemoteInv

(***************************************************************************)
(* Steps that write no message: only counts change.                        *)
(***************************************************************************)
CountsOnly == \A m \in Messages : Same(m) /\ msg'[m].dst = msg[m].dst

QueuesShrink == \A u \in Tasks : Range(queue'[u]) \subseteq Range(queue[u])

(* What a quiet step of task t leaves alone.                               *)
Still(t) ==
  /\ CountsOnly /\ Range(free) \subseteq Range(free') /\ QueuesShrink
  /\ calls' = calls /\ Others(t) /\ pc'[t] # "invoke"
  /\ pc'[Bus] = "replicate" =>
       (pc[Bus] = "replicate" /\ cur'[Bus] = cur[Bus]) \/ msg[cur'[Bus]].type = "SIGNAL"

Quiet(t) == Still(t) /\ deferred'[t] = deferred[t] /\ executed' = executed /\ result' = result

LEMMA QuietMessages ==
  ASSUME BusInv, NEW t \in Tasks, CountsOnly, Range(free) \subseteq Range(free'), QueuesShrink,
         \A u \in Tasks : u # t => pc'[u] = pc[u] /\ mine'[u] = mine[u],
         pc'[t] # "invoke"
  PROVE  Kept /\ CallsKept /\ NoCallSent /\ NoReturnSent /\ \A m \in Messages : Underway(m)' => Underway(m)
<1>1. Kept
  BY DEF Kept, CountsOnly
<1>2. CallsKept
  BY <1>1, NoCallMade
<1>3. ASSUME NEW m \in Messages, Underway(m)'
      PROVE  Underway(m)
  <2>1. CASE InQueue(m)'
    <3>1. InQueue(m)
      BY <2>1 DEF InQueue, QueuesShrink
    <3>2. QED
      BY <3>1 DEF Underway
  <2>2. CASE WithSender(m)'
    <3>1. WithSender(m)
      BY <2>2 DEF WithSender
    <3>2. QED
      BY <3>1 DEF Underway
  <2>3. QED
    BY <1>3, <2>1, <2>2 DEF Underway
<1>4. QED
  BY <1>1, <1>2, <1>3 DEF NoCallSent, NoReturnSent

LEMMA QuietPassed ==
  ASSUME RemoteInv, BusInv', NEW t \in Tasks, Still(t)
  PROVE  Passed'
<1>1. Passed /\ BusInv
  BY DEF RemoteInv, CallPart
<1>2. /\ pc \in [Tasks -> Labels] /\ mine \in [Tasks -> Messages] /\ cur' \in [Tasks -> Messages]
      /\ queue \in [Tasks -> Seq(Messages)] /\ msg \in [Messages -> MessageSet]
      /\ cur \in [Tasks -> Messages]
  BY <1>1 DEF BusInv, PoolTypes, TaskTypes
<1>3. \A u \in Tasks : u # t => pc'[u] = pc[u] /\ mine'[u] = mine[u]
  BY DEF Still, Others, TaskKept
<1>4. /\ CountsOnly /\ QueuesShrink /\ calls' = calls /\ pc'[t] # "invoke"
      /\ pc'[Bus] = "replicate" =>
           (pc[Bus] = "replicate" /\ cur'[Bus] = cur[Bus]) \/ msg[cur'[Bus]].type = "SIGNAL"
  BY DEF Still
<1>5. ASSUME NEW w \in Workers, NEW m \in Range(queue'[w]), msg'[m].type \in Calls
      PROVE  Awaits(m, msg[m].major)'
  <2>1. w \in Tasks
    BY Names
  <2>2. m \in Range(queue[w]) /\ m \in Messages
    <3>1. m \in Range(queue[w])
      BY <1>4, <1>5, <2>1 DEF QueuesShrink
    <3>2. Range(queue[w]) \subseteq Messages
      BY <1>2, <2>1, RangeWithin
    <3>3. QED
      BY <3>1, <3>2
  <2>3. Same(m)
    BY <1>4, <2>2 DEF CountsOnly
  <2>4. Awaits(m, msg[m].major)
    BY <1>1, <1>5, <2>2, <2>3 DEF Passed, Same
  <2>5. QED
    BY <1>4, <2>3, <2>4 DEF Awaits, Same
<1>6. ASSUME NEW u \in Tasks, pc'[u] = "invoke", msg'[mine'[u]].type \in Calls
      PROVE  msg'[mine'[u]].dst = NULL
  <2>1. u # t /\ pc[u] = "invoke" /\ mine'[u] = mine[u] /\ mine[u] \in Messages
    BY <1>2, <1>3, <1>4, <1>6
  <2>2. msg'[mine[u]].type = msg[mine[u]].type /\ msg'[mine[u]].dst = msg[mine[u]].dst
    BY <1>4, <2>1 DEF CountsOnly, Same
  <2>3. QED
    BY <1>1, <1>6, <2>1, <2>2 DEF Passed
<1>7. ASSUME pc'[Bus] = "replicate"
      PROVE  msg'[cur'[Bus]].type = "SIGNAL"
  <2>1. cur'[Bus] \in Messages
    BY <1>2, Names
  <2>2. msg'[cur'[Bus]].type = msg[cur'[Bus]].type
    BY <1>4, <2>1 DEF CountsOnly, Same
  <2>3. msg[cur'[Bus]].type = "SIGNAL"
    BY <1>1, <1>4, <1>7 DEF Passed
  <2>4. QED
    BY <2>2, <2>3
<1>8. QED
  BY <1>5, <1>6, <1>7, Zenon DEF Passed

LEMMA QuietStep ==
  ASSUME RemoteInv, BusInv', NEW t \in Tasks, Quiet(t),
         AskKept(t), CallerKept(t), TaskLeft(t),
         AskGood(t)', CallGood(t)', WokenGood(t)', GiveGood(t)', Answered(t)'
  PROVE  RemoteInv'
<1>1. BusInv
  BY DEF RemoteInv
<1>2. \A u \in Tasks : u # t => pc'[u] = pc[u] /\ mine'[u] = mine[u]
  BY DEF Quiet, Still, Others, TaskKept
<1>3. Kept /\ CallsKept /\ NoCallSent /\ NoReturnSent
  BY <1>1, <1>2, QuietMessages DEF Quiet, Still
<1>4. Passed'
  BY QuietPassed DEF Quiet
<1>5. QED
  BY <1>3, <1>4, Ordinary DEF Quiet, Still

(***************************************************************************)
(* The task that moves.                                                    *)
(***************************************************************************)
LEMMA NotWoken ==
  ASSUME RemoteInv, NEW t \in Tasks, pc[t] \notin {"test", "pend"}
  PROVE  callSem[t] = 0
<1>1. WokenGood(t) /\ callSem[t] \in Nat
  BY MessageTypes DEF RemoteInv, TaskPart, TaskGood
<1>2. QED
  BY <1>1 DEF WokenGood

(* A task that does not send and makes no request is in order.             *)
LEMMA Resting ==
  ASSUME NEW t, pc'[t] \notin Sending \cup {"op_end"}, callSem'[t] = 0
  PROVE  /\ AskGood(t)' /\ CallGood(t)' /\ WokenGood(t)' /\ GiveGood(t)' /\ Answered(t)'
         /\ ~Asks(t)' /\ \A r : ~Gives(t, r)'
<1>1. pc'[t] \notin Preparing /\ pc'[t] \notin {"op_end", "pend", "invoke", "seq_inc", "seq_ret"}
  BY DEF Preparing, Sending
<1>2. ~Asks(t)' /\ \A r : ~Gives(t, r)'
  BY <1>1 DEF Asks, Gives
<1>3. AskGood(t)'
  BY <1>2 DEF AskGood
<1>4. CallGood(t)'
  BY <1>1 DEF CallGood
<1>5. WokenGood(t)'
  BY DEF WokenGood
<1>6. GiveGood(t)' /\ Answered(t)'
  BY <1>1 DEF GiveGood, Answered
<1>7. QED
  BY <1>2, <1>3, <1>4, <1>5, <1>6

LEMMA CallerSettled ==
  ASSUME NEW t, pc[t] \notin {"invoke", "test", "pend"},
         \A r \in Requests : op'[t] = r /\ r[2] <= issued[t] =>
           arg'[t].type # "SYNC_CALL" \/ (op[t] = r /\ arg'[t] = arg[t])
  PROVE  CallerKept(t)
BY DEF CallerKept, WaitsFor, NotCalled

LEMMA QuietRest ==
  ASSUME RemoteInv, BusInv', NEW t \in Tasks, Quiet(t),
         pc[t] \notin {"invoke", "test", "pend"}, pc'[t] \notin Sending \cup {"op_end"},
         issued'[t] = issued[t], arg'[t] = arg[t], op'[t] = op[t] \/ op'[t] = NULL,
         callSem'[t] = callSem[t]
  PROVE  RemoteInv'
<1>1. callSem'[t] = 0
  BY NotWoken
<1>2. /\ AskGood(t)' /\ CallGood(t)' /\ WokenGood(t)' /\ GiveGood(t)' /\ Answered(t)'
      /\ ~Asks(t)' /\ \A r : ~Gives(t, r)'
  BY <1>1, Resting
<1>3. issued[t] \in Nat
  BY MessageTypes DEF RemoteInv
<1>4. AskKept(t)
  BY <1>2, <1>3 DEF AskKept
<1>5. CallerKept(t)
  BY CallerSettled, NullAssumption
<1>6. TaskLeft(t)
  BY <1>2 DEF TaskLeft, Quiet, Still, Keeps
<1>7. QED
  BY <1>2, <1>4, <1>5, <1>6, QuietStep

(* A task begins to send something of its own.                             *)
LEMMA QuietAsk ==
  ASSUME RemoteInv, BusInv', NEW t \in Tasks, Quiet(t),
         pc[t] = "idle", pc'[t] = "seq_inc", callSem'[t] = callSem[t],
         issued[t] < Budget[t], issued'[t] = issued[t] + 1,
         NEW id, id = <<t, issued[t] + 1>>,
         arg'[t].type # "CALL_RETURN",
         arg'[t].type \in Calls =>
           arg'[t].load = id /\ arg'[t].extra = id /\ arg'[t].dst = NULL,
         arg'[t].type = "SYNC_CALL" => t \in Workers /\ op'[t] = id /\ ret'[t] = "op_end",
         op'[t] = id \/ (op'[t] = op[t] /\ arg'[t].type # "SYNC_CALL")
  PROVE  RemoteInv'
<1>1. callSem'[t] = 0
  BY NotWoken
<1>2. issued[t] \in Nat /\ BusInv /\ NewRequests
  BY MessageTypes DEF RemoteInv, CallPart
<1>3. id \in Requests
  <2>1. issued \in [Tasks -> Nat]
    BY <1>2, MessageTypes
  <2>2. <<t, issued[t] + 1>> \in Requests
    BY <2>1, NewRequest
  <2>3. QED
    BY <2>2
<1>4. id[1] = t /\ id[2] = issued[t] + 1
  OBVIOUS
<1>5. executed[id] = 0 /\ result[id] = NULL
  BY <1>2, <1>3, <1>4 DEF NewRequests
<1>6. AskGood(t)'
  <2>1. <<t, issued'[t]>> = id
    OBVIOUS
  <2>2. executed' = executed /\ result' = result
    BY DEF Quiet, Still
  <2>3. QED
    BY <1>3, <1>5, <2>1, <2>2, Zenon DEF AskGood, Asks, Calls
<1>7. CallGood(t)'
  <2>1. pc'[t] # "op_end" /\ pc'[t] # "pend" /\ pc'[t] # "invoke"
    OBVIOUS
  <2>2. id[2] <= issued'[t]
    BY <1>2, <1>4
  <2>3. QED
    BY <1>3, <1>4, <2>1, <2>2 DEF CallGood, Calls
<1>8. WokenGood(t)' /\ GiveGood(t)' /\ Answered(t)' /\ \A r : ~Gives(t, r)'
  BY <1>1 DEF WokenGood, GiveGood, Answered, Gives
<1>9. AskKept(t)
  BY <1>2 DEF AskKept
<1>10. CallerKept(t)
  <2>1. ASSUME NEW r \in Requests, op'[t] = r, r[2] <= issued[t]
        PROVE  arg'[t].type # "SYNC_CALL"
    BY <1>2, <1>4, <2>1
  <2>2. QED
    BY <2>1, CallerSettled
<1>11. TaskLeft(t)
  BY <1>8 DEF TaskLeft, Quiet, Still, Keeps
<1>12. QED
  BY <1>6, <1>7, <1>8, <1>9, <1>10, <1>11, QuietStep

(***************************************************************************)
(* The actions, one by one.                                                *)
(***************************************************************************)
LEMMA NothingWritten ==
  ASSUME UNCHANGED <<msg, free, queue>>
  PROVE  CountsOnly /\ Range(free) \subseteq Range(free') /\ QueuesShrink
BY DEF CountsOnly, Same, QueuesShrink

LEMMA RemoteMakeRequest ==
  ASSUME RemoteInv, BusInv', NEW w \in Workers, NEW o \in Ops[w], MakeRequest(w, o)
  PROVE  RemoteInv'
<1> DEFINE id == <<w, issued[w] + 1>>
<1>1. PICK a : a = [type |-> o.type, major |-> o.major, minor |-> o.minor, dst |-> o.dst, seq |-> 0,
                    load |-> IF o.type = "SUBSCRIBE" THEN NULL ELSE id,
                    extra |-> CASE o.type \in Calls -> id
                                [] o.type = "SUBSCRIBE" -> w
                                [] OTHER -> NULL]
  OBVIOUS
<1>2. /\ pc[w] = "idle" /\ issued[w] < Budget[w]
      /\ issued' = [issued EXCEPT ![w] = issued[w] + 1]
      /\ arg' = [arg EXCEPT ![w] = a] /\ ret' = [ret EXCEPT ![w] = "op_end"]
      /\ op' = [op EXCEPT ![w] = id] /\ out' = [out EXCEPT ![w] = GARBAGE]
      /\ pc' = [pc EXCEPT ![w] = "seq_inc"]
  BY <1>1 DEF MakeRequest, At, Send, Set, Goto
<1>3. /\ UNCHANGED <<msg, free, queue, callSem, calls, cur, mine, waitOn, deferred>>
      /\ UNCHANGED <<executed, result>>
  BY DEF MakeRequest, poolVars, busVars, history
<1>4. o.type \in Types \ {"CALL_RETURN"} /\ (o.dst # NULL => o.type = "SIGNAL")
  BY OpsAssumption
<1>5. /\ a.type # "CALL_RETURN"
      /\ a.type \in Calls => a.load = id /\ a.extra = id /\ a.dst = NULL
  BY <1>1, <1>4 DEF Calls
<1> HIDE DEF id
<1>6. /\ w \in Tasks /\ pc \in [Tasks -> Labels] /\ issued \in [Tasks -> Nat]
      /\ arg \in [Tasks -> ArgumentSet] /\ ret \in [Tasks -> Returns]
      /\ op \in [Tasks -> Requests \cup {NULL}] /\ out \in [Tasks -> Values]
  BY Names DEF RemoteInv, BusInv, TaskTypes
<1>7. /\ pc'[w] = "seq_inc" /\ issued'[w] = issued[w] + 1 /\ arg'[w] = a /\ ret'[w] = "op_end"
      /\ op'[w] = id
  BY <1>2, <1>6
<1>8. Others(w)
  BY <1>2, <1>3, <1>6 DEF Others, TaskKept
<1>9. Quiet(w)
  <2>1. pc'[Bus] = "replicate" => pc[Bus] = "replicate" /\ cur'[Bus] = cur[Bus]
    BY <1>2, <1>3, <1>6, Names
  <2>2. QED
    BY <1>3, <1>7, <1>8, <2>1, NothingWritten DEF Quiet, Still
<1>10. QED
  BY <1>2, <1>3, <1>5, <1>6, <1>7, <1>9, QuietAsk DEF id

(* A task goes on while it sends, or returns from sending.                 *)
LEMMA QuietOn ==
  ASSUME NEW t \in Tasks, pc \in [Tasks -> Labels], NEW l, l # "invoke", l # "replicate",
         pc' = [pc EXCEPT ![t] = l],
         UNCHANGED <<msg, free, queue, calls, cur, mine, deferred, executed, result>>,
         UNCHANGED <<ret, op, issued, out>>,
         \A u \in Tasks : u # t =>
           arg'[u] = arg[u] /\ waitOn'[u] = waitOn[u] /\ callSem'[u] = callSem[u]
  PROVE  Quiet(t)
<1>1. Others(t)
  BY DEF Others, TaskKept
<1>2. pc'[Bus] = "replicate" => pc[Bus] = "replicate" /\ cur'[Bus] = cur[Bus]
  BY Names
<1>3. QED
  BY <1>1, <1>2, NothingWritten DEF Quiet, Still

LEMMA RemoteSequenceIncrement ==
  ASSUME RemoteInv, BusInv', NEW t \in Tasks, SequenceIncrement(t)
  PROVE  RemoteInv'
<1>1. /\ pc[t] = "seq_inc" /\ pc' = [pc EXCEPT ![t] = "seq_ret"]
      /\ UNCHANGED <<msg, free, queue, calls, cur, mine, deferred, executed, result>>
      /\ UNCHANGED <<ret, op, issued, out>> /\ UNCHANGED <<arg, waitOn, callSem>>
  BY DEF SequenceIncrement, At, Goto, poolVars, busVars, taskVars, history
<1>2. pc \in [Tasks -> Labels] /\ issued[t] \in Nat /\ TaskGood(t)
  BY MessageTypes DEF RemoteInv, TaskPart
<1>3. pc'[t] = "seq_ret"
  BY <1>1, <1>2
<1>4. Quiet(t)
  BY <1>1, <1>2, QuietOn
<1>5. callSem[t] = 0
  BY <1>1, NotWoken
<1>6. AskGood(t)' /\ CallGood(t)' /\ WokenGood(t)' /\ GiveGood(t)' /\ Answered(t)'
  <2>1. AskGood(t)'
    BY <1>1, <1>2, <1>3 DEF TaskGood, AskGood, Asks, Preparing
  <2>2. CallGood(t)'
    BY <1>1, <1>2, <1>3 DEF TaskGood, CallGood, Sending
  <2>3. WokenGood(t)' /\ GiveGood(t)' /\ Answered(t)'
    BY <1>1, <1>2, <1>3, <1>5 DEF TaskGood, CallGood, WokenGood, GiveGood, Answered
  <2>4. QED
    BY <2>1, <2>2, <2>3
<1>7. AskKept(t)
  BY <1>1, <1>2, <1>3 DEF AskKept, Asks, Preparing
<1>8. CallerKept(t)
  BY <1>1, CallerSettled
<1>9. TaskLeft(t)
  BY <1>1, <1>3 DEF TaskLeft, Keeps, Gives, Preparing
<1>10. QED
  BY <1>4, <1>6, <1>7, <1>8, <1>9, QuietStep

LEMMA RemoteSequenceReturn ==
  ASSUME RemoteInv, BusInv', NEW t \in Tasks, SequenceReturn(t)
  PROVE  RemoteInv'
<1>1. /\ pc[t] = "seq_ret" /\ pc' = [pc EXCEPT ![t] = "alloc"]
      /\ arg' = [arg EXCEPT ![t].seq = sequence]
      /\ UNCHANGED <<msg, free, queue, calls, cur, mine, deferred, executed, result>>
      /\ UNCHANGED <<ret, op, issued, out>> /\ UNCHANGED <<waitOn, callSem>>
  BY DEF SequenceReturn, At, Goto, poolVars, busVars, taskVars, history
<1>2. /\ pc \in [Tasks -> Labels] /\ issued[t] \in Nat /\ TaskGood(t)
      /\ arg \in [Tasks -> ArgumentSet] /\ arg[t] \in ArgumentSet
  BY MessageTypes DEF RemoteInv, TaskPart
<1>3. pc'[t] = "alloc" /\ \A u \in Tasks : u # t => arg'[u] = arg[u]
  BY <1>1, <1>2
<1>4. Quiet(t)
  BY <1>1, <1>2, <1>3, QuietOn
<1>5. callSem[t] = 0
  BY <1>1, NotWoken
<1>6. /\ arg'[t].type = arg[t].type /\ arg'[t].load = arg[t].load
      /\ arg'[t].extra = arg[t].extra /\ arg'[t].dst = arg[t].dst
  <2>1. arg'[t] = [arg[t] EXCEPT !.seq = sequence]
    BY <1>1, <1>2
  <2>2. QED
    BY <1>2, <2>1 DEF ArgumentSet
<1>7. arg[t].type # "CALL_RETURN"
  BY <1>1, <1>2 DEF TaskGood, CallGood
<1>8. AskGood(t)' /\ CallGood(t)' /\ WokenGood(t)' /\ GiveGood(t)' /\ Answered(t)'
  <2>1. AskGood(t)'
    BY <1>1, <1>2, <1>3, <1>6 DEF TaskGood, AskGood, Asks, Preparing
  <2>2. CallGood(t)'
    BY <1>1, <1>2, <1>3, <1>6, <1>7 DEF TaskGood, CallGood, Sending
  <2>3. WokenGood(t)' /\ GiveGood(t)' /\ Answered(t)'
    BY <1>1, <1>3, <1>5, <1>6, <1>7 DEF WokenGood, GiveGood, Answered
  <2>4. QED
    BY <2>1, <2>2, <2>3
<1>9. AskKept(t)
  BY <1>1, <1>2, <1>3, <1>6 DEF AskKept, Asks, Preparing
<1>10. CallerKept(t)
  BY <1>1, <1>6 DEF CallerKept, WaitsFor, NotCalled
<1>11. TaskLeft(t)
  BY <1>1, <1>6, <1>7 DEF TaskLeft, Keeps, Gives
<1>12. QED
  BY <1>4, <1>8, <1>9, <1>10, <1>11, QuietStep

(* The way out of send_message: to the handler's end, or to the worker's   *)
(* code with the reply of a synchronous call.                              *)
LEMMA QuietReturn ==
  ASSUME RemoteInv, BusInv', NEW t \in Tasks, pc' = [pc EXCEPT ![t] = ret[t]],
         UNCHANGED <<msg, free, queue, calls, cur, mine, deferred, executed, result>>,
         UNCHANGED <<ret, op, issued, out>>, UNCHANGED <<arg, waitOn>>,
         \A u \in Tasks : u # t => callSem'[u] = callSem[u],
         callSem'[t] = 0,
         arg[t].type = "SYNC_CALL" =>
           /\ callSem[t] > 0 /\ CallGood(t) /\ pc[t] = "pend"
  PROVE  RemoteInv'
<1>1. /\ pc \in [Tasks -> Labels] /\ issued[t] \in Nat /\ TaskGood(t) /\ ret[t] \in Returns
  BY MessageTypes DEF RemoteInv, TaskPart, BusInv, TaskTypes
<1>2. pc'[t] = ret[t] /\ pc'[t] \notin Sending /\ ret[t] # "invoke" /\ ret[t] # "replicate"
  BY <1>1 DEF Returns, Sending
<1>3. Quiet(t)
  BY <1>1, <1>2, QuietOn
<1>4. AskGood(t)' /\ CallGood(t)' /\ WokenGood(t)' /\ GiveGood(t)' /\ Answered(t)'
  <2>1. pc'[t] \notin Preparing /\ pc'[t] \notin {"pend", "invoke", "seq_inc", "seq_ret"}
    BY <1>2 DEF Preparing, Sending
  <2>2. AskGood(t)' /\ WokenGood(t)' /\ GiveGood(t)'
    BY <2>1 DEF AskGood, Asks, WokenGood, GiveGood
  <2>3. CallGood(t)'
    <3>1. arg[t].type = "SYNC_CALL" => /\ t \in Workers /\ op[t] \in Requests
                                       /\ op[t][1] = t /\ op[t][2] <= issued[t]
      BY DEF CallGood, Sending
    <3>2. QED
      BY <1>2, <2>1, <3>1 DEF CallGood
  <2>4. Answered(t)'
    BY <1>1 DEF Answered, TaskGood, WokenGood
  <2>5. QED
    BY <2>2, <2>3, <2>4
<1>5. AskKept(t)
  BY <1>1, <1>2 DEF AskKept, Asks, Preparing, Sending
<1>6. CallerKept(t)
  BY DEF CallerKept, WaitsFor, NotCalled
<1>7. TaskLeft(t)
  BY <1>2 DEF TaskLeft, Keeps, Gives, Preparing, Sending
<1>8. QED
  BY <1>3, <1>4, <1>5, <1>6, <1>7, QuietStep

LEMMA RemoteNoMessage ==
  ASSUME RemoteInv, BusInv', CallersServed, NEW t \in Tasks, NoMessage(t)
  PROVE  RemoteInv'
<1>1. /\ pc[t] = "alloc" /\ free = << >> /\ pc' = [pc EXCEPT ![t] = ret[t]]
      /\ UNCHANGED <<msg, free, queue, calls, cur, mine, deferred, executed, result>>
      /\ UNCHANGED <<ret, op, issued, out>> /\ UNCHANGED <<arg, waitOn, callSem>>
  BY DEF NoMessage, At, Goto, poolVars, busVars, taskVars, history
<1>2. arg[t].type # "SYNC_CALL"
  BY <1>1 DEF CallersServed
<1>3. callSem'[t] = 0
  BY <1>1, NotWoken
<1>4. QED
  BY <1>1, <1>2, <1>3, QuietReturn

LEMMA RemoteInvokePend ==
  ASSUME RemoteInv, BusInv', NEW t \in Tasks, InvokePend(t)
  PROVE  RemoteInv'
<1>1. /\ pc[t] = "pend" /\ callSem[waitOn[t]] > 0 /\ pc' = [pc EXCEPT ![t] = ret[t]]
      /\ callSem' = [callSem EXCEPT ![waitOn[t]] = callSem[waitOn[t]] - 1]
      /\ UNCHANGED <<msg, free, queue, calls, cur, mine, deferred, executed, result>>
      /\ UNCHANGED <<ret, op, issued, out>> /\ UNCHANGED <<arg, waitOn>>
  BY DEF InvokePend, At, Goto, poolVars, busVars, taskVars, history
<1>2. TaskGood(t) /\ callSem \in [Tasks -> Nat]
  BY MessageTypes DEF RemoteInv, TaskPart
<1>3. waitOn[t] = t /\ CallGood(t)
  BY <1>1, <1>2 DEF TaskGood, CallGood
<1>4. callSem[t] = 1
  BY <1>1, <1>2, <1>3 DEF TaskGood, WokenGood
<1>5. callSem'[t] = 0 /\ \A u \in Tasks : u # t => callSem'[u] = callSem[u]
  BY <1>1, <1>2, <1>3, <1>4
<1>6. QED
  BY <1>1, <1>3, <1>4, <1>5, QuietReturn

LEMMA RemoteInvokeTest ==
  ASSUME RemoteInv, BusInv', TestsOwnMessage, NEW t \in Tasks, InvokeTest(t)
  PROVE  RemoteInv'
<1>1. /\ pc[t] = "test"
      /\ UNCHANGED <<msg, free, queue, calls, cur, mine, deferred, executed, result>>
      /\ UNCHANGED <<ret, op, issued, out>> /\ UNCHANGED <<arg, callSem>>
  BY DEF InvokeTest, At, poolVars, busVars, history
<1>2. /\ TaskGood(t) /\ callSem[t] \in Nat /\ pc \in [Tasks -> Labels] /\ issued[t] \in Nat
      /\ waitOn \in [Tasks -> Tasks]
  BY MessageTypes DEF RemoteInv, TaskPart, BusInv, TaskTypes
<1>3. CASE arg[t].type = "SYNC_CALL"
  <2>1. msg[mine[t]].type = "SYNC_CALL" /\ msg[mine[t]].src = t
    BY <1>1, <1>3 DEF TestsOwnMessage
  <2>2. pc' = [pc EXCEPT ![t] = "pend"] /\ waitOn' = [waitOn EXCEPT ![t] = t]
    BY <2>1 DEF InvokeTest, Goto, Set
  <2>3. /\ pc'[t] = "pend" /\ waitOn'[t] = t
        /\ \A u \in Tasks : u # t => waitOn'[u] = waitOn[u]
    BY <1>2, <2>2
  <2>4. Quiet(t)
    BY <1>1, <1>2, <2>2, <2>3, QuietOn
  <2>5. AskGood(t)' /\ CallGood(t)' /\ WokenGood(t)' /\ GiveGood(t)' /\ Answered(t)'
    <3>1. AskGood(t)' /\ GiveGood(t)' /\ Answered(t)'
      BY <2>3 DEF AskGood, Asks, GiveGood, Answered, Preparing
    <3>2. CallGood(t)'
      BY <1>1, <1>2, <1>3, <2>3 DEF TaskGood, CallGood, Sending
    <3>3. WokenGood(t)'
      BY <1>1, <1>2, <2>3 DEF TaskGood, WokenGood
    <3>4. QED
      BY <3>1, <3>2, <3>3
  <2>6. AskKept(t)
    BY <1>1, <1>2, <2>3 DEF AskKept, Asks, Preparing
  <2>7. CallerKept(t)
    BY <1>1, <2>3 DEF CallerKept, WaitsFor, NotCalled
  <2>8. TaskLeft(t)
    BY <1>1, <2>3 DEF TaskLeft, Keeps, Gives, Preparing
  <2>9. QED
    BY <2>4, <2>5, <2>6, <2>7, <2>8, QuietStep
<1>4. CASE arg[t].type # "SYNC_CALL"
  <2>1. msg[mine[t]].type # "SYNC_CALL"
    BY <1>1, <1>4 DEF TestsOwnMessage
  <2>2. pc' = [pc EXCEPT ![t] = ret[t]] /\ waitOn' = waitOn
    BY <2>1 DEF InvokeTest, Goto
  <2>3. callSem'[t] = 0
    BY <1>1, <1>2, <1>4 DEF TaskGood, WokenGood
  <2>4. QED
    BY <1>1, <1>4, <2>2, <2>3, QuietReturn
<1>5. QED
  BY <1>3, <1>4

LEMMA OnlyCounts ==
  ASSUME BusInv, NEW x \in Messages, mblue_message_release(x)
  PROVE  CountsOnly /\ Range(free) \subseteq Range(free')
<1>1. msg \in [Messages -> MessageSet] /\ free \in Seq(Messages)
  BY DEF BusInv, PoolTypes
<1>2. /\ msg' = [msg EXCEPT ![x].ref = PutRef(x)]
      /\ free' = free \/ free' = Append(free, x)
  BY DEF mblue_message_release
<1>3. CountsOnly
  <2>1. ASSUME NEW m \in Messages
        PROVE  Same(m) /\ msg'[m].dst = msg[m].dst
    <3>1. msg[m] \in MessageSet
      BY <1>1
    <3>2. msg'[m] = msg[m] \/ msg'[m] = [msg[m] EXCEPT !.ref = PutRef(x)]
      BY <1>1, <1>2
    <3>3. QED
      BY <3>1, <3>2 DEF MessageSet, Same
  <2>2. QED
    BY <2>1 DEF CountsOnly
<1>4. Range(free) \subseteq Range(free')
  <2>1. Range(Append(free, x)) = Range(free) \cup {x}
    BY <1>1, EndAdded
  <2>2. QED
    BY <1>2, <2>1
<1>5. QED
  BY <1>3, <1>4

LEMMA OneTaken ==
  ASSUME BusInv, NEW t \in Tasks, queue[t] # << >>,
         queue' = [queue EXCEPT ![t] = Tail(queue[t])]
  PROVE  /\ QueuesShrink /\ Head(queue[t]) \in Messages
         /\ Head(queue[t]) \in Range(queue[t]) /\ Head(queue[t]) \notin Range(free)
         /\ \A u \in Tasks : Head(queue[t]) \notin Range(queue'[u])
<1>1. queue \in [Tasks -> Seq(Messages)] /\ OnePlace /\ NoRepeats
  BY DEF BusInv, PoolTypes, Accounts
<1>2. PICK x : x = Head(queue[t])
  OBVIOUS
<1>3. /\ x \in Messages /\ IsAt(x, "queue", t) /\ x \notin Range(free)
      /\ Range(Tail(queue[t])) = Range(queue[t]) \ {x}
      /\ \A u \in Tasks : u # t => x \notin Range(queue[u])
  BY <1>1, <1>2, QueueHead
<1>4. queue'[t] = Tail(queue[t]) /\ \A u \in Tasks : u # t => queue'[u] = queue[u]
  BY <1>1
<1>5. QueuesShrink
  BY <1>3, <1>4 DEF QueuesShrink
<1>6. x \in Range(queue[t])
  BY <1>3 DEF IsAt
<1>7. \A u \in Tasks : x \notin Range(queue'[u])
  BY <1>3, <1>4
<1>8. QED
  BY <1>2, <1>3, <1>5, <1>6, <1>7

(* A task goes to rest, or from one place of a handler to another.         *)
LEMMA QuietTo ==
  ASSUME NEW t \in Tasks, pc \in [Tasks -> Labels], cur \in [Tasks -> Messages],
         NEW l, pc' = [pc EXCEPT ![t] = l],
         l \notin Sending \cup {"op_end"},
         CountsOnly, Range(free) \subseteq Range(free'), QueuesShrink,
         UNCHANGED <<calls, deferred, executed, result>>,
         UNCHANGED <<ret, issued, waitOn>>, UNCHANGED <<arg, out, callSem>>,
         \A u \in Tasks : u # t => mine'[u] = mine[u] /\ cur'[u] = cur[u] /\ op'[u] = op[u],
         t = Bus /\ l = "replicate" => msg[cur'[Bus]].type = "SIGNAL"
  PROVE  Quiet(t)
<1>1. Others(t)
  BY DEF Others, TaskKept
<1>2. pc'[t] = l /\ l # "invoke" /\ \A u \in Tasks : u # t => pc'[u] = pc[u]
  BY DEF Sending
<1>3. ASSUME pc'[Bus] = "replicate"
      PROVE  (pc[Bus] = "replicate" /\ cur'[Bus] = cur[Bus]) \/ msg[cur'[Bus]].type = "SIGNAL"
  BY <1>2, <1>3, Names
<1>4. QED
  BY <1>1, <1>2, <1>3 DEF Quiet, Still

LEMMA RemoteRest ==
  ASSUME RemoteInv, BusInv', NEW t \in Tasks, NEW l, pc' = [pc EXCEPT ![t] = l],
         pc[t] \notin {"invoke", "test", "pend"}, l \notin Sending \cup {"op_end"},
         CountsOnly, Range(free) \subseteq Range(free'), QueuesShrink,
         UNCHANGED <<calls, deferred, executed, result>>,
         UNCHANGED <<ret, issued, waitOn>>, UNCHANGED <<arg, out, callSem>>,
         \A u \in Tasks : u # t => mine'[u] = mine[u] /\ cur'[u] = cur[u] /\ op'[u] = op[u],
         op'[t] = op[t] \/ op'[t] = NULL,
         t = Bus /\ l = "replicate" => msg[cur'[Bus]].type = "SIGNAL"
  PROVE  RemoteInv'
<1>1. pc \in [Tasks -> Labels] /\ cur \in [Tasks -> Messages]
  BY DEF RemoteInv, BusInv, TaskTypes
<1>2. Quiet(t)
  BY <1>1, QuietTo
<1>3. pc'[t] = l
  BY <1>1
<1>4. QED
  BY <1>2, <1>3, QuietRest

LEMMA RemoteHandlerEnd ==
  ASSUME RemoteInv, BusInv', NEW w \in Workers, HandlerEnd(w)
  PROVE  RemoteInv'
<1>1. /\ pc[w] = "handler_end" /\ mblue_message_release(cur[w])
      /\ pc' = [pc EXCEPT ![w] = "idle"]
      /\ UNCHANGED <<queue, calls, deferred, executed, result>>
      /\ UNCHANGED <<ret, issued, waitOn>> /\ UNCHANGED <<arg, out, callSem>>
      /\ UNCHANGED <<mine, cur, op>>
  BY DEF HandlerEnd, At, Goto, busVars, taskVars
<1>2. w \in Tasks /\ BusInv /\ cur[w] \in Messages /\ w # Bus
  BY Names, MessageTypes DEF RemoteInv
<1>3. CountsOnly /\ Range(free) \subseteq Range(free')
  BY <1>1, <1>2, OnlyCounts
<1>4. QueuesShrink
  BY <1>1 DEF QueuesShrink
<1>5. QED
  BY <1>1, <1>2, <1>3, <1>4, RemoteRest DEF Sending

LEMMA RemoteBusEnd ==
  ASSUME RemoteInv, BusInv', BusEnd
  PROVE  RemoteInv'
<1>1. /\ pc[Bus] = "bus_end" /\ mblue_message_release(cur[Bus])
      /\ pc' = [pc EXCEPT ![Bus] = "idle"]
      /\ UNCHANGED <<queue, calls, deferred, executed, result>>
      /\ UNCHANGED <<ret, issued, waitOn>> /\ UNCHANGED <<arg, out, callSem>>
      /\ UNCHANGED <<mine, cur, op>>
  BY DEF BusEnd, At, Goto, busVars, taskVars, history
<1>2. Bus \in Tasks /\ BusInv /\ cur[Bus] \in Messages
  BY Names, MessageTypes DEF RemoteInv
<1>3. CountsOnly /\ Range(free) \subseteq Range(free')
  BY <1>1, <1>2, OnlyCounts
<1>4. QueuesShrink
  BY <1>1 DEF QueuesShrink
<1>5. QED
  BY <1>1, <1>2, <1>3, <1>4, RemoteRest DEF Sending

LEMMA RemoteBusReleaseCall ==
  ASSUME RemoteInv, BusInv', BusReleaseCall
  PROVE  RemoteInv'
<1>1. /\ pc[Bus] = "release_call" /\ mblue_message_release(mine[Bus])
      /\ pc' = [pc EXCEPT ![Bus] = "bus_end"]
      /\ UNCHANGED <<queue, calls, deferred, executed, result>>
      /\ UNCHANGED <<ret, issued, waitOn>> /\ UNCHANGED <<arg, out, callSem>>
      /\ UNCHANGED <<mine, cur, op>>
  BY DEF BusReleaseCall, At, Goto, busVars, taskVars, history
<1>2. Bus \in Tasks /\ BusInv /\ mine[Bus] \in Messages
  BY Names, MessageTypes DEF RemoteInv
<1>3. CountsOnly /\ Range(free) \subseteq Range(free')
  BY <1>1, <1>2, OnlyCounts
<1>4. QueuesShrink
  BY <1>1 DEF QueuesShrink
<1>5. QED
  BY <1>1, <1>2, <1>3, <1>4, RemoteRest DEF Sending

LEMMA RemoteBusReplicateNull ==
  ASSUME RemoteInv, BusInv', BusReplicateNull
  PROVE  RemoteInv'
<1>1. /\ pc[Bus] = "replicate" /\ pc' = [pc EXCEPT ![Bus] = "dead"]
      /\ UNCHANGED <<msg, free, queue, calls, deferred, executed, result>>
      /\ UNCHANGED <<ret, issued, waitOn>> /\ UNCHANGED <<arg, out, callSem>>
      /\ UNCHANGED <<mine, cur, op>>
  BY DEF BusReplicateNull, At, Goto, poolVars, busVars, taskVars
<1>2. Bus \in Tasks
  BY Names
<1>3. CountsOnly /\ Range(free) \subseteq Range(free') /\ QueuesShrink
  BY <1>1, NothingWritten
<1>4. QED
  BY <1>1, <1>2, <1>3, RemoteRest DEF Sending

LEMMA RemoteHandleSignal ==
  ASSUME RemoteInv, BusInv', NEW w \in Workers, HandleSignal(w)
  PROVE  RemoteInv'
<1>1. /\ pc[w] = "idle" /\ queue[w] # << >>
      /\ pc' = [pc EXCEPT ![w] = "handler_end"]
      /\ cur' = [cur EXCEPT ![w] = Head(queue[w])]
      /\ queue' = [queue EXCEPT ![w] = Tail(queue[w])]
      /\ UNCHANGED <<msg, free, calls, deferred, executed, result>>
      /\ UNCHANGED <<ret, issued, waitOn>> /\ UNCHANGED <<arg, out, callSem>>
      /\ UNCHANGED <<mine, op>>
  BY DEF HandleSignal, Receive, At, Goto, Set, poolVars, busVars
<1>2. w \in Tasks /\ BusInv /\ w # Bus /\ cur \in [Tasks -> Messages]
  BY Names, MessageTypes DEF RemoteInv
<1>3. QueuesShrink /\ \A u \in Tasks : u # w => cur'[u] = cur[u]
  BY <1>1, <1>2, OneTaken
<1>4. CountsOnly /\ Range(free) \subseteq Range(free')
  BY <1>1 DEF CountsOnly, Same
<1>5. QED
  BY <1>1, <1>2, <1>3, <1>4, RemoteRest DEF Sending

LEMMA RemoteBusSignal ==
  ASSUME RemoteInv, BusInv', BusSignal
  PROVE  RemoteInv'
<1>1. /\ pc[Bus] = "idle" /\ queue[Bus] # << >> /\ msg[Head(queue[Bus])].type = "SIGNAL"
      /\ pc' = [pc EXCEPT ![Bus] = "replicate"]
      /\ cur' = [cur EXCEPT ![Bus] = Head(queue[Bus])]
      /\ queue' = [queue EXCEPT ![Bus] = Tail(queue[Bus])]
      /\ UNCHANGED <<msg, free, calls, deferred, executed, result>>
      /\ UNCHANGED <<ret, issued, waitOn>> /\ UNCHANGED <<arg, out, callSem>>
      /\ UNCHANGED <<mine, op>>
  BY DEF BusSignal, Receive, At, Goto, Set, poolVars, history
<1>2. Bus \in Tasks /\ BusInv /\ cur \in [Tasks -> Messages]
  BY Names, MessageTypes DEF RemoteInv
<1>3. QueuesShrink /\ \A u \in Tasks : u # Bus => cur'[u] = cur[u]
  BY <1>1, <1>2, OneTaken
<1>4. CountsOnly /\ Range(free) \subseteq Range(free')
  BY <1>1 DEF CountsOnly, Same
<1>5. msg[cur'[Bus]].type = "SIGNAL"
  BY <1>1, <1>2
<1>6. QED
  BY <1>1, <1>2, <1>3, <1>4, <1>5, RemoteRest DEF Sending

LEMMA RemoteBusReturnStray ==
  ASSUME RemoteInv, BusInv', BusReturnStray
  PROVE  RemoteInv'
<1>1. /\ pc[Bus] = "idle" /\ queue[Bus] # << >>
      /\ pc' = [pc EXCEPT ![Bus] = "bus_end"]
      /\ cur' = [cur EXCEPT ![Bus] = Head(queue[Bus])]
      /\ queue' = [queue EXCEPT ![Bus] = Tail(queue[Bus])]
      /\ UNCHANGED <<msg, free, calls, deferred, executed, result>>
      /\ UNCHANGED <<ret, issued, waitOn>> /\ UNCHANGED <<arg, out, callSem>>
      /\ UNCHANGED <<mine, op>>
  BY DEF BusReturnStray, Receive, At, Goto, Set, poolVars, busVars, history
<1>2. Bus \in Tasks /\ BusInv /\ cur \in [Tasks -> Messages]
  BY Names, MessageTypes DEF RemoteInv
<1>3. QueuesShrink /\ \A u \in Tasks : u # Bus => cur'[u] = cur[u]
  BY <1>1, <1>2, OneTaken
<1>4. CountsOnly /\ Range(free) \subseteq Range(free')
  BY <1>1 DEF CountsOnly, Same
<1>5. QED
  BY <1>1, <1>2, <1>3, <1>4, RemoteRest DEF Sending

LEMMA RemoteBusSubscribe ==
  ASSUME RemoteInv, BusInv', BusSubscribe
  PROVE  RemoteInv'
<1>1. /\ pc[Bus] = "idle" /\ queue[Bus] # << >>
      /\ mblue_message_release(Head(queue[Bus]))
      /\ cur' = [cur EXCEPT ![Bus] = Head(queue[Bus])]
      /\ queue' = [queue EXCEPT ![Bus] = Tail(queue[Bus])]
      /\ UNCHANGED <<pc, calls, deferred, executed, result>>
      /\ UNCHANGED <<ret, issued, waitOn>> /\ UNCHANGED <<arg, out, callSem>>
      /\ UNCHANGED <<mine, op>>
  BY DEF BusSubscribe, Receive, At, Set, history
<1>2. Bus \in Tasks /\ BusInv /\ cur \in [Tasks -> Messages] /\ pc \in [Tasks -> Labels]
  BY Names, MessageTypes DEF RemoteInv
<1>3. pc' = [pc EXCEPT ![Bus] = "idle"]
  BY <1>1, <1>2
<1>4. /\ QueuesShrink /\ Head(queue[Bus]) \in Messages
      /\ \A u \in Tasks : u # Bus => cur'[u] = cur[u]
  BY <1>1, <1>2, OneTaken
<1>5. CountsOnly /\ Range(free) \subseteq Range(free')
  BY <1>1, <1>2, <1>4, OnlyCounts
<1>6. QED
  BY <1>1, <1>2, <1>3, <1>4, <1>5, RemoteRest DEF Sending

(* The bus takes a message and logs what is wrong with it.                 *)
LEMMA RemoteLog ==
  ASSUME RemoteInv, BusInv', NEW label \in {"bus_end", "idle"},
         pc[Bus] = "idle", queue[Bus] # << >>, Logger(label),
         cur' = [cur EXCEPT ![Bus] = Head(queue[Bus])],
         queue' = [queue EXCEPT ![Bus] = Tail(queue[Bus])],
         UNCHANGED <<msg, free, calls, deferred, executed, result>>,
         UNCHANGED <<mine, op, waitOn, out, callSem>>
  PROVE  RemoteInv'
<1>1. Bus \in Tasks /\ BusInv /\ cur \in [Tasks -> Messages] /\ Bus \notin Workers
  BY Names, MessageTypes DEF RemoteInv
<1>2. QueuesShrink /\ \A u \in Tasks : u # Bus => cur'[u] = cur[u]
  BY <1>1, OneTaken
<1>3. CountsOnly /\ Range(free) \subseteq Range(free')
  BY DEF CountsOnly, Same
<1>4. CASE ~(issued[Bus] < Budget[Bus])
  <2>1. pc' = [pc EXCEPT ![Bus] = label] /\ UNCHANGED <<issued, arg, ret>>
    BY <1>4 DEF Logger, Goto
  <2>2. label \notin Sending \cup {"op_end"} /\ label # "replicate"
    BY DEF Sending
  <2>3. QED
    BY <1>1, <1>2, <1>3, <2>1, <2>2, RemoteRest
<1>5. CASE issued[Bus] < Budget[Bus]
  <2> DEFINE id == <<Bus, issued[Bus] + 1>>
  <2>1. PICK a : a = [type |-> "ASYNC_CALL", major |-> LogService, minor |-> "reply",
                      dst |-> NULL, seq |-> 0, load |-> id, extra |-> id]
    OBVIOUS
  <2>2. /\ issued' = [issued EXCEPT ![Bus] = issued[Bus] + 1]
        /\ arg' = [arg EXCEPT ![Bus] = a] /\ ret' = [ret EXCEPT ![Bus] = label]
        /\ pc' = [pc EXCEPT ![Bus] = "seq_inc"]
    BY <1>5, <2>1 DEF Logger, Send, Set, Goto
  <2>3. a.type = "ASYNC_CALL" /\ a.load = id /\ a.extra = id /\ a.dst = NULL
    BY <2>1
  <2> HIDE DEF id
  <2>4. /\ pc \in [Tasks -> Labels] /\ issued \in [Tasks -> Nat]
        /\ arg \in [Tasks -> ArgumentSet] /\ ret \in [Tasks -> Returns]
    BY <1>1 DEF BusInv, TaskTypes
  <2>5. pc'[Bus] = "seq_inc" /\ issued'[Bus] = issued[Bus] + 1 /\ arg'[Bus] = a
    BY <1>1, <2>2, <2>4
  <2>6. Others(Bus)
    BY <2>2, <2>4 DEF Others, TaskKept
  <2>7. Quiet(Bus)
    BY <1>1, <1>2, <1>3, <2>5, <2>6 DEF Quiet, Still
  <2>8. QED
    BY <1>1, <1>5, <2>3, <2>5, <2>7, QuietAsk DEF id
<1>6. QED
  BY <1>4, <1>5

LEMMA RemoteBusSignalNobody ==
  ASSUME RemoteInv, BusInv', BusSignalNobody
  PROVE  RemoteInv'
<1>1. /\ pc[Bus] = "idle" /\ queue[Bus] # << >> /\ Logger("bus_end")
      /\ cur' = [cur EXCEPT ![Bus] = Head(queue[Bus])]
      /\ queue' = [queue EXCEPT ![Bus] = Tail(queue[Bus])]
      /\ UNCHANGED <<msg, free, calls, deferred, executed, result>>
      /\ UNCHANGED <<mine, op, waitOn, out, callSem>>
  BY DEF BusSignalNobody, Receive, At, Set, poolVars, busVars, history
<1>2. QED
  BY <1>1, RemoteLog

LEMMA RemoteBusReturnNone ==
  ASSUME RemoteInv, BusInv', BusReturnNone
  PROVE  RemoteInv'
<1>1. /\ pc[Bus] = "idle" /\ queue[Bus] # << >> /\ Logger("bus_end")
      /\ cur' = [cur EXCEPT ![Bus] = Head(queue[Bus])]
      /\ queue' = [queue EXCEPT ![Bus] = Tail(queue[Bus])]
      /\ UNCHANGED <<msg, free, calls, deferred, executed, result>>
      /\ UNCHANGED <<mine, op, waitOn, out, callSem>>
  BY DEF BusReturnNone, Receive, At, Set, poolVars, busVars, history
<1>2. QED
  BY <1>1, RemoteLog

LEMMA RemoteBusCallUnknown ==
  ASSUME RemoteInv, BusInv', BusCallUnknown
  PROVE  RemoteInv'
<1>1. /\ pc[Bus] = "idle" /\ queue[Bus] # << >> /\ Logger("idle")
      /\ cur' = [cur EXCEPT ![Bus] = Head(queue[Bus])]
      /\ queue' = [queue EXCEPT ![Bus] = Tail(queue[Bus])]
      /\ UNCHANGED <<msg, free, calls, deferred, executed, result>>
      /\ UNCHANGED <<mine, op, waitOn, out, callSem>>
  BY DEF BusCallUnknown, Receive, At, Set, poolVars, busVars, history
<1>2. QED
  BY <1>1, RemoteLog

(* A synchronous request completes with the reply its caller was given.    *)
LEMMA RemoteSyncEnd ==
  ASSUME RemoteInv, BusInv', NEW w \in Workers, pc[w] = "op_end", arg[w].type = "SYNC_CALL",
         pc' = [pc EXCEPT ![w] = "idle"], op' = [op EXCEPT ![w] = NULL],
         result' = [result EXCEPT ![op[w]] = out[w]],
         UNCHANGED <<msg, free, queue, calls, deferred, executed>>,
         UNCHANGED <<ret, issued, waitOn>>, UNCHANGED <<arg, out, callSem>>,
         UNCHANGED <<mine, cur>>
  PROVE  RemoteInv'
<1>1. /\ w \in Tasks /\ BusInv /\ w # Bus /\ pc \in [Tasks -> Labels]
      /\ op \in [Tasks -> Requests \cup {NULL}] /\ result \in [Requests -> Values]
      /\ issued \in [Tasks -> Nat] /\ issued[w] \in Nat /\ TaskGood(w)
  BY Names, MessageTypes DEF RemoteInv, BusInv, TaskTypes, TaskPart
<1>2. PICK q : q = op[w]
  OBVIOUS
<1>3. q \in Requests /\ q[1] = w /\ q[2] <= issued[w]
  BY <1>1, <1>2 DEF TaskGood, CallGood
<1>4. /\ pc'[w] = "idle" /\ op'[w] = NULL
      /\ \A u \in Tasks : u # w => pc'[u] = pc[u] /\ op'[u] = op[u]
  BY <1>1
<1>5. \A r \in Requests : r # q => result'[r] = result[r]
  BY <1>1, <1>2
<1>6. Others(w)
  BY <1>4 DEF Others, TaskKept
<1>7. Still(w)
  <2>1. pc'[Bus] = "replicate" => pc[Bus] = "replicate" /\ cur'[Bus] = cur[Bus]
    BY <1>1, <1>4, Names
  <2>2. QED
    BY <1>4, <1>6, <2>1, NothingWritten DEF Still
<1>8. Kept /\ CallsKept /\ NoCallSent /\ NoReturnSent /\ Passed'
  <2>1. CountsOnly /\ Range(free) \subseteq Range(free') /\ QueuesShrink /\ pc'[w] # "invoke"
    BY <1>7 DEF Still
  <2>2. Kept /\ CallsKept /\ NoCallSent /\ NoReturnSent
    BY <1>1, <1>4, <2>1, QuietMessages
  <2>3. QED
    BY <1>1, <1>7, <2>2, QuietPassed
<1>9. callSem'[w] = 0
  BY <1>1, NotWoken
<1>10. /\ AskGood(w)' /\ CallGood(w)' /\ WokenGood(w)' /\ GiveGood(w)' /\ Answered(w)'
       /\ ~Asks(w)' /\ \A r : ~Gives(w, r)'
  BY <1>4, <1>9, Resting DEF Sending
<1>11. AskKept(w)
  BY <1>1, <1>10 DEF AskKept
<1>12. CallPart'
  <2>1. ASSUME NEW m \in Messages, NEW u \in Tasks, NEW r \in Requests, InCall(m), Open(m),
               msg[m].src = u, msg[m].load = r
        PROVE  GoesOn(u, r)
    <3>1. CallNamed(m) /\ OpenCall(m)
      BY <2>1 DEF RemoteInv, CallPart, CallsNamed, OpenCalls
    <3>2. u = r[1]
      BY <2>1, <3>1, Zenon DEF CallNamed
    <3>3. r # q
      BY <1>2, <1>3, <2>1, <3>1, <3>2 DEF OpenCall, InCall, Calls, WaitsFor, NotCalled
    <3>4. CASE u = w
      BY <1>4, <1>5, <3>3, <3>4, NullAssumption DEF GoesOn, WaitsFor, NotCalled
    <3>5. CASE u # w
      BY <1>5, <1>6, <3>3, <3>5, OtherCaller DEF Others
    <3>6. QED
      BY <3>4, <3>5
  <2>2. ASSUME NEW r \in Requests, r[2] > issued'[r[1]]
        PROVE  executed'[r] = executed[r] /\ result'[r] = result[r]
    <3>1. r[2] \in Nat
      BY RequestParts
    <3>2. r # q
      BY <1>1, <1>3, <2>2, <3>1
    <3>3. QED
      BY <1>5, <3>2
  <2>3. QED
    BY <1>1, <1>6, <1>8, <1>11, <2>1, <2>2, CallsGoOn
<1>13. AwaitsKept /\ ExpectsKept
  BY <1>1, <1>8, AwaitsSame, ExpectsStays
<1>14. ReplyPart'
  <2>1. TaskLeft(w)
    BY <1>10 DEF TaskLeft, Keeps
  <2>2. OneReply' /\ RepliesDue'
    BY <1>1, <1>6, <1>8, <2>1, RepliesStay, RepliesKept DEF RemoteInv, ReplyPart
  <2>3. BringsExpected'
    BY <1>1, <1>8, <1>13, BringsKept DEF RemoteInv, ReplyPart
  <2>4. QED
    BY <2>2, <2>3 DEF ReplyPart
<1>15. ASSUME NEW u \in Tasks, u # w
       PROVE  RecordKept(u)
  <2>1. ASSUME NEW r \in Requests, Recorded(u, r)
        PROVE  r # q
    <3>1. TaskGood(u)
      BY DEF RemoteInv, TaskPart
    <3>2. r[1] = u
      BY <2>1, <3>1 DEF Recorded, TaskGood, CallGood, WokenGood, Sending
    <3>3. QED
      BY <1>3, <1>15, <3>2
  <2>2. QED
    BY <1>5, <2>1 DEF RecordKept
<1>16. TaskPart'
  <2>1. \A u \in Tasks : u # w => TaskGood(u)'
    BY <1>1, <1>6, <1>8, <1>13, <1>15, Onlookers
  <2>2. KeepGood(w)'
    BY <1>1, <1>8, <1>13, KeepStays DEF TaskGood
  <2>3. TaskGood(w)'
    BY <1>10, <2>2 DEF TaskGood
  <2>4. ASSUME NEW u \in Tasks
        PROVE  TaskGood(u)'
    BY <2>1, <2>3
  <2>5. QED
    BY <2>4, Zenon DEF TaskPart
<1>17. QED
  BY <1>12, <1>14, <1>16 DEF RemoteInv

LEMMA RemoteRequestEnd ==
  ASSUME RemoteInv, BusInv', NEW w \in Workers, RequestEnd(w)
  PROVE  RemoteInv'
<1>1. /\ pc[w] = "op_end" /\ pc' = [pc EXCEPT ![w] = "idle"]
      /\ op' = [op EXCEPT ![w] = NULL]
      /\ result' = IF arg[w].type = "SYNC_CALL" THEN [result EXCEPT ![op[w]] = out[w]] ELSE result
      /\ UNCHANGED <<msg, free, queue, calls, deferred, executed>>
      /\ UNCHANGED <<ret, issued, waitOn>> /\ UNCHANGED <<arg, out, callSem>>
      /\ UNCHANGED <<mine, cur>>
  BY DEF RequestEnd, At, Goto, Set, poolVars, busVars
<1>2. /\ w \in Tasks /\ BusInv /\ w # Bus /\ pc \in [Tasks -> Labels]
      /\ op \in [Tasks -> Requests \cup {NULL}] /\ result \in [Requests -> Values]
      /\ issued[w] \in Nat
  BY Names, MessageTypes DEF RemoteInv, BusInv, TaskTypes
<1>3. /\ CountsOnly /\ Range(free) \subseteq Range(free') /\ QueuesShrink
      /\ op'[w] = NULL /\ \A u \in Tasks : u # w => op'[u] = op[u]
  BY <1>1, <1>2, NothingWritten
<1>4. CASE arg[w].type # "SYNC_CALL"
  <2>1. result' = result
    BY <1>1, <1>4
  <2>2. "idle" \notin Sending \cup {"op_end"}
    BY DEF Sending
  <2>3. QED
    BY <1>1, <1>2, <1>3, <2>1, <2>2, RemoteRest
<1>5. CASE arg[w].type = "SYNC_CALL"
  BY <1>1, <1>2, <1>3, <1>5, RemoteSyncEnd
<1>6. QED
  BY <1>4, <1>5

LEMMA AwaitedInCall ==
  ASSUME RemoteInv, NEW m \in Messages, NEW w \in Workers, Awaits(m, w)
  PROVE  InCall(m) /\ msg[m].major = w /\ Open(m)
<1>1. PICK i \in DOMAIN calls[w] : calls[w][i].m = m
  BY DEF Awaits
<1>2. PendingCall(w, calls[w][i])
  BY DEF RemoteInv, CallPart, PendingCalls
<1>3. QED
  BY <1>1, <1>2 DEF PendingCall, Open

(* A pending event answers the call it kept.                               *)
LEMMA RemoteAnswerDeferred ==
  ASSUME RemoteInv, BusInv', NEW w \in Workers, AnswerDeferred(w)
  PROVE  RemoteInv'
<1>1. PICK d \in deferred[w] :
        /\ deferred' = [deferred EXCEPT ![w] = deferred[w] \ {d}]
        /\ arg' = [arg EXCEPT ![w] = CallReturn(d.m, d.load)]
        /\ ret' = [ret EXCEPT ![w] = "idle"]
  BY DEF AnswerDeferred, Send, Set
<1>2. /\ pc[w] = "idle" /\ pc' = [pc EXCEPT ![w] = "alloc"]
      /\ UNCHANGED <<msg, free, queue, calls, executed, result>>
      /\ UNCHANGED <<issued, waitOn, op>> /\ UNCHANGED <<out, callSem>>
      /\ UNCHANGED <<mine, cur>>
  BY DEF AnswerDeferred, At, Goto, poolVars, busVars, history
<1>3. /\ w \in Tasks /\ BusInv /\ w # Bus /\ pc \in [Tasks -> Labels]
      /\ arg \in [Tasks -> ArgumentSet] /\ ret \in [Tasks -> Returns]
      /\ deferred \in [Tasks -> SUBSET DeferredSet] /\ issued[w] \in Nat /\ TaskGood(w)
      /\ OneReply /\ RepliesDue /\ BringsExpected
  BY Names, MessageTypes DEF RemoteInv, BusInv, TaskTypes, TaskPart, ReplyPart
<1>4. PICK a : a = CallReturn(d.m, d.load)
  OBVIOUS
<1>5. PICK q : q = d.load
  OBVIOUS
<1>6. /\ a.type = "CALL_RETURN" /\ a.major = msg[d.m].major
      /\ a.seq = msg[d.m].seq /\ a.load = q
  BY <1>4, <1>5 DEF CallReturn
<1>7. d.m \in Messages /\ q \in Requests /\ d = [m |-> d.m, load |-> q]
  <2>1. d \in DeferredSet
    BY <1>3
  <2>2. QED
    BY <1>5, <2>1 DEF DeferredSet
<1>8. /\ pc'[w] = "alloc" /\ arg'[w] = a /\ deferred'[w] = deferred[w] \ {d}
      /\ \A u \in Tasks : u # w => /\ pc'[u] = pc[u] /\ arg'[u] = arg[u] /\ ret'[u] = ret[u]
                                   /\ deferred'[u] = deferred[u]
  BY <1>1, <1>2, <1>3, <1>4
<1>9. Others(w)
  BY <1>2, <1>8 DEF Others, TaskKept
<1>10. Still(w)
  <2>1. pc'[Bus] = "replicate" => pc[Bus] = "replicate" /\ cur'[Bus] = cur[Bus]
    BY <1>2, <1>3, <1>8, Names
  <2>2. QED
    BY <1>2, <1>8, <1>9, <2>1, NothingWritten DEF Still
<1>11. Kept /\ CallsKept /\ NoCallSent /\ NoReturnSent /\ Passed'
  <2>1. CountsOnly /\ Range(free) \subseteq Range(free') /\ QueuesShrink /\ pc'[w] # "invoke"
    BY <1>10 DEF Still
  <2>2. Kept /\ CallsKept /\ NoCallSent /\ NoReturnSent
    BY <1>2, <1>3, <1>8, <2>1, QuietMessages
  <2>3. QED
    BY <1>3, <1>10, <2>2, QuietPassed
<1>12. AskKept(w) /\ ~Asks(w)'
  BY <1>2, <1>3, <1>6, <1>8 DEF AskKept, Asks, Calls
<1>13. CallerKept(w)
  BY <1>2, <1>6, <1>8, CallerSettled
<1>14. CallPart'
  BY <1>2, <1>3, <1>9, <1>11, <1>12, <1>13, OrdinaryCalls
<1>15. AwaitsKept /\ ExpectsKept
  BY <1>2, <1>3, <1>11, AwaitsSame, ExpectsStays
<1>16. msg[d.m].load = q /\ Awaits(d.m, msg[d.m].major)
  BY <1>3, <1>5 DEF TaskGood, KeepGood
<1>17. ASSUME NEW e \in deferred[w], e.load = q
       PROVE  e = d
  <2>1. e \in DeferredSet
    BY <1>3
  <2>2. e.m \in Messages /\ e = [m |-> e.m, load |-> q]
    BY <1>17, <2>1 DEF DeferredSet
  <2>3. msg[e.m].load = q /\ Awaits(e.m, msg[e.m].major)
    BY <1>3, <1>17 DEF TaskGood, KeepGood
  <2>4. msg[e.m].major \in Workers /\ msg[d.m].major \in Workers
    BY <1>3, <1>7, <2>2, MessageTypes DEF MessageSet
  <2>5. InCall(e.m) /\ InCall(d.m)
    <3>1. \A m \in Messages, v \in Workers : Awaits(m, v) => InCall(m)
      BY AwaitedInCall
    <3>2. QED
      BY <1>7, <1>16, <2>2, <2>3, <2>4, <3>1, Zenon
  <2>6. e.m = d.m
    BY <1>7, <1>16, <2>2, <2>3, <2>5 DEF RemoteInv, CallPart, OneMessage
  <2>7. QED
    BY <1>7, <2>2, <2>6
<1>18. OneReply' /\ RepliesDue'
  <2>1. ReplyAt(q, "kept", w) /\ "kept" \in ReplyKinds /\ "given" \in ReplyKinds /\ w \in Holders
    BY <1>3, <1>5 DEF ReplyAt, Keeps, ReplyKinds, Holders
  <2>2. ASSUME NEW r \in Requests, NEW k \in ReplyKinds, NEW x \in Holders, ReplyAt(r, k, x)'
        PROVE  \/ ReplyAt(r, k, x) /\ ~(r = q /\ k = "kept" /\ x = w)
               \/ r = q /\ k = "given" /\ x = w
    <3>1. CASE k = "kept" /\ x \in Tasks /\ Keeps(x, r)'
      <4>1. CASE x = w
        <5>1. Keeps(w, r) /\ r # q
          BY <1>8, <1>17, <3>1, <4>1 DEF Keeps
        <5>2. QED
          BY <3>1, <4>1, <5>1 DEF ReplyAt
      <4>2. CASE x # w
        BY <1>8, <3>1, <4>2 DEF ReplyAt, Keeps
      <4>3. QED
        BY <4>1, <4>2
    <3>2. CASE k = "given" /\ x \in Tasks /\ Gives(x, r)'
      <4>1. CASE x = w
        BY <1>6, <1>8, <3>2, <4>1 DEF Gives
      <4>2. CASE x # w
        BY <1>8, <3>2, <4>2 DEF ReplyAt, Gives
      <4>3. QED
        BY <4>1, <4>2
    <3>3. CASE k = "sent" /\ x \in Messages /\ Brings(x, r)'
      <4>1. Underway(x) /\ Same(x)
        BY <1>3, <1>11, <3>3, SentBefore DEF Brings
      <4>2. Brings(x, r)
        BY <3>3, <4>1 DEF Brings, Same
      <4>3. QED
        BY <3>3, <4>2 DEF ReplyAt
    <3>4. QED
      BY <2>2, <3>1, <3>2, <3>3, Zenon DEF ReplyAt
  <2>3. QED
    BY <1>2, <1>3, <1>7, <2>1, <2>2, ReplyMoves
<1>19. ReplyPart'
  BY <1>3, <1>11, <1>15, <1>18, BringsKept DEF ReplyPart
<1>20. GiveGood(w)'
  <2>1. Expects(a.major, a.seq, a.load)
    BY <1>6, <1>7, <1>16 DEF Expects
  <2>2. a.major \in Workers
    BY <1>3, <1>6, <1>7, MessageTypes DEF MessageSet
  <2>3. Expects(a.major, a.seq, a.load)'
    BY <1>15, <2>1, <2>2, Zenon DEF ExpectsKept
  <2>4. QED
    BY <1>6, <1>7, <1>8, <2>3 DEF GiveGood
<1>21. TaskGood(w)'
  <2>1. callSem'[w] = 0
    BY <1>2, <1>3, NotWoken
  <2>2. AskGood(w)' /\ CallGood(w)' /\ WokenGood(w)' /\ Answered(w)'
    BY <1>6, <1>8, <1>12, <2>1 DEF AskGood, CallGood, WokenGood, Answered
  <2>3. KeepGood(w)'
    BY <1>3, <1>8, <1>11, <1>15, KeepStays DEF TaskGood
  <2>4. QED
    BY <1>20, <2>2, <2>3 DEF TaskGood
<1>22. TaskPart'
  <2>1. \A u \in Tasks : RecordKept(u)
    BY <1>2 DEF RecordKept
  <2>2. \A u \in Tasks : u # w => TaskGood(u)'
    BY <1>3, <1>9, <1>11, <1>15, <2>1, Onlookers
  <2>3. ASSUME NEW u \in Tasks
        PROVE  TaskGood(u)'
    BY <1>21, <2>2
  <2>4. QED
    BY <2>3, Zenon DEF TaskPart
<1>23. QED
  BY <1>14, <1>19, <1>22 DEF RemoteInv

(* The call a worker takes from its queue: nobody executed it, and the bus *)
(* awaits its return.                                                      *)
LEMMA TakenCall ==
  ASSUME RemoteInv, NEW w \in Workers, queue[w] # << >>, NEW x, x = Head(queue[w]),
         msg[x].type \in Calls,
         queue' = [queue EXCEPT ![w] = Tail(queue[w])],
         NEW l, pc' = [pc EXCEPT ![w] = l], l # "invoke", mine' = mine
  PROVE  /\ x \in Messages /\ InCall(x) /\ CallNamed(x) /\ ~Underway(x)'
         /\ msg[x].load \in Requests /\ executed[msg[x].load] = 0
         /\ msg[x].major \in Workers /\ Awaits(x, msg[x].major)
<1>1. /\ w \in Tasks /\ BusInv /\ pc \in [Tasks -> Labels] /\ OnePlace
  BY Names, MessageTypes DEF RemoteInv, BusInv, Accounts
<1>2. /\ x \in Messages /\ x \in Range(queue[w]) /\ x \notin Range(free)
      /\ \A u \in Tasks : x \notin Range(queue'[u])
  BY <1>1, OneTaken
<1>3. InCall(x) /\ Underway(x)
  BY <1>1, <1>2 DEF InCall, Underway, InQueue
<1>4. CallNamed(x) /\ executed[msg[x].load] = 0
  BY <1>2, <1>3 DEF RemoteInv, CallPart, CallsNamed, NotExecuted
<1>5. msg[x].load \in Requests
  BY <1>4 DEF CallNamed
<1>6. msg[x].major \in Workers
  BY <1>1, <1>2, MessageTypes DEF MessageSet
<1>7. Awaits(x, msg[x].major)
  BY <1>2 DEF RemoteInv, CallPart, Passed
<1>8. ~WithSender(x)'
  <2>1. ASSUME NEW u \in Tasks, pc[u] = "invoke", mine[u] = x
        PROVE  FALSE
    <3>1. IsAt(x, "queue", w)
      BY <1>2 DEF IsAt
    <3>2. QED
      BY <1>1, <1>2, <2>1, <3>1, PlacesApart DEF Kinds
  <2>2. \A u \in Tasks : pc'[u] = "invoke" => pc[u] = "invoke"
    BY <1>1
  <2>3. QED
    BY <2>1, <2>2 DEF WithSender
<1>9. ~Underway(x)'
  BY <1>2, <1>8 DEF Underway, InQueue
<1>10. QED
  BY <1>2, <1>3, <1>4, <1>5, <1>6, <1>7, <1>9

(* A method is executed and its reply is given or kept.                    *)
LEMMA RemoteExecuted ==
  ASSUME RemoteInv, BusInv', NEW w \in Workers, pc[w] = "idle", queue[w] # << >>,
         NEW x, x = Head(queue[w]), msg[x].type \in Calls,
         NEW q, q = msg[x].load,
         cur' = [cur EXCEPT ![w] = x], queue' = [queue EXCEPT ![w] = Tail(queue[w])],
         executed' = [executed EXCEPT ![q] = executed[q] + 1],
         UNCHANGED <<msg, free, calls, result>>,
         UNCHANGED <<issued, waitOn, op>>, UNCHANGED <<out, callSem>>, mine' = mine,
         NEW l, pc' = [pc EXCEPT ![w] = l],
         \/ /\ l = "alloc" /\ deferred' = deferred
            /\ arg' = [arg EXCEPT ![w] = CallReturn(x, q)]
            /\ ret' = [ret EXCEPT ![w] = "handler_end"]
         \/ /\ l = "handler_end" /\ UNCHANGED <<arg, ret>>
            /\ deferred' = [deferred EXCEPT ![w] = deferred[w] \cup {[m |-> x, load |-> q]}]
  PROVE  RemoteInv'
<1>1. /\ w \in Tasks /\ BusInv /\ w # Bus /\ pc \in [Tasks -> Labels]
      /\ arg \in [Tasks -> ArgumentSet] /\ ret \in [Tasks -> Returns]
      /\ cur \in [Tasks -> Messages] /\ executed \in [Requests -> Nat]
      /\ deferred \in [Tasks -> SUBSET DeferredSet] /\ issued \in [Tasks -> Nat]
      /\ TaskGood(w) /\ OneReply /\ RepliesDue /\ BringsExpected
  BY Names, MessageTypes DEF RemoteInv, BusInv, TaskTypes, TaskPart, ReplyPart
<1>2. l # "invoke" /\ l # "replicate"
  OBVIOUS
<1>3. /\ x \in Messages /\ InCall(x) /\ CallNamed(x) /\ ~Underway(x)'
      /\ q \in Requests /\ executed[q] = 0
      /\ msg[x].major \in Workers /\ Awaits(x, msg[x].major)
  BY <1>2, TakenCall
<1>4. q[1] \in Tasks /\ q[2] <= issued[q[1]] /\ (Asks(q[1]) => q[2] < issued[q[1]])
  BY <1>3, RequestParts, Zenon DEF CallNamed
<1>5. /\ pc'[w] = l
      /\ \A u \in Tasks : u # w => /\ pc'[u] = pc[u] /\ arg'[u] = arg[u] /\ ret'[u] = ret[u]
                                   /\ deferred'[u] = deferred[u] /\ cur'[u] = cur[u]
  BY <1>1
<1>6. PICK a : a = CallReturn(x, q)
  OBVIOUS
<1>7. /\ a.type = "CALL_RETURN" /\ a.major = msg[x].major /\ a.seq = msg[x].seq /\ a.load = q
  BY <1>6 DEF CallReturn
<1>8. \/ l = "alloc" /\ arg'[w] = a /\ deferred'[w] = deferred[w]
      \/ l = "handler_end" /\ arg'[w] = arg[w] /\ deferred'[w] = deferred[w] \cup {[m |-> x, load |-> q]}
  BY <1>1, <1>6
<1>9. executed'[q] = 1 /\ \A r \in Requests : r # q => executed'[r] = executed[r]
  BY <1>1, <1>3
<1>10. Others(w)
  BY <1>5 DEF Others, TaskKept
<1>11. Still(w)
  <2>1. pc'[Bus] = "replicate" => pc[Bus] = "replicate" /\ cur'[Bus] = cur[Bus]
    BY <1>1, <1>5, Names
  <2>2. QueuesShrink
    BY <1>1, OneTaken
  <2>3. CountsOnly /\ Range(free) \subseteq Range(free')
    BY DEF CountsOnly, Same
  <2>4. QED
    BY <1>2, <1>5, <1>10, <2>1, <2>2, <2>3 DEF Still
<1>12. Kept /\ CallsKept /\ NoCallSent /\ NoReturnSent /\ Passed'
  <2>1. CountsOnly /\ Range(free) \subseteq Range(free') /\ QueuesShrink /\ pc'[w] # "invoke"
    BY <1>11 DEF Still
  <2>2. Kept /\ CallsKept /\ NoCallSent /\ NoReturnSent
    BY <1>1, <1>5, <2>1, QuietMessages
  <2>3. QED
    BY <1>1, <1>11, <2>2, QuietPassed
<1>13. ~Asks(w)' /\ AskKept(w)
  <2>1. ~Asks(w)'
    BY <1>5, <1>7, <1>8 DEF Asks, Preparing, Calls
  <2>2. QED
    BY <1>1, <2>1 DEF AskKept
<1>14. CallPart'
  <2>1. ASSUME NEW r \in Requests, r[2] > issued'[r[1]]
        PROVE  executed'[r] = executed[r] /\ result'[r] = result[r]
    <3>1. r # q
      <4>1. issued[q[1]] \in Nat /\ q[2] \in Nat
        BY <1>1, <1>3, <1>4, RequestParts
      <4>2. issued' = issued
        BY <1>1
      <4>3. PICK n, k \in Nat : n = q[2] /\ k = issued[q[1]]
        BY <4>1
      <4>4. n <= k
        BY <1>4, <4>3
      <4>5. r = q => n > k
        BY <2>1, <4>2, <4>3
      <4>6. QED
        BY <4>4, <4>5
    <3>2. QED
      BY <1>9, <3>1
  <2>2. ASSUME NEW m \in Messages, InCall(m), Underway(m)'
        PROVE  executed'[msg[m].load] = executed[msg[m].load]
    <3>1. PICK r : r = msg[m].load
      OBVIOUS
    <3>2. r \in Requests
      BY <2>2, <3>1 DEF RemoteInv, CallPart, CallsNamed, CallNamed
    <3>3. r # q
      BY <1>3, <2>2, <3>1 DEF RemoteInv, CallPart, OneMessage
    <3>4. QED
      BY <1>9, <3>1, <3>2, <3>3
  <2>3. ASSUME NEW m \in Messages, NEW u \in Tasks, NEW r \in Requests
        PROVE  GoesOn(u, r)
    <3>1. CASE u = w
      BY <1>5, <1>7, <1>8, <3>1 DEF GoesOn, WaitsFor, NotCalled
    <3>2. CASE u # w
      BY <1>10, <3>2, OtherCaller DEF Others
    <3>3. QED
      BY <3>1, <3>2
  <2>4. QED
    BY <1>1, <1>10, <1>12, <1>13, <2>1, <2>2, <2>3, CallsGoOn
<1>15. AwaitsKept /\ ExpectsKept
  BY <1>1, <1>12, AwaitsSame, ExpectsStays
<1>16. OneReply' /\ RepliesDue'
  <2>1. PICK k1 \in ReplyKinds : k1 = IF l = "alloc" THEN "given" ELSE "kept"
    BY DEF ReplyKinds
  <2>2. w \in Holders
    BY <1>1 DEF Holders
  <2>3. ASSUME NEW r \in Requests, NEW k \in ReplyKinds, NEW y \in Holders, ReplyAt(r, k, y)'
        PROVE  ReplyAt(r, k, y) \/ (r = q /\ k = k1 /\ y = w)
    <3>1. CASE k = "kept" /\ y \in Tasks /\ Keeps(y, r)'
      <4>1. CASE y = w
        <5>1. PICK e \in deferred'[w] : e.load = r
          BY <3>1, <4>1 DEF Keeps
        <5>2. CASE e \in deferred[w]
          BY <3>1, <4>1, <5>1, <5>2 DEF ReplyAt, Keeps
        <5>3. CASE e \notin deferred[w]
          <6>1. l = "handler_end" /\ e = [m |-> x, load |-> q]
            BY <1>8, <5>1, <5>3
          <6>2. r = q
            BY <5>1, <6>1
          <6>3. QED
            BY <2>1, <3>1, <4>1, <6>1, <6>2
        <5>4. QED
          BY <5>2, <5>3
      <4>2. CASE y # w
        BY <1>5, <3>1, <4>2 DEF ReplyAt, Keeps
      <4>3. QED
        BY <4>1, <4>2
    <3>2. CASE k = "given" /\ y \in Tasks /\ Gives(y, r)'
      <4>1. CASE y = w
        BY <1>5, <1>7, <1>8, <2>1, <3>2, <4>1 DEF Gives, Preparing
      <4>2. CASE y # w
        BY <1>5, <3>2, <4>2 DEF ReplyAt, Gives
      <4>3. QED
        BY <4>1, <4>2
    <3>3. CASE k = "sent" /\ y \in Messages /\ Brings(y, r)'
      <4>1. Underway(y) /\ Same(y)
        BY <1>1, <1>12, <3>3, SentBefore DEF Brings
      <4>2. Brings(y, r)
        BY <3>3, <4>1 DEF Brings, Same
      <4>3. QED
        BY <3>3, <4>2 DEF ReplyAt
    <3>4. QED
      BY <2>3, <3>1, <3>2, <3>3, Zenon DEF ReplyAt
  <2>4. PICK h \in Holders : h = w
    BY <2>2
  <2>5. OneMore(q, k1, h)
    BY <2>3, <2>4, Zenon DEF OneMore
  <2>6. OneReply /\ RepliesDue /\ q \in Requests
    BY <1>1, <1>3
  <2>7. Executes(q)
    BY <1>3, <1>9 DEF Executes
  <2>8. k1 \in ReplyKinds /\ h \in Holders
    BY <2>1, <2>4
  <2>9. QED
    BY <2>5, <2>6, <2>7, <2>8, ReplyMade
<1>17. ReplyPart'
  BY <1>1, <1>12, <1>15, <1>16, BringsKept DEF ReplyPart
<1>18. ASSUME NEW u \in Tasks, u # w
       PROVE  RecordKept(u)
  <2>1. ASSUME NEW r \in Requests, Recorded(u, r)
        PROVE  r # q
    <3>1. TaskGood(u)
      BY DEF RemoteInv, TaskPart
    <3>2. CASE Asks(u) /\ r = <<u, issued[u]>>
      <4>1. r[1] = u /\ r[2] = issued[u] /\ issued[u] \in Nat
        BY <1>1, <3>2
      <4>2. SUFFICES ASSUME r = q
                     PROVE  FALSE
        OBVIOUS
      <4>3. issued[u] < issued[u]
        BY <1>4, <3>2, <4>1, <4>2
      <4>4. QED
        BY <4>1, <4>3
    <3>3. CASE (callSem[u] > 0 \/ (pc[u] = "op_end" /\ arg[u].type = "SYNC_CALL")) /\ r = op[u]
      <4>1. executed[r] = 1
        BY <3>1, <3>3 DEF TaskGood, WokenGood, Answered
      <4>2. QED
        BY <1>3, <4>1
    <3>4. QED
      BY <2>1, <3>2, <3>3 DEF Recorded
  <2>2. QED
    BY <1>9, <2>1 DEF RecordKept
<1>19. TaskGood(w)'
  <2>1. callSem'[w] = 0
    BY <1>1, NotWoken
  <2>2. AskGood(w)' /\ CallGood(w)' /\ WokenGood(w)' /\ Answered(w)'
    <3>1. pc'[w] = "handler_end" \/ (pc'[w] = "alloc" /\ arg'[w].type = "CALL_RETURN")
      BY <1>5, <1>7, <1>8
    <3>2. AskGood(w)'
      BY <1>13 DEF AskGood
    <3>3. CallGood(w)'
      BY <3>1 DEF CallGood, Sending
    <3>4. QED
      BY <2>1, <3>1, <3>2, <3>3 DEF WokenGood, Answered
  <2>3. GiveGood(w)'
    <3>1. CASE l = "alloc"
      <4>1. Expects(a.major, a.seq, a.load)
        BY <1>3, <1>7 DEF Expects
      <4>2. Expects(a.major, a.seq, a.load)'
        BY <1>3, <1>7, <1>15, <4>1, Zenon DEF ExpectsKept
      <4>3. arg'[w] = a
        BY <1>8, <3>1
      <4>4. QED
        BY <1>3, <1>7, <4>2, <4>3 DEF GiveGood
    <3>2. CASE l # "alloc"
      BY <1>5, <1>8, <3>2 DEF GiveGood, Preparing
    <3>3. QED
      BY <3>1, <3>2
  <2>4. KeepGood(w)'
    <3>1. ASSUME NEW e \in deferred'[w]
          PROVE  msg[e.m].load = e.load /\ Awaits(e.m, msg[e.m].major)
      <4>1. CASE e \in deferred[w]
        BY <1>1, <4>1 DEF TaskGood, KeepGood
      <4>2. CASE e \notin deferred[w]
        <5>1. e = [m |-> x, load |-> q]
          BY <1>8, <4>2
        <5>2. e.m = x /\ e.load = q
          BY <5>1
        <5>3. QED
          BY <1>3, <5>2
      <4>3. QED
        BY <4>1, <4>2
    <3>2. calls' = calls /\ msg' = msg
      OBVIOUS
    <3>3. QED
      BY <3>1, <3>2 DEF KeepGood, Awaits
  <2>5. QED
    BY <2>2, <2>3, <2>4 DEF TaskGood
<1>20. TaskPart'
  <2>1. \A u \in Tasks : u # w => TaskGood(u)'
    BY <1>1, <1>10, <1>12, <1>15, <1>18, Onlookers
  <2>2. ASSUME NEW u \in Tasks
        PROVE  TaskGood(u)'
    BY <1>19, <2>1
  <2>3. QED
    BY <2>2, Zenon DEF TaskPart
<1>21. QED
  BY <1>14, <1>17, <1>20 DEF RemoteInv

LEMMA RemoteHandleCall ==
  ASSUME PendingIsSeen, RemoteInv, BusInv', NEW w \in Workers, HandleCall(w)
  PROVE  RemoteInv'
<1>1. PICK x : x = Head(queue[w])
  OBVIOUS
<1>2. PICK q : q = msg[x].load
  OBVIOUS
<1>3. /\ pc[w] = "idle" /\ queue[w] # << >> /\ msg[x].type \in Calls
      /\ cur' = [cur EXCEPT ![w] = x] /\ queue' = [queue EXCEPT ![w] = Tail(queue[w])]
      /\ UNCHANGED <<msg, free, calls, result>>
      /\ UNCHANGED <<issued, waitOn, op>> /\ UNCHANGED <<out, callSem>> /\ mine' = mine
  BY <1>1 DEF HandleCall, Receive, At, Set, poolVars, busVars
<1>4. CASE msg[x].minor = "unknown"
  <2>1. /\ executed' = executed /\ deferred' = deferred /\ UNCHANGED <<arg, ret>>
        /\ pc' = [pc EXCEPT ![w] = "handler_end"]
    BY <1>1, <1>4 DEF HandleCall, Goto
  <2>2. w \in Tasks /\ BusInv /\ w # Bus /\ cur \in [Tasks -> Messages]
    BY Names, MessageTypes DEF RemoteInv
  <2>3. QueuesShrink /\ \A u \in Tasks : u # w => cur'[u] = cur[u]
    BY <1>1, <1>3, <2>2, OneTaken
  <2>4. CountsOnly /\ Range(free) \subseteq Range(free')
    BY <1>3 DEF CountsOnly, Same
  <2>5. "handler_end" \notin Sending \cup {"op_end"}
    BY DEF Sending
  <2>6. QED
    BY <1>3, <2>1, <2>2, <2>3, <2>4, <2>5, RemoteRest
<1>5. CASE msg[x].minor = "reply"
  <2>1. /\ executed' = [executed EXCEPT ![q] = executed[q] + 1] /\ deferred' = deferred
        /\ arg' = [arg EXCEPT ![w] = CallReturn(x, q)]
        /\ ret' = [ret EXCEPT ![w] = "handler_end"]
        /\ pc' = [pc EXCEPT ![w] = "alloc"]
    BY <1>1, <1>2, <1>5 DEF HandleCall, Goto, Send, Set
  <2>2. QED
    BY <1>1, <1>2, <1>3, <2>1, RemoteExecuted
<1>6. CASE msg[x].minor = "defer"
  <2>1. /\ executed' = [executed EXCEPT ![q] = executed[q] + 1]
        /\ deferred' = [deferred EXCEPT ![w] = deferred[w] \cup {[m |-> x, load |-> q]}]
        /\ UNCHANGED <<arg, ret>>
        /\ pc' = [pc EXCEPT ![w] = "handler_end"]
    BY <1>1, <1>2, <1>6 DEF HandleCall, Goto
  <2>2. QED
    BY <1>1, <1>2, <1>3, <2>1, RemoteExecuted
<1>7. msg[x].minor \in Methods
  <2>1. BusInv /\ w \in Tasks
    BY Names DEF RemoteInv
  <2>2. x \in Messages
    BY <1>1, <1>3, <2>1, OneTaken
  <2>3. QED
    BY <2>1, <2>2, MessageTypes DEF MessageSet
<1>8. QED
  BY <1>4, <1>5, <1>6, <1>7 DEF Methods

(* The hand-off: a call goes to the bus.                                   *)
LEMMA RemoteInvokePost ==
  ASSUME RemoteInv, BusInv', NEW t \in Tasks, InvokePost(t)
  PROVE  RemoteInv'
<1>1. PICK x, d : x = mine[t] /\ d = IF msg[x].dst = NULL THEN Bus ELSE msg[x].dst
  OBVIOUS
<1>2. /\ pc[t] = "invoke" /\ pc' = [pc EXCEPT ![t] = "test"]
      /\ msg' = [msg EXCEPT ![x].dst = d] /\ template_msg_post(d, x)
      /\ UNCHANGED <<free, calls, cur, mine, deferred, executed, result>>
      /\ UNCHANGED <<ret, op, issued, out>> /\ UNCHANGED <<arg, waitOn, callSem>>
  BY <1>1 DEF InvokePost, At, Goto, busVars, taskVars, history
<1>3. /\ BusInv /\ Passed /\ pc \in [Tasks -> Labels] /\ mine \in [Tasks -> Messages]
      /\ msg \in [Messages -> MessageSet] /\ queue \in [Tasks -> Seq(Messages)]
      /\ \A u \in Tasks : Len(queue[u]) <= QueueSize
      /\ OnePlace /\ NoRepeats /\ TaskGood(t) /\ issued[t] \in Nat /\ cur \in [Tasks -> Messages]
  BY MessageTypes DEF RemoteInv, CallPart, BusInv, PoolTypes, Accounts, TaskPart
<1>4. /\ x \in Messages /\ IsAt(x, "sender", t) /\ Underway(x)
  BY <1>1, <1>2, <1>3 DEF IsAt, Underway, WithSender
<1>5. d \in Tasks
  <2>1. msg[x].dst \in Tasks \cup {NULL}
    BY <1>3, <1>4 DEF MessageSet
  <2>2. QED
    BY <1>1, <2>1, Names
<1>6. \A u \in Tasks : /\ x \notin Range(queue[u])
                       /\ pc[u] = "invoke" /\ mine[u] = x => u = t
  BY <1>3, <1>4, PlacesApart DEF Kinds
<1>7. \A u \in Tasks : \A y : y \in Range(queue'[u]) => y \in Range(queue[u]) \/ (y = x /\ u = d)
  <2>1. \/ /\ \A u \in Tasks : u # d => queue'[u] = queue[u]
           /\ Range(queue'[d]) = Range(queue[d]) \cup {x}
        \/ queue' = queue
    BY <1>2, <1>3, <1>4, <1>5, <1>6, PostedQueue
  <2>2. QED
    BY <1>5, <2>1
<1>8. \A m \in Messages : Same(m) /\ (m # x => msg'[m].dst = msg[m].dst)
  <2>1. SUFFICES ASSUME NEW m \in Messages
                 PROVE  Same(m) /\ (m # x => msg'[m].dst = msg[m].dst)
    OBVIOUS
  <2>2. msg[m] \in MessageSet
    BY <1>3
  <2>3. msg'[m] = IF m = x THEN [msg[m] EXCEPT !.dst = d] ELSE msg[m]
    BY <1>2, <1>3
  <2>4. QED
    BY <2>2, <2>3 DEF MessageSet, Same
<1>9. /\ pc'[t] = "test" /\ \A u \in Tasks : u # t => pc'[u] = pc[u]
  BY <1>2, <1>3
<1>10. Kept /\ CallsKept
  <2>1. Kept
    BY <1>8 DEF Kept
  <2>2. QED
    BY <1>2, <2>1, NoCallMade
<1>11. NoCallSent /\ NoReturnSent
  <2>1. ASSUME NEW m \in Messages, Underway(m)'
        PROVE  Underway(m)
    <3>1. CASE InQueue(m)'
      <4>1. PICK u \in Tasks : m \in Range(queue'[u])
        BY <3>1 DEF InQueue
      <4>2. CASE m = x
        BY <1>4, <4>2
      <4>3. CASE m # x
        BY <1>7, <4>1, <4>3 DEF Underway, InQueue
      <4>4. QED
        BY <4>2, <4>3
    <3>2. CASE WithSender(m)'
      BY <1>2, <1>9, <3>2 DEF Underway, WithSender
    <3>3. QED
      BY <2>1, <3>1, <3>2 DEF Underway
  <2>2. QED
    BY <2>1 DEF NoCallSent, NoReturnSent
<1>12. Passed'
  <2>1. ASSUME NEW w \in Workers, NEW m \in Range(queue'[w]), msg'[m].type \in Calls
        PROVE  Awaits(m, msg[m].major)'
    <3>1. w \in Tasks /\ w # Bus
      BY Names
    <3>2. m \in Range(queue[w])
      <4>1. CASE m = x /\ w = d
        <5>1. msg[x].type \in Calls
          BY <1>4, <1>8, <2>1, <4>1 DEF Same
        <5>2. msg[x].dst = NULL
          BY <1>1, <1>2, <1>3, <5>1 DEF Passed
        <5>3. QED
          BY <1>1, <3>1, <4>1, <5>2
      <4>2. QED
        BY <1>7, <3>1, <4>1
    <3>3. m \in Messages
      <4>1. Range(queue[w]) \subseteq Messages
        BY <1>3, <3>1, RangeWithin
      <4>2. QED
        BY <3>2, <4>1
    <3>4. Same(m)
      BY <1>8, <3>3
    <3>5. Awaits(m, msg[m].major)
      BY <1>3, <2>1, <3>2, <3>4 DEF Passed, Same
    <3>6. QED
      BY <1>2, <3>4, <3>5 DEF Awaits, Same
  <2>2. ASSUME NEW u \in Tasks, pc'[u] = "invoke", msg'[mine'[u]].type \in Calls
        PROVE  msg'[mine'[u]].dst = NULL
    <3>1. /\ pc[u] = "invoke" /\ mine'[u] = mine[u] /\ mine[u] \in Messages /\ mine[u] # x
      BY <1>2, <1>3, <1>6, <1>9, <2>2
    <3>2. msg'[mine[u]].type = msg[mine[u]].type /\ msg'[mine[u]].dst = msg[mine[u]].dst
      BY <1>8, <3>1 DEF Same
    <3>3. QED
      BY <1>3, <2>2, <3>1, <3>2 DEF Passed
  <2>3. ASSUME pc'[Bus] = "replicate"
        PROVE  msg'[cur'[Bus]].type = "SIGNAL"
    <3>1. cur[Bus] \in Messages /\ cur'[Bus] = cur[Bus] /\ pc[Bus] = "replicate"
      BY <1>2, <1>3, <1>9, <2>3, Names
    <3>2. QED
      BY <1>3, <1>8, <3>1 DEF Passed, Same
  <2>4. QED
    BY <2>1, <2>2, <2>3, Zenon DEF Passed
<1>13. Others(t)
  BY <1>2, <1>9 DEF Others, TaskKept
<1>14. ~Asks(t)' /\ AskKept(t) /\ CallerKept(t) /\ TaskLeft(t)
  <2>1. ~Asks(t)' /\ AskKept(t)
    BY <1>2, <1>3, <1>9 DEF AskKept, Asks, Preparing
  <2>2. CallerKept(t)
    BY <1>2, <1>9 DEF CallerKept, WaitsFor, NotCalled
  <2>3. TaskLeft(t)
    BY <1>2, <1>9 DEF TaskLeft, Keeps, Gives, Preparing
  <2>4. QED
    BY <2>1, <2>2, <2>3
<1>15. AskGood(t)' /\ CallGood(t)' /\ WokenGood(t)' /\ GiveGood(t)' /\ Answered(t)'
  <2>1. callSem'[t] = 0
    BY <1>2, NotWoken
  <2>2. AskGood(t)' /\ WokenGood(t)' /\ GiveGood(t)' /\ Answered(t)'
    BY <1>9, <1>14, <2>1 DEF AskGood, WokenGood, GiveGood, Answered, Preparing
  <2>3. CallGood(t)'
    BY <1>2, <1>3, <1>9 DEF TaskGood, CallGood, Sending
  <2>4. QED
    BY <2>2, <2>3
<1>16. QED
  BY <1>2, <1>10, <1>11, <1>12, <1>13, <1>14, <1>15, Ordinary

(***************************************************************************)
(* init_message: task t's arguments become the message x.                  *)
(***************************************************************************)
Written(t, x) ==
  /\ Kept /\ Others(t) /\ Passed' /\ AskKept(t) /\ CallerKept(t) /\ TaskLeft(t)
  /\ AskGood(t)' /\ CallGood(t)' /\ WokenGood(t)' /\ GiveGood(t)' /\ Answered(t)'
  /\ calls' = calls /\ executed' = executed /\ result' = result /\ deferred' = deferred
  /\ \A m \in Messages : Underway(m)' => Underway(m) \/ m = x
  /\ x \in Messages /\ ~Underway(x) /\ Range(free') = Range(free) \ {x} /\ x \in Range(free)
  /\ pc[t] = "alloc" /\ pc'[t] = "invoke" /\ ~Asks(t)' /\ (\A r : ~Gives(t, r)')
  /\ callSem[t] = 0 /\ callSem'[t] = 0 /\ op'[t] = op[t] /\ arg'[t] = arg[t]
  /\ issued' = issued
  /\ msg'[x].type = arg[t].type /\ msg'[x].load = arg[t].load /\ msg'[x].extra = arg[t].extra
  /\ msg'[x].src = t /\ msg'[x].major = arg[t].major /\ msg'[x].seq = arg[t].seq
  /\ \A m \in Messages : m # x => Same(m)

LEMMA MessageWritten ==
  ASSUME RemoteInv, BusInv', NEW t \in Tasks, InitMessage(t), NEW x, x = Head(free)
  PROVE  Written(t, x)
<1>1. PICK a : a = arg[t]
  OBVIOUS
<1>2. PICK e : e = [seq |-> a.seq, ref |-> IF a.type \in Calls THEN 1 ELSE 0,
                    type |-> a.type, major |-> a.major, minor |-> a.minor,
                    src |-> t, dst |-> a.dst, load |-> a.load, extra |-> a.extra]
  OBVIOUS
<1>3. /\ pc[t] = "alloc" /\ free # << >> /\ pc' = [pc EXCEPT ![t] = "invoke"]
      /\ msg' = [msg EXCEPT ![x] = e] /\ mine' = [mine EXCEPT ![t] = x] /\ free' = Tail(free)
      /\ UNCHANGED <<queue, calls, cur, deferred, executed, result>>
      /\ UNCHANGED <<ret, op, issued, out>> /\ UNCHANGED <<arg, waitOn, callSem>>
  BY <1>1, <1>2 DEF InitMessage, At, Goto, Set, busVars, history
<1>4. /\ BusInv /\ Passed /\ pc \in [Tasks -> Labels] /\ mine \in [Tasks -> Messages]
      /\ msg \in [Messages -> MessageSet] /\ queue \in [Tasks -> Seq(Messages)]
      /\ PoolTypes /\ Accounts /\ TaskGood(t) /\ issued[t] \in Nat /\ cur \in [Tasks -> Messages]
  BY MessageTypes DEF RemoteInv, CallPart, BusInv, PoolTypes, TaskPart
<1>5. /\ x \in Messages /\ x \in Range(free) /\ Range(free') = Range(free) \ {x}
      /\ \A u \in Tasks : /\ x \notin Range(queue[u])
                          /\ Handling(u) => cur[u] # x
                          /\ pc[u] = "invoke" => mine[u] # x
  BY <1>3, <1>4, FreeHead
<1>6. /\ e.type = a.type /\ e.load = a.load /\ e.extra = a.extra /\ e.src = t
      /\ e.major = a.major /\ e.seq = a.seq /\ e.dst = a.dst
  BY <1>2
<1>7. /\ msg'[x] = e /\ mine'[t] = x /\ pc'[t] = "invoke"
      /\ \A m \in Messages : m # x => msg'[m] = msg[m]
      /\ \A u \in Tasks : u # t => mine'[u] = mine[u] /\ pc'[u] = pc[u]
  BY <1>3, <1>4, <1>5
<1>8. \A m \in Messages : m # x => Same(m)
  BY <1>7 DEF Same
<1>9. Kept
  BY <1>5, <1>8 DEF Kept
<1>10. ~Underway(x) /\ \A m \in Messages : Underway(m)' => Underway(m) \/ m = x
  <2>1. ~Underway(x)
    BY <1>4, <1>5, Located
  <2>2. ASSUME NEW m \in Messages, Underway(m)', m # x
        PROVE  Underway(m)
    <3>1. CASE InQueue(m)'
      BY <1>3, <3>1 DEF Underway, InQueue
    <3>2. CASE WithSender(m)'
      BY <1>7, <2>2, <3>2 DEF Underway, WithSender
    <3>3. QED
      BY <2>2, <3>1, <3>2 DEF Underway
  <2>3. QED
    BY <2>1, <2>2
<1>11. Others(t)
  BY <1>3, <1>7 DEF Others, TaskKept
<1>12. Passed'
  <2>1. ASSUME NEW w \in Workers, NEW m \in Range(queue'[w]), msg'[m].type \in Calls
        PROVE  Awaits(m, msg[m].major)'
    <3>1. w \in Tasks
      BY Names
    <3>2. m \in Range(queue[w]) /\ m \in Messages
      BY <1>3, <1>4, <3>1, RangeWithin
    <3>3. Same(m)
      BY <1>5, <1>8, <3>1, <3>2
    <3>4. Awaits(m, msg[m].major)
      BY <1>4, <2>1, <3>2, <3>3 DEF Passed, Same
    <3>5. QED
      BY <1>3, <3>3, <3>4 DEF Awaits, Same
  <2>2. ASSUME NEW u \in Tasks, pc'[u] = "invoke", msg'[mine'[u]].type \in Calls
        PROVE  msg'[mine'[u]].dst = NULL
    <3>1. CASE u = t
      <4>1. Asks(t)
        BY <1>1, <1>3, <1>6, <1>7, <2>2, <3>1 DEF Asks, Preparing
      <4>2. arg[t].dst = NULL
        BY <1>4, <4>1 DEF TaskGood, AskGood
      <4>3. QED
        BY <1>1, <1>6, <1>7, <3>1, <4>2
    <3>2. CASE u # t
      <4>1. pc[u] = "invoke" /\ mine'[u] = mine[u] /\ mine[u] \in Messages /\ mine[u] # x
        BY <1>4, <1>5, <1>7, <2>2, <3>2
      <4>2. msg'[mine[u]] = msg[mine[u]]
        BY <1>7, <4>1
      <4>3. QED
        BY <1>4, <2>2, <4>1, <4>2 DEF Passed
    <3>3. QED
      BY <3>1, <3>2
  <2>3. ASSUME pc'[Bus] = "replicate"
        PROVE  msg'[cur'[Bus]].type = "SIGNAL"
    <3>1. cur[Bus] \in Messages /\ cur'[Bus] = cur[Bus] /\ pc[Bus] = "replicate"
      BY <1>3, <1>4, <1>7, <2>3, Names
    <3>2. cur[Bus] # x
      BY <1>5, <3>1, Names DEF Handling
    <3>3. msg'[cur[Bus]] = msg[cur[Bus]]
      BY <1>7, <3>1, <3>2
    <3>4. QED
      BY <1>4, <3>1, <3>3 DEF Passed
  <2>4. QED
    BY <2>1, <2>2, <2>3, Zenon DEF Passed
<1>13. callSem[t] = 0 /\ callSem'[t] = 0
  BY <1>3, NotWoken
<1>14. /\ ~Asks(t)' /\ (\A r : ~Gives(t, r)') /\ AskKept(t)
  BY <1>3, <1>4, <1>7 DEF AskKept, Asks, Gives, Preparing
<1>15. CallerKept(t)
  BY <1>3, CallerSettled
<1>16. TaskLeft(t)
  BY <1>3, <1>14 DEF TaskLeft, Keeps
<1>17. AskGood(t)' /\ WokenGood(t)' /\ GiveGood(t)' /\ Answered(t)'
  BY <1>7, <1>13, <1>14 DEF AskGood, WokenGood, GiveGood, Answered, Preparing
<1>18. CallGood(t)'
  <2>1. arg[t].type = "SYNC_CALL" => arg[t].load = op[t]
    <3>1. arg[t].type = "SYNC_CALL" => Asks(t)
      BY <1>3 DEF Asks, Preparing, Calls
    <3>2. QED
      BY <1>4, <3>1 DEF TaskGood, AskGood
  <2>2. CallGood(t)
    BY <1>4 DEF TaskGood
  <2>3. QED
    BY <1>1, <1>3, <1>6, <1>7, <2>1, <2>2 DEF CallGood, Sending
<1>19. /\ msg'[x].type = arg[t].type /\ msg'[x].load = arg[t].load
       /\ msg'[x].extra = arg[t].extra
       /\ msg'[x].src = t /\ msg'[x].major = arg[t].major /\ msg'[x].seq = arg[t].seq
  BY <1>1, <1>6, <1>7
<1>20. /\ pc[t] = "alloc" /\ pc'[t] = "invoke" /\ op'[t] = op[t] /\ arg'[t] = arg[t]
       /\ calls' = calls /\ executed' = executed /\ result' = result /\ deferred' = deferred
       /\ issued' = issued
  BY <1>3, <1>7
<1>21. QED
  BY <1>5, <1>8, <1>9, <1>10, <1>11, <1>12, <1>13, <1>14, <1>15, <1>16, <1>17, <1>18, <1>19,
     <1>20, Zenon DEF Written

(* Neither a call nor a return.                                            *)
LEMMA OtherWritten ==
  ASSUME RemoteInv, BusInv', NEW t \in Tasks, NEW x, Written(t, x),
         arg[t].type \notin Calls, arg[t].type # "CALL_RETURN"
  PROVE  RemoteInv'
<1>1. /\ Kept /\ Others(t) /\ Passed' /\ AskKept(t) /\ CallerKept(t) /\ TaskLeft(t)
      /\ AskGood(t)' /\ CallGood(t)' /\ WokenGood(t)' /\ GiveGood(t)' /\ Answered(t)'
      /\ calls' = calls /\ executed' = executed /\ result' = result /\ deferred' = deferred
      /\ \A m \in Messages : Underway(m)' => Underway(m) \/ m = x
      /\ x \in Messages /\ Range(free') = Range(free) \ {x}
      /\ msg'[x].type = arg[t].type
  BY Zenon DEF Written
<1>2. CallsKept
  <2>1. \A m \in Messages : m \in Range(free) /\ m \notin Range(free') => m = x
    BY <1>1
  <2>2. QED
    BY <1>1, <2>1, NoCallMade
<1>3. NoCallSent /\ NoReturnSent
  <2>1. NoCallSent
    BY <1>1, Zenon DEF NoCallSent
  <2>2. NoReturnSent
    BY <1>1, Zenon DEF NoReturnSent
  <2>3. QED
    BY <2>1, <2>2
<1>4. QED
  BY <1>1, <1>2, <1>3, Ordinary

(* A return: the reply passes from the task to the message.                *)
LEMMA ReturnWritten ==
  ASSUME RemoteInv, BusInv', NEW t \in Tasks, NEW x, Written(t, x),
         arg[t].type = "CALL_RETURN"
  PROVE  RemoteInv'
<1>1. /\ Kept /\ Others(t) /\ Passed' /\ AskKept(t) /\ CallerKept(t) /\ TaskLeft(t)
      /\ AskGood(t)' /\ CallGood(t)' /\ WokenGood(t)' /\ GiveGood(t)' /\ Answered(t)'
      /\ calls' = calls /\ executed' = executed /\ result' = result /\ deferred' = deferred
      /\ \A m \in Messages : Underway(m)' => Underway(m) \/ m = x
      /\ x \in Messages /\ Range(free') = Range(free) \ {x}
  BY Zenon DEF Written
<1>2. /\ msg'[x].type = "CALL_RETURN" /\ msg'[x].load = arg[t].load
      /\ msg'[x].major = arg[t].major /\ msg'[x].seq = arg[t].seq
      /\ pc[t] = "alloc" /\ (\A r : ~Gives(t, r)') /\ ~Underway(x)
      /\ \A m \in Messages : m # x => Same(m)
  BY Zenon DEF Written
<1>3. /\ BusInv /\ OneReply /\ RepliesDue /\ BringsExpected /\ TaskGood(t)
  BY DEF RemoteInv, ReplyPart, TaskPart
<1>4. CallsKept /\ NoCallSent
  <2>1. \A m \in Messages : m \in Range(free) /\ m \notin Range(free') => m = x
    BY <1>1
  <2>2. CallsKept
    BY <1>1, <1>2, <2>1, NoCallMade DEF Calls
  <2>3. NoCallSent
    BY <1>1, <1>2 DEF NoCallSent, Calls
  <2>4. QED
    BY <2>2, <2>3
<1>5. CallPart'
  BY <1>1, <1>4, OrdinaryCalls
<1>6. AwaitsKept /\ ExpectsKept
  BY <1>1, <1>3, AwaitsSame, ExpectsStays
<1>7. PICK q, s, v : q = arg[t].load /\ s = arg[t].seq /\ v = arg[t].major
  OBVIOUS
<1>8. q \in Requests /\ Expects(v, s, q) /\ v \in Workers
  <2>1. v \in Workers
    BY <1>3, <1>7, MessageTypes DEF ArgumentSet
  <2>2. QED
    BY <1>2, <1>3, <1>7, <2>1 DEF TaskGood, GiveGood, Preparing
<1>9. OneReply' /\ RepliesDue'
  <2>1. /\ ReplyAt(q, "given", t) /\ "given" \in ReplyKinds /\ "sent" \in ReplyKinds
        /\ t \in Holders /\ x \in Holders
    BY <1>1, <1>2, <1>7 DEF ReplyAt, Gives, ReplyKinds, Holders, Preparing
  <2>2. ASSUME NEW r \in Requests, NEW k \in ReplyKinds, NEW y \in Holders, ReplyAt(r, k, y)'
        PROVE  \/ ReplyAt(r, k, y) /\ ~(r = q /\ k = "given" /\ y = t)
               \/ r = q /\ k = "sent" /\ y = x
    <3>1. CASE k = "kept" /\ y \in Tasks /\ Keeps(y, r)'
      BY <1>1, <3>1 DEF ReplyAt, Keeps
    <3>2. CASE k = "given" /\ y \in Tasks /\ Gives(y, r)'
      <4>1. y # t
        BY <1>2, <3>2
      <4>2. Gives(y, r)
        BY <1>1, <3>2, <4>1 DEF Others, TaskKept, Gives
      <4>3. QED
        BY <3>2, <4>1, <4>2 DEF ReplyAt
    <3>3. CASE k = "sent" /\ y \in Messages /\ Brings(y, r)'
      <4>1. CASE y = x
        BY <1>2, <1>7, <3>3, <4>1 DEF Brings
      <4>2. CASE y # x
        <5>1. Underway(y) /\ Same(y)
          BY <1>1, <1>2, <3>3, <4>2 DEF Brings
        <5>2. Brings(y, r)
          BY <3>3, <5>1 DEF Brings, Same
        <5>3. QED
          BY <3>3, <5>2 DEF ReplyAt
      <4>3. QED
        BY <4>1, <4>2
    <3>4. QED
      BY <2>2, <3>1, <3>2, <3>3, Zenon DEF ReplyAt
  <2>3. QED
    BY <1>1, <1>3, <1>8, <2>1, <2>2, ReplyMoves, SMTT(30)
<1>10. BringsExpected'
  <2>1. ASSUME NEW m \in Messages, Underway(m)', msg'[m].type = "CALL_RETURN"
        PROVE  msg'[m].load \in Requests /\ Expects(msg[m].major, msg[m].seq, msg[m].load)'
    <3>1. CASE m = x
      <4>1. Expects(v, s, q)'
        BY <1>6, <1>8, Zenon DEF ExpectsKept
      <4>2. v = msg'[m].major /\ s = msg'[m].seq /\ q = msg'[m].load
        BY <1>2, <1>7, <3>1
      <4>3. QED
        BY <1>8, <4>1, <4>2
    <3>2. CASE m # x
      <4>1. Underway(m) /\ Same(m)
        BY <1>1, <1>2, <2>1, <3>2
      <4>2. PICK w, z, r : w = msg[m].major /\ z = msg[m].seq /\ r = msg[m].load
        OBVIOUS
      <4>3. w \in Workers
        BY <1>3, <4>2, MessageTypes DEF MessageSet
      <4>4. r \in Requests /\ Expects(w, z, r)
        BY <1>3, <2>1, <4>1, <4>2 DEF BringsExpected, Same
      <4>5. Expects(w, z, r)'
        BY <1>6, <4>3, <4>4, Zenon DEF ExpectsKept
      <4>6. w = msg'[m].major /\ z = msg'[m].seq /\ r = msg'[m].load
        BY <4>1, <4>2 DEF Same
      <4>7. QED
        BY <4>4, <4>5, <4>6
    <3>3. QED
      BY <3>1, <3>2
  <2>2. QED
    BY <2>1, Zenon DEF BringsExpected
<1>11. ReplyPart'
  BY <1>9, <1>10 DEF ReplyPart
<1>12. TaskPart'
  <2>1. \A u \in Tasks : RecordKept(u)
    BY <1>1 DEF RecordKept
  <2>2. \A u \in Tasks : u # t => TaskGood(u)'
    BY <1>1, <1>6, <2>1, Onlookers
  <2>3. TaskGood(t)'
    <3>1. KeepGood(t)'
      BY <1>1, <1>3, <1>6, KeepStays DEF TaskGood
    <3>2. QED
      BY <1>1, <3>1 DEF TaskGood
  <2>4. ASSUME NEW u \in Tasks
        PROVE  TaskGood(u)'
    BY <2>2, <2>3
  <2>5. QED
    BY <2>4, Zenon DEF TaskPart
<1>13. QED
  BY <1>5, <1>11, <1>12 DEF RemoteInv

(* A call: no message in use has the name of its request.                  *)
LEMMA CallWritten ==
  ASSUME RemoteInv, BusInv', NEW t \in Tasks, NEW x, Written(t, x), arg[t].type \in Calls
  PROVE  RemoteInv'
<1>1. /\ Kept /\ Others(t) /\ Passed' /\ AskKept(t) /\ CallerKept(t) /\ TaskLeft(t)
      /\ AskGood(t)' /\ CallGood(t)' /\ WokenGood(t)' /\ GiveGood(t)' /\ Answered(t)'
      /\ calls' = calls /\ executed' = executed /\ result' = result /\ deferred' = deferred
      /\ \A m \in Messages : Underway(m)' => Underway(m) \/ m = x
      /\ x \in Messages /\ Range(free') = Range(free) \ {x} /\ x \in Range(free)
  BY Zenon DEF Written
<1>2. /\ msg'[x].type = arg[t].type /\ msg'[x].load = arg[t].load
      /\ msg'[x].extra = arg[t].extra /\ msg'[x].src = t
      /\ pc[t] = "alloc" /\ pc'[t] = "invoke" /\ ~Asks(t)' /\ callSem'[t] = 0
      /\ op'[t] = op[t] /\ arg'[t] = arg[t] /\ issued' = issued
      /\ \A m \in Messages : m # x => Same(m)
  BY Zenon DEF Written
<1>3. /\ BusInv /\ CallsNamed /\ OneMessage /\ NewRequests /\ NotExecuted /\ OpenCalls
      /\ PendingCalls /\ OneReply /\ RepliesDue /\ BringsExpected /\ TaskGood(t)
      /\ issued[t] \in Nat
  BY MessageTypes DEF RemoteInv, CallPart, ReplyPart, TaskPart
<1>4. PICK q : q = <<t, issued[t]>>
  OBVIOUS
<1>5. /\ Asks(t) /\ arg[t].load = q /\ arg[t].extra = q /\ q \in Requests
      /\ executed[q] = 0 /\ result[q] = NULL /\ (arg[t].type = "SYNC_CALL" => op[t] = q)
  <2>1. Asks(t)
    BY <1>2 DEF Asks, Preparing
  <2>2. AskGood(t)
    BY <1>3 DEF TaskGood
  <2>3. QED
    BY <1>4, <2>1, <2>2, Zenon DEF AskGood
<1>6. q[1] = t /\ q[2] = issued[t]
  BY <1>4
<1>7. \A m \in Messages : m # x => /\ Same(m) /\ (InCall(m)' => InCall(m))
                                   /\ (Underway(m)' => Underway(m))
                                   /\ (Open(m)' => Open(m))
  <2>1. ASSUME NEW m \in Messages, m # x
        PROVE  /\ Same(m) /\ (InCall(m)' => InCall(m))
               /\ (Underway(m)' => Underway(m)) /\ (Open(m)' => Open(m))
    <3>1. Same(m) /\ (InCall(m)' => InCall(m))
      BY <1>1, <1>2, <2>1 DEF InCall, Same
    <3>2. Underway(m)' => Underway(m)
      BY <1>1, <2>1
    <3>3. \A w : Awaits(m, w)' <=> Awaits(m, w)
      BY <1>1, AwaitsSame
    <3>4. Open(m)' => Open(m)
      BY <3>2, <3>3, Zenon DEF Open
    <3>5. QED
      BY <3>1, <3>2, <3>4
  <2>2. QED
    BY <2>1
<1>8. \A u \in Tasks : Asks(u)' => Asks(u)
  BY <1>1, <1>2 DEF Others, TaskKept, Asks
<1>9. CallsNamed'
  <2>1. ASSUME NEW m \in Messages, InCall(m)'
        PROVE  CallNamed(m)'
    <3>1. CASE m = x
      BY <1>2, <1>3, <1>5, <1>6, <3>1 DEF CallNamed
    <3>2. CASE m # x
      <4>1. CallNamed(m) /\ Same(m)
        BY <1>3, <1>7, <2>1, <3>2 DEF CallsNamed
      <4>2. PICK r : r = msg[m].load
        OBVIOUS
      <4>3. /\ r \in Requests /\ msg[m].extra = r /\ msg[m].src = r[1]
            /\ r[2] <= issued[r[1]] /\ (Asks(r[1]) => r[2] < issued[r[1]])
        BY <4>1, <4>2, Zenon DEF CallNamed
      <4>4. r[1] \in Tasks
        BY <4>3, RequestParts
      <4>5. Asks(r[1])' => r[2] < issued'[r[1]]
        BY <1>2, <1>8, <4>3, <4>4
      <4>6. msg'[m].load = r /\ msg'[m].extra = r /\ msg'[m].src = r[1]
        BY <4>1, <4>2, <4>3 DEF Same
      <4>7. r[2] <= issued'[r[1]]
        BY <1>2, <4>3
      <4>8. QED
        BY <4>3, <4>5, <4>6, <4>7, Zenon DEF CallNamed
    <3>3. QED
      BY <3>1, <3>2
  <2>2. QED
    BY <2>1, Zenon DEF CallsNamed
<1>10. ASSUME NEW m \in Messages, m # x, InCall(m)'
       PROVE  msg[m].load # q
  <2>1. CallNamed(m)
    BY <1>3, <1>7, <1>10 DEF CallsNamed
  <2>2. QED
    BY <1>3, <1>5, <1>6, <2>1 DEF CallNamed
<1>11. OneMessage'
  <2>1. SUFFICES ASSUME NEW m \in Messages, NEW n \in Messages, InCall(m)', InCall(n)',
                        msg'[m].load = msg'[n].load
                 PROVE  m = n
    BY Zenon DEF OneMessage
  <2>2. CASE m # x /\ n # x
    BY <1>3, <1>7, <2>1, <2>2 DEF OneMessage, Same
  <2>3. CASE m = x \/ n = x
    BY <1>2, <1>5, <1>7, <1>10, <2>1, <2>3 DEF Same
  <2>4. QED
    BY <2>2, <2>3
<1>12. NewRequests'
  BY <1>1, <1>2, <1>3 DEF NewRequests
<1>13. NotExecuted'
  <2>1. ASSUME NEW m \in Messages, InCall(m)', Underway(m)'
        PROVE  executed'[msg'[m].load] = 0
    <3>1. CASE m = x
      BY <1>1, <1>2, <1>5, <3>1
    <3>2. CASE m # x
      BY <1>1, <1>3, <1>7, <2>1, <3>2 DEF NotExecuted, Same
    <3>3. QED
      BY <3>1, <3>2
  <2>2. QED
    BY <2>1 DEF NotExecuted
<1>14. OpenCalls'
  <2>1. ASSUME NEW m \in Messages, InCall(m)', Open(m)'
        PROVE  OpenCall(m)'
    <3>1. CASE m = x
      BY <1>1, <1>2, <1>5, <3>1 DEF OpenCall, WaitsFor, NotCalled, Calls
    <3>2. CASE m # x
      <4>1. OpenCall(m) /\ CallNamed(m) /\ Same(m)
        BY <1>3, <1>7, <2>1, <3>2 DEF OpenCalls, CallsNamed
      <4>2. PICK u, r : u = msg[m].src /\ r = msg[m].load
        OBVIOUS
      <4>3. r \in Requests /\ u = r[1] /\ r[2] <= issued[u] /\ u \in Tasks
        BY <4>1, <4>2, RequestParts, Zenon DEF CallNamed
      <4>4. GoesOn(u, r)
        <5>1. CASE u = t
          BY <1>1, <4>3, <5>1 DEF CallerKept, GoesOn
        <5>2. CASE u # t
          BY <1>1, <4>3, <5>2, OtherCaller DEF Others
        <5>3. QED
          BY <5>1, <5>2
      <4>5. /\ result[r] = NULL
            /\ msg[m].type = "SYNC_CALL" => WaitsFor(u, r)
            /\ msg[m].type = "ASYNC_CALL" => NotCalled(u, r)
        BY <4>1, <4>2 DEF OpenCall
      <4>6. msg'[m].type = msg[m].type /\ msg'[m].load = r /\ msg'[m].src = u
        BY <4>1, <4>2 DEF Same
      <4>7. /\ result'[r] = result[r]
            /\ WaitsFor(u, r) => WaitsFor(u, r)'
            /\ NotCalled(u, r) => NotCalled(u, r)'
        BY <4>4 DEF GoesOn
      <4>8. QED
        BY <4>5, <4>6, <4>7, Zenon DEF OpenCall
    <3>3. QED
      BY <3>1, <3>2
  <2>2. QED
    BY <2>1, Zenon DEF OpenCalls
<1>15. CallPart'
  <2>1. PendingCalls'
    BY <1>1, <1>3, PendingKept
  <2>2. QED
    BY <1>1, <1>9, <1>11, <1>12, <1>13, <1>14, <2>1 DEF CallPart
<1>16. AwaitsKept /\ ExpectsKept
  BY <1>1, <1>3, AwaitsSame, ExpectsStays
<1>17. ReplyPart'
  <2>1. NoReturnSent
    BY <1>1, <1>2 DEF NoReturnSent, Calls
  <2>2. OneReply' /\ RepliesDue'
    BY <1>1, <1>3, <2>1, RepliesStay, RepliesKept
  <2>3. BringsExpected'
    BY <1>1, <1>3, <1>16, <2>1, BringsKept
  <2>4. QED
    BY <2>2, <2>3 DEF ReplyPart
<1>18. TaskPart'
  <2>1. \A u \in Tasks : RecordKept(u)
    BY <1>1 DEF RecordKept
  <2>2. \A u \in Tasks : u # t => TaskGood(u)'
    BY <1>1, <1>16, <2>1, Onlookers
  <2>3. TaskGood(t)'
    <3>1. KeepGood(t)'
      BY <1>1, <1>3, <1>16, KeepStays DEF TaskGood
    <3>2. QED
      BY <1>1, <3>1 DEF TaskGood
  <2>4. ASSUME NEW u \in Tasks
        PROVE  TaskGood(u)'
    BY <2>2, <2>3
  <2>5. QED
    BY <2>4, Zenon DEF TaskPart
<1>19. QED
  BY <1>15, <1>17, <1>18 DEF RemoteInv

LEMMA RemoteInitMessage ==
  ASSUME RemoteInv, BusInv', NEW t \in Tasks, InitMessage(t)
  PROVE  RemoteInv'
<1>1. PICK x : x = Head(free)
  OBVIOUS
<1>2. Written(t, x)
  BY <1>1, MessageWritten
<1>3. QED
  BY <1>2, OtherWritten, ReturnWritten, CallWritten

(***************************************************************************)
(* The bus copies a signal.                                                *)
(***************************************************************************)
LEMMA RemoteBusReplicate ==
  ASSUME RemoteInv, BusInv', BusReplicate
  PROVE  RemoteInv'
<1>1. /\ BusInv /\ Passed /\ pc \in [Tasks -> Labels] /\ mine \in [Tasks -> Messages]
      /\ PoolTypes /\ Accounts /\ OnePlace /\ NoRepeats
      /\ msg \in [Messages -> MessageSet] /\ queue \in [Tasks -> Seq(Messages)]
      /\ \A u \in Tasks : Len(queue[u]) <= QueueSize
      /\ cur \in [Tasks -> Messages] /\ Bus \in Tasks /\ issued[Bus] \in Nat
      /\ todo \in Seq(Workers) /\ (pc[Bus] = "replicate" => todo # << >>)
  BY Names, MessageTypes DEF RemoteInv, CallPart, BusInv, PoolTypes, BusTypes, Accounts
<1>2. pc[Bus] = "replicate" /\ free # << >> /\ todo # << >>
  BY <1>1 DEF BusReplicate, At
<1>3. PICK x \in Messages : x = Head(free)
  BY <1>1, <1>2, FreeHead
<1>4. PICK s \in Messages : s = cur[Bus]
  BY <1>1
<1>5. PICK d \in Workers : d = Head(todo)
  BY <1>1, <1>2, HeadTailProperties
<1>6. PICK l \in {"bus_end", "replicate"} : l = IF Len(todo) = 1 THEN "bus_end" ELSE "replicate"
  OBVIOUS
<1>7. /\ msg' = [msg EXCEPT ![x] = [msg[s] EXCEPT !.ref = GetRef(s), !.dst = d]]
      /\ template_msg_post(d, x)
      /\ free' = Tail(free)
      /\ pc' = [pc EXCEPT ![Bus] = l]
      /\ UNCHANGED <<calls, cur, mine, deferred, executed, result>>
      /\ UNCHANGED <<ret, op, issued, out>> /\ UNCHANGED <<arg, waitOn, callSem>>
  BY <1>3, <1>4, <1>5, <1>6 DEF BusReplicate, Goto, taskVars, history
<1>8. /\ x \in Range(free) /\ Range(free') = Range(free) \ {x}
      /\ \A u \in Tasks : /\ x \notin Range(queue[u])
                          /\ pc[u] = "invoke" => mine[u] # x
      /\ Handling(Bus) => cur[Bus] # x
  BY <1>1, <1>2, <1>3, <1>7, FreeHead
<1>9. s # x
  BY <1>2, <1>4, <1>8 DEF Handling
<1>10. msg[s].type = "SIGNAL"
  BY <1>1, <1>2, <1>4 DEF Passed
<1>11. msg'[x].type = "SIGNAL" /\ \A m \in Messages : m # x => msg'[m] = msg[m]
  <2>1. msg[s] \in MessageSet
    BY <1>1
  <2>2. msg'[x] = [msg[s] EXCEPT !.ref = GetRef(s), !.dst = d]
    BY <1>1, <1>7
  <2>3. msg'[x].type = msg[s].type
    BY <2>1, <2>2 DEF MessageSet
  <2>4. QED
    BY <1>1, <1>7, <1>10, <2>3
<1>12. d \in Tasks /\ d # Bus
  BY Names
<1>13. \A u \in Tasks : \A y : y \in Range(queue'[u]) => y \in Range(queue[u]) \/ y = x
  <2>1. \/ /\ \A u \in Tasks : u # d => queue'[u] = queue[u]
           /\ Range(queue'[d]) = Range(queue[d]) \cup {x}
        \/ queue' = queue
    BY <1>1, <1>7, <1>8, <1>12, PostedQueue
  <2>2. QED
    BY <1>12, <2>1
<1>14. pc'[Bus] = l /\ \A u \in Tasks : u # Bus => pc'[u] = pc[u]
  BY <1>1, <1>7
<1>15. Kept
  BY <1>8, <1>11 DEF Kept, Same
<1>16. CallsKept
  BY <1>8, <1>11, <1>15, NoCallMade DEF Calls
<1>17. ASSUME NEW m \in Messages, Underway(m)', m # x
       PROVE  Underway(m)
  <2>1. CASE InQueue(m)'
    BY <1>13, <1>17, <2>1 DEF Underway, InQueue
  <2>2. CASE WithSender(m)'
    BY <1>6, <1>7, <1>14, <2>2 DEF Underway, WithSender
  <2>3. QED
    BY <1>17, <2>1, <2>2 DEF Underway
<1>18. NoCallSent /\ NoReturnSent
  BY <1>11, <1>17 DEF NoCallSent, NoReturnSent, Calls
<1>19. Passed'
  <2>1. ASSUME NEW w \in Workers, NEW m \in Range(queue'[w]), msg'[m].type \in Calls
        PROVE  Awaits(m, msg[m].major)'
    <3>1. w \in Tasks
      BY Names
    <3>2. m # x
      BY <1>11, <2>1 DEF Calls
    <3>3. m \in Range(queue[w])
      BY <1>13, <3>1, <3>2
    <3>4. m \in Messages
      BY <1>1, <3>1, <3>3, RangeWithin
    <3>5. msg'[m] = msg[m]
      BY <1>11, <3>2, <3>4
    <3>6. Awaits(m, msg[m].major)
      BY <1>1, <2>1, <3>3, <3>5 DEF Passed
    <3>7. QED
      BY <1>7, <3>5, <3>6 DEF Awaits
  <2>2. ASSUME NEW u \in Tasks, pc'[u] = "invoke", msg'[mine'[u]].type \in Calls
        PROVE  msg'[mine'[u]].dst = NULL
    <3>1. pc[u] = "invoke" /\ mine'[u] = mine[u] /\ mine[u] \in Messages /\ mine[u] # x
      BY <1>1, <1>6, <1>7, <1>8, <1>14, <2>2
    <3>2. msg'[mine[u]] = msg[mine[u]]
      BY <1>11, <3>1
    <3>3. QED
      BY <1>1, <2>2, <3>1, <3>2 DEF Passed
  <2>3. msg'[cur'[Bus]].type = "SIGNAL"
    BY <1>4, <1>7, <1>9, <1>10, <1>11
  <2>4. QED
    BY <2>1, <2>2, <2>3, Zenon DEF Passed
<1>20. Others(Bus)
  BY <1>7, <1>14 DEF Others, TaskKept
<1>21. callSem'[Bus] = 0
  BY <1>1, <1>2, <1>7, NotWoken
<1>22. /\ AskGood(Bus)' /\ CallGood(Bus)' /\ WokenGood(Bus)' /\ GiveGood(Bus)' /\ Answered(Bus)'
       /\ ~Asks(Bus)' /\ \A r : ~Gives(Bus, r)'
  <2>1. pc'[Bus] \notin Sending \cup {"op_end"}
    BY <1>6, <1>14 DEF Sending
  <2>2. QED
    BY <1>21, <2>1, Resting
<1>23. AskKept(Bus)
  BY <1>1, <1>7, <1>22 DEF AskKept
<1>24. CallerKept(Bus)
  BY <1>2, <1>7, CallerSettled
<1>25. TaskLeft(Bus)
  BY <1>7, <1>22 DEF TaskLeft, Keeps
<1>26. QED
  BY <1>1, <1>7, <1>15, <1>16, <1>18, <1>19, <1>20, <1>22, <1>23, <1>24, <1>25, Ordinary

(***************************************************************************)
(* The bus notes a call and passes it on.                                  *)
(***************************************************************************)
(* A call that was not pending is now; all else is as it was.              *)
LEMMA CallNoted ==
  ASSUME RemoteInv, BusInv', Kept, NEW w \in Workers, NEW x \in Messages, NEW c \in CallSet,
         InCall(x), msg[x].major = w, c.m = x, c.type = msg[x].type, c.info = msg[x].extra,
         calls' = [calls EXCEPT ![w] = Append(calls[w], c)]
  PROVE  /\ \A m, v : v \in Workers => (Awaits(m, v)' <=> Awaits(m, v) \/ (m = x /\ v = w))
         /\ PendingCalls'
<1>1. /\ BusInv /\ PendingCalls /\ CallNamed(x) /\ calls \in [Workers -> Seq(CallSet)]
      /\ calls[w] \in Seq(CallSet)
  BY MessageTypes DEF RemoteInv, CallPart, CallsNamed
<1>2. /\ calls'[w] = Append(calls[w], c) /\ \A v \in Workers : v # w => calls'[v] = calls[v]
  BY <1>1
<1>3. /\ Len(calls[w]) \in Nat /\ DOMAIN calls[w] = 1 .. Len(calls[w])
      /\ DOMAIN calls'[w] = 1 .. Len(calls[w]) + 1
      /\ \A i \in 1 .. Len(calls[w]) : calls'[w][i] = calls[w][i]
      /\ calls'[w][Len(calls[w]) + 1] = c
  BY <1>1, <1>2, AppendProperties, LenProperties
<1>4. ASSUME NEW v \in Workers, NEW i \in DOMAIN calls'[v]
      PROVE  \/ i \in DOMAIN calls[v] /\ calls'[v][i] = calls[v][i]
             \/ v = w /\ calls'[v][i] = c
  <2>1. CASE v # w
    BY <1>2, <2>1
  <2>2. CASE v = w
    <3>1. i \in 1 .. Len(calls[w]) \/ i = Len(calls[w]) + 1
      BY <1>3, <2>2
    <3>2. QED
      BY <1>3, <2>2, <3>1
  <2>3. QED
    BY <2>1, <2>2
<1>5. ASSUME NEW v \in Workers, NEW i \in DOMAIN calls[v]
      PROVE  i \in DOMAIN calls'[v] /\ calls'[v][i] = calls[v][i]
  <2>1. CASE v # w
    BY <1>2, <2>1
  <2>2. CASE v = w
    BY <1>3, <2>2
  <2>3. QED
    BY <2>1, <2>2
<1>6. ASSUME NEW m, NEW v, v \in Workers
      PROVE  Awaits(m, v)' <=> Awaits(m, v) \/ (m = x /\ v = w)
  <2>1. ASSUME Awaits(m, v)'
        PROVE  Awaits(m, v) \/ (m = x /\ v = w)
    <3>1. PICK i \in DOMAIN calls'[v] : calls'[v][i].m = m
      BY <2>1 DEF Awaits
    <3>2. QED
      BY <1>4, <1>6, <3>1 DEF Awaits
  <2>2. ASSUME Awaits(m, v)
        PROVE  Awaits(m, v)'
    <3>1. PICK i \in DOMAIN calls[v] : calls[v][i].m = m
      BY <2>2 DEF Awaits
    <3>2. QED
      BY <1>5, <1>6, <3>1 DEF Awaits
  <2>3. Awaits(x, w)'
    <3>1. Len(calls[w]) + 1 \in DOMAIN calls'[w]
      BY <1>3
    <3>2. QED
      BY <1>3, <3>1 DEF Awaits
  <2>4. QED
    BY <2>1, <2>2, <2>3
<1>7. ASSUME NEW v \in Workers, NEW i \in DOMAIN calls'[v]
      PROVE  PendingCall(v, calls[v][i])'
  <2>1. PICK e : e = calls'[v][i]
    OBVIOUS
  <2>2. Awaits(e.m, v)'
    BY <2>1 DEF Awaits
  <2>3. CASE v = w /\ e = c
    <3>1. Same(x) /\ msg[x].extra = msg[x].load
      BY <1>1 DEF Kept, InCall, CallNamed
    <3>2. x \notin Range(free')
      BY <2>2, <2>3, LocatedNext
    <3>3. PendingCall(v, e)'
      BY <2>3, <3>1, <3>2 DEF PendingCall, InCall, Same
    <3>4. QED
      BY <2>1, <3>3
  <2>4. CASE i \in DOMAIN calls[v] /\ e = calls[v][i]
    <3>1. InCall(e.m) /\ e.type = msg[e.m].type /\ e.info = msg[e.m].load /\ msg[e.m].major = v
      BY <1>1, <2>4 DEF PendingCalls, PendingCall
    <3>2. e.m \in Messages
      <4>1. calls[v] \in Seq(CallSet)
        BY <1>1
      <4>2. e \in CallSet
        BY <2>4, <4>1, ElementOfSeq
      <4>3. QED
        BY <4>2 DEF CallSet
    <3>3. Same(e.m)
      BY <3>1, <3>2 DEF Kept, InCall
    <3>4. e.m \notin Range(free')
      BY <2>2, <3>2, LocatedNext
    <3>5. PendingCall(v, e)'
      BY <3>1, <3>3, <3>4 DEF PendingCall, InCall, Same
    <3>6. QED
      BY <2>1, <3>5
  <2>5. QED
    BY <1>4, <2>1, <2>3, <2>4
<1>8. PendingCalls'
  BY <1>7, Zenon DEF PendingCalls
<1>9. QED
  BY <1>6, <1>8

LEMMA RemoteBusCall ==
  ASSUME RemoteInv, BusInv', BusCall
  PROVE  RemoteInv'
<1>1. /\ BusInv /\ CallsNamed /\ OneMessage /\ NewRequests /\ NotExecuted /\ OpenCalls /\ Passed
      /\ OneReply /\ RepliesDue /\ BringsExpected /\ TaskPart
      /\ pc \in [Tasks -> Labels] /\ mine \in [Tasks -> Messages]
      /\ msg \in [Messages -> MessageSet] /\ OnePlace /\ NoRepeats /\ Bus \in Tasks
      /\ queue \in [Tasks -> Seq(Messages)] /\ cur \in [Tasks -> Messages]
      /\ issued \in [Tasks -> Nat]
  BY Names, MessageTypes DEF RemoteInv, CallPart, ReplyPart, BusInv, Accounts
<1>2. pc[Bus] = "idle" /\ queue[Bus] # << >> /\ Major \in Registered
  BY DEF BusCall, At
<1>3. PICK x \in Messages : x = Head(queue[Bus])
  BY <1>1, <1>2, QueueHead
<1>4. PICK w \in Workers : w = Major /\ w = msg[x].major
  BY <1>2, <1>3, TasksAssumption DEF Major
<1>5. w \in Tasks /\ w # Bus
  BY Names
<1>6. PICK c : c = [m |-> x, type |-> msg[x].type, info |-> msg[x].extra]
  OBVIOUS
<1>7. /\ msg[x].type \in Calls
      /\ calls' = [calls EXCEPT ![w] = Append(calls[w], c)]
      /\ msg' = [msg EXCEPT ![x] = [msg[x] EXCEPT !.ref = GetRef(x), !.dst = w]]
      /\ cur' = [cur EXCEPT ![Bus] = x]
      /\ UNCHANGED <<pc, free, mine, executed, result>>
      /\ UNCHANGED <<ret, op, issued, out>> /\ UNCHANGED <<arg, waitOn, callSem, deferred>>
  BY <1>3, <1>4, <1>6 DEF BusCall, Set, history
<1>8. /\ queue'[Bus] = Tail(queue[Bus])
      /\ \A u \in Tasks : u # Bus /\ u # w => queue'[u] = queue[u]
      /\ queue'[w] = Append(queue[w], x) \/ queue'[w] = queue[w]
  <2>1. queue' = [queue EXCEPT ![Bus] = Tail(@), ![w] = IF Fits(w) THEN Append(@, x) ELSE @]
    BY <1>3, <1>4 DEF BusCall
  <2>2. QED
    BY <2>1, <1>1, <1>5
<1>9. /\ IsAt(x, "queue", Bus) /\ x \notin Range(free)
      /\ Range(queue'[Bus]) = Range(queue[Bus]) \ {x}
  BY <1>1, <1>2, <1>3, <1>8, QueueHead
<1>10. InCall(x) /\ Underway(x)
  BY <1>1, <1>7, <1>9 DEF InCall, Underway, InQueue, IsAt
<1>11. \A u \in Tasks : \A y : y \in Range(queue'[u]) =>
         (y \in Range(queue[u]) /\ u # Bus) \/ (y \in Range(queue[u]) /\ y # x) \/ (y = x /\ u = w)
  <2>1. queue[w] \in Seq(Messages)
    BY <1>1, <1>5
  <2>2. Range(Append(queue[w], x)) = Range(queue[w]) \cup {x}
    BY <2>1, EndAdded
  <2>3. Range(queue'[w]) \subseteq Range(queue[w]) \cup {x}
    BY <1>8, <2>2
  <2>4. QED
    BY <1>5, <1>8, <1>9, <2>3
<1>12. /\ \A m \in Messages : m # x => msg'[m] = msg[m]
       /\ \A m \in Messages : Same(m)
  <2>1. msg[x] \in MessageSet
    BY <1>1
  <2>2. msg'[x] = [msg[x] EXCEPT !.ref = GetRef(x), !.dst = w]
    BY <1>1, <1>7
  <2>3. Same(x)
    BY <2>1, <2>2 DEF MessageSet, Same
  <2>4. QED
    BY <1>1, <1>7, <2>3 DEF Same
<1>13. Kept /\ CallsKept
  <2>1. Kept
    BY <1>12 DEF Kept
  <2>2. QED
    BY <1>7, <2>1, NoCallMade
<1>14. c \in CallSet /\ c.m = x /\ c.type = msg[x].type /\ c.info = msg[x].extra
  <2>1. CallNamed(x)
    BY <1>1, <1>10 DEF CallsNamed
  <2>2. msg[x].extra \in Requests
    BY <2>1 DEF CallNamed
  <2>3. QED
    BY <1>6, <1>7, <2>2 DEF CallSet
<1>15. /\ \A m, v : v \in Workers => (Awaits(m, v)' <=> Awaits(m, v) \/ (m = x /\ v = w))
       /\ PendingCalls'
  BY <1>4, <1>7, <1>10, <1>13, <1>14, CallNoted
<1>16. \A m \in Messages : Underway(m)' => Underway(m)
  <2>1. ASSUME NEW m \in Messages, Underway(m)', m # x
        PROVE  Underway(m)
    <3>1. CASE InQueue(m)'
      BY <1>11, <2>1, <3>1 DEF Underway, InQueue
    <3>2. CASE WithSender(m)'
      BY <1>7, <3>2 DEF Underway, WithSender
    <3>3. QED
      BY <2>1, <3>1, <3>2 DEF Underway
  <2>2. QED
    BY <1>10, <2>1
<1>17. NoCallSent /\ NoReturnSent
  BY <1>16 DEF NoCallSent, NoReturnSent
<1>18. \A u \in Tasks : TaskKept(u)
  BY <1>7 DEF TaskKept
<1>19. Others(Bus)
  BY <1>18 DEF Others
<1>20. \A u \in Tasks : AskKept(u)
  BY <1>1, <1>7 DEF AskKept, Asks
<1>21. CallsNamed' /\ OneMessage'
  BY <1>1, <1>13, <1>20, NamesKept
<1>22. NewRequests'
  BY <1>1, <1>7, <1>20, NewStay
<1>23. NotExecuted' /\ OpenCalls'
  <2>1. ASSUME NEW m \in Messages, Open(m)'
        PROVE  Open(m)
    <3>1. CASE Underway(m)'
      BY <1>16, <3>1 DEF Open
    <3>2. CASE \E v \in Workers : Awaits(m, v)'
      BY <1>10, <1>15, <3>2 DEF Open
    <3>3. QED
      BY <2>1, <3>1, <3>2 DEF Open
  <2>2. \A u \in Tasks, r \in Requests : GoesOn(u, r)
    BY <1>7, <1>18, OtherCaller
  <2>3. \A m \in Messages : InCall(m)' => (Underway(m)' => Underway(m)) /\ (Open(m)' => Open(m))
    BY <1>16, <2>1
  <2>4. QED
    BY <1>1, <1>7, <1>13, <2>2, <2>3, OpenKept
<1>24. Passed'
  <2>1. ASSUME NEW v \in Workers, NEW m \in Range(queue'[v]), msg'[m].type \in Calls
        PROVE  Awaits(m, msg[m].major)'
    <3>1. v \in Tasks /\ v # Bus
      BY Names
    <3>2. m \in Range(queue[v]) \/ m = x
      BY <1>11, <3>1
    <3>3. m \in Messages
      BY <1>1, <3>1, <3>2, RangeWithin
    <3>4. msg'[m].type = msg[m].type /\ msg'[m].major = msg[m].major
      BY <1>12, <3>3 DEF Same
    <3>5. PICK y : y = msg[m].major
      OBVIOUS
    <3>6. y \in Workers
      BY <1>1, <3>3, <3>5 DEF MessageSet
    <3>7. Awaits(m, y)'
      <4>1. CASE m = x
        BY <1>4, <1>15, <3>5, <4>1
      <4>2. CASE m \in Range(queue[v])
        BY <1>1, <1>15, <2>1, <3>4, <3>5, <3>6, <4>2 DEF Passed
      <4>3. QED
        BY <3>2, <4>1, <4>2
    <3>8. QED
      BY <3>4, <3>5, <3>7
  <2>2. ASSUME NEW u \in Tasks, pc'[u] = "invoke", msg'[mine'[u]].type \in Calls
        PROVE  msg'[mine'[u]].dst = NULL
    <3>1. pc[u] = "invoke" /\ mine'[u] = mine[u] /\ mine[u] \in Messages
      BY <1>1, <1>7, <2>2
    <3>2. mine[u] # x
      BY <1>1, <1>3, <1>9, <3>1, PlacesApart DEF Kinds
    <3>3. msg'[mine[u]] = msg[mine[u]]
      BY <1>12, <3>1, <3>2
    <3>4. QED
      BY <1>1, <2>2, <3>1, <3>3 DEF Passed
  <2>3. pc'[Bus] # "replicate"
    BY <1>2, <1>7
  <2>4. QED
    BY <2>1, <2>2, <2>3, Zenon DEF Passed
<1>25. CallPart'
  BY <1>15, <1>21, <1>22, <1>23, <1>24 DEF CallPart
<1>26. AwaitsKept /\ ExpectsKept
  <2>1. AwaitsKept
    BY <1>15 DEF AwaitsKept
  <2>2. QED
    BY <1>1, <1>13, <2>1, ExpectsStays
<1>27. ReplyPart'
  <2>1. TaskLeft(Bus)
    BY <1>1, <1>18 DEF TaskLeft, TaskKept, Keeps, Gives
  <2>2. OneReply' /\ RepliesDue'
    BY <1>1, <1>7, <1>13, <1>17, <1>19, <2>1, RepliesStay, RepliesKept
  <2>3. BringsExpected'
    BY <1>1, <1>13, <1>17, <1>26, BringsKept
  <2>4. QED
    BY <2>2, <2>3 DEF ReplyPart
<1>28. TaskPart'
  <2>1. ASSUME NEW u \in Tasks
        PROVE  TaskGood(u)'
    <3>1. TaskGood(u) /\ TaskKept(u)
      BY <1>1, <1>18 DEF TaskPart
    <3>2. RecordKept(u)
      BY <1>7 DEF RecordKept
    <3>3. KeepGood(u) /\ GiveGood(u) /\ deferred'[u] = deferred[u] /\ pc'[u] = pc[u] /\ arg'[u] = arg[u]
      BY <3>1 DEF TaskGood, TaskKept
    <3>4. KeepGood(u)' /\ GiveGood(u)'
      BY <1>1, <1>13, <1>26, <3>3, KeepStays, GiveStays
    <3>5. QED
      BY <1>1, <1>13, <3>1, <3>2, <3>4, OtherTask
  <2>2. QED
    BY <2>1, Zenon DEF TaskPart
<1>29. QED
  BY <1>25, <1>27, <1>28 DEF RemoteInv

(***************************************************************************)
(* A reply reaches the bus.                                                *)
(***************************************************************************)
(* As long as pending calls can be told apart, a return finds its own.     *)
OwnCall(x, w, i) ==
  /\ i = First(Matching(w, msg[x].seq)) /\ calls[w][i] \in CallSet
  /\ msg[calls[w][i].m].load = msg[x].load /\ msg[x].load \in Requests

LEMMA OwnCallFound ==
  ASSUME RemoteInv, CallsToldApart, NEW x \in Messages, Underway(x),
         msg[x].type = "CALL_RETURN", NEW w \in Workers, msg[x].major = w
  PROVE  \E i \in 1 .. Len(calls[w]) : OwnCall(x, w, i)
<1>1. BringsExpected /\ calls[w] \in Seq(CallSet)
  BY MessageTypes DEF RemoteInv, ReplyPart
<1>2. PICK s, r : s = msg[x].seq /\ r = msg[x].load
  OBVIOUS
<1>3. r \in Requests /\ Expects(w, s, r)
  BY <1>1, <1>2 DEF BringsExpected
<1>4. PICK y \in Messages : Awaits(y, w) /\ msg[y].seq = s /\ msg[y].load = r
  BY <1>3 DEF Expects
<1>5. DOMAIN calls[w] = 1 .. Len(calls[w])
  BY <1>1, LenProperties
<1>6. PICK i \in 1 .. Len(calls[w]) : calls[w][i].m = y
  BY <1>4, <1>5 DEF Awaits
<1>7. PICK found : found = Matching(w, s)
  OBVIOUS
<1>8. i \in found /\ \A j \in found : j \in 1 .. Len(calls[w]) /\ msg[calls[w][j].m].seq = s
  BY <1>4, <1>5, <1>6, <1>7 DEF Matching
<1>9. \A j \in found : j = i
  BY <1>4, <1>5, <1>6, <1>8 DEF CallsToldApart
<1>10. found \in SUBSET Nat /\ found # {}
  BY <1>8
<1>11. First(found) = i
  BY <1>9, <1>10, FirstFound
<1>12. calls[w][i] \in CallSet
  BY <1>1, <1>5, ElementOfSeq
<1>13. QED
  BY <1>2, <1>3, <1>4, <1>6, <1>7, <1>11, <1>12 DEF OwnCall

LEMMA CallForgotten ==
  ASSUME RemoteInv, NEW w \in Workers, NEW i \in 1 .. Len(calls[w]), NEW y \in Messages,
         calls[w][i].m = y, UNCHANGED <<msg, free>>,
         calls' = [calls EXCEPT ![w] = Without(calls[w], i)]
  PROVE  /\ \A m, v : v \in Workers => (Awaits(m, v)' <=> Awaits(m, v) /\ m # y)
         /\ PendingCalls'
<1>1. /\ PendingCalls /\ calls \in [Workers -> Seq(CallSet)] /\ calls[w] \in Seq(CallSet)
      /\ NoCallTwice /\ OneWaiter
  BY MessageTypes DEF RemoteInv, CallPart, BusInv, Accounts
<1>2. PICK s : s = calls[w]
  OBVIOUS
<1>3. /\ Len(s) \in Nat /\ DOMAIN s = 1 .. Len(s) /\ i \in 1 .. Len(s)
      /\ DOMAIN Without(s, i) = 1 .. Len(s) - 1
      /\ \A j \in 1 .. Len(s) - 1 : Without(s, i)[j] = s[IF j < i THEN j ELSE j + 1]
  BY <1>1, <1>2, LenProperties, OneTakenOff
<1>4. calls'[w] = Without(s, i) /\ \A v \in Workers : v # w => calls'[v] = calls[v]
  BY <1>1, <1>2
<1>5. ASSUME NEW j \in DOMAIN calls'[w]
      PROVE  \E k \in DOMAIN s : k # i /\ calls'[w][j] = s[k]
  <2>1. j \in 1 .. Len(s) - 1
    BY <1>3, <1>4
  <2>2. PICK k : k = IF j < i THEN j ELSE j + 1
    OBVIOUS
  <2>3. k \in 1 .. Len(s) /\ k # i
    BY <1>3, <2>1, <2>2
  <2>4. calls'[w][j] = s[k]
    BY <1>3, <1>4, <2>1, <2>2
  <2>5. QED
    BY <1>3, <2>3, <2>4
<1>6. ASSUME NEW k \in DOMAIN s, k # i
      PROVE  \E j \in DOMAIN calls'[w] : calls'[w][j] = s[k]
  <2>1. PICK j : j = IF k < i THEN k ELSE k - 1
    OBVIOUS
  <2>2. j \in 1 .. Len(s) - 1 /\ k = IF j < i THEN j ELSE j + 1
    BY <1>3, <1>6, <2>1
  <2>3. Without(s, i)[j] = s[k]
    BY <1>3, <2>2
  <2>4. QED
    BY <1>3, <1>4, <2>2, <2>3
<1>7. ASSUME NEW v \in Workers, NEW j \in DOMAIN calls'[v]
      PROVE  \E k \in DOMAIN calls[v] : calls'[v][j] = calls[v][k] /\ calls[v][k].m # y
  <2>1. CASE v = w
    <3>1. PICK k \in DOMAIN calls[w] : k # i /\ calls'[w][j] = calls[w][k]
      BY <1>2, <1>5, <2>1
    <3>2. calls[w][k].m # y
      BY <1>1, <1>2, <1>3, <3>1 DEF NoCallTwice
    <3>3. QED
      BY <2>1, <3>1, <3>2
  <2>2. CASE v # w
    <3>1. calls[v][j].m # y
      <4>1. SUFFICES ASSUME calls[v][j].m = y
                     PROVE  FALSE
        OBVIOUS
      <4>2. Waits(y, v) /\ Waits(y, w) /\ v \in Tasks /\ w \in Tasks
        BY <1>2, <1>3, <1>4, <2>2, <4>1, Names DEF Waits
      <4>3. QED
        BY <1>1, <2>2, <4>2 DEF OneWaiter
    <3>2. QED
      BY <1>4, <2>2, <3>1
  <2>3. QED
    BY <2>1, <2>2
<1>8. ASSUME NEW m, NEW v, v \in Workers
      PROVE  Awaits(m, v)' <=> Awaits(m, v) /\ m # y
  <2>1. ASSUME Awaits(m, v)'
        PROVE  Awaits(m, v) /\ m # y
    <3>1. PICK j \in DOMAIN calls'[v] : calls'[v][j].m = m
      BY <2>1 DEF Awaits
    <3>2. PICK k \in DOMAIN calls[v] : calls'[v][j] = calls[v][k] /\ calls[v][k].m # y
      BY <1>7, <1>8
    <3>3. QED
      BY <3>1, <3>2 DEF Awaits
  <2>2. ASSUME Awaits(m, v), m # y
        PROVE  Awaits(m, v)'
    <3>1. PICK k \in DOMAIN calls[v] : calls[v][k].m = m
      BY <2>2 DEF Awaits
    <3>2. CASE v = w
      <4>1. k \in DOMAIN s /\ k # i
        BY <1>2, <2>2, <3>1, <3>2
      <4>2. PICK j \in DOMAIN calls'[w] : calls'[w][j] = s[k]
        BY <1>6, <4>1
      <4>3. QED
        BY <1>2, <3>1, <3>2, <4>2 DEF Awaits
    <3>3. CASE v # w
      BY <1>4, <1>8, <2>2, <3>3 DEF Awaits
    <3>4. QED
      BY <3>2, <3>3
  <2>3. QED
    BY <2>1, <2>2
<1>9. ASSUME NEW v \in Workers, NEW j \in DOMAIN calls'[v]
      PROVE  PendingCall(v, calls[v][j])'
  <2>1. PICK k \in DOMAIN calls[v] : calls'[v][j] = calls[v][k]
    BY <1>7
  <2>2. PendingCall(v, calls[v][k])
    BY <1>1 DEF PendingCalls
  <2>3. QED
    BY <2>1, <2>2 DEF PendingCall, InCall
<1>10. PendingCalls'
  BY <1>9, Zenon DEF PendingCalls
<1>11. QED
  BY <1>8, <1>10

(* The bus takes the return x and forgets the call y, which it answers     *)
(* with the reply to r.                                                    *)
Answers(x, y, r) ==
  /\ x \in Messages /\ y \in Messages /\ r \in Requests
  /\ Underway(x) /\ msg[x].type = "CALL_RETURN" /\ msg[x].load = r
  /\ InCall(y) /\ msg[y].load = r /\ ~Underway(y)
  /\ executed[r] = 1 /\ result[r] = NULL
  /\ r[2] <= issued[r[1]] /\ (Asks(r[1]) => r[2] < issued[r[1]])
  /\ UNCHANGED <<msg, free>> /\ (\A w \in Workers : queue'[w] = queue[w])
  /\ \A m \in Messages : Underway(m)' => Underway(m) /\ m # x
  /\ \A m, v : v \in Workers => (Awaits(m, v)' <=> Awaits(m, v) /\ m # y)
  /\ PendingCalls'
  /\ pc[Bus] = "idle" /\ pc'[Bus] = "release_call"
  /\ \A u \in Tasks : u # Bus => pc'[u] = pc[u] /\ mine'[u] = mine[u]
  /\ UNCHANGED <<arg, ret, op, issued, waitOn, deferred, executed>>
  /\ \A q \in Requests : q # r => result'[q] = result[q]
  /\ \/ NotCalled(r[1], r) /\ result'[r] = r /\ UNCHANGED <<callSem, out>>
     \/ /\ WaitsFor(r[1], r) /\ result' = result
        /\ out'[r[1]] = r /\ callSem'[r[1]] = 1
        /\ \A u \in Tasks : u # r[1] => callSem'[u] = callSem[u] /\ out'[u] = out[u]

LEMMA ReturnAnswers ==
  ASSUME RemoteInv, CallsToldApart, BusReturn
  PROVE  \E x, y, r : Answers(x, y, r)
<1>1. /\ BusInv /\ CallsNamed /\ NotExecuted /\ OpenCalls /\ PendingCalls
      /\ OneReply /\ RepliesDue /\ BringsExpected /\ TaskPart
      /\ pc \in [Tasks -> Labels] /\ mine \in [Tasks -> Messages]
      /\ msg \in [Messages -> MessageSet] /\ OnePlace /\ NoRepeats /\ Bus \in Tasks
      /\ queue \in [Tasks -> Seq(Messages)] /\ result \in [Requests -> Values]
      /\ out \in [Tasks -> Values] /\ callSem \in [Tasks -> Nat]
  BY Names, MessageTypes DEF RemoteInv, CallPart, ReplyPart, BusInv, TaskTypes, Accounts
<1>2. /\ pc[Bus] = "idle" /\ queue[Bus] # << >> /\ msg[Head(queue[Bus])].type = "CALL_RETURN"
      /\ queue' = [queue EXCEPT ![Bus] = Tail(queue[Bus])]
      /\ pc' = [pc EXCEPT ![Bus] = "release_call"]
      /\ UNCHANGED <<msg, free>> /\ UNCHANGED <<arg, ret, op, issued, waitOn, deferred, executed>>
  BY DEF BusReturn, Receive, Set, At, Goto, poolVars
<1>3. PICK x \in Messages : x = Head(queue[Bus])
  BY <1>1, <1>2, QueueHead
<1>4. PICK w \in Workers : w = msg[x].major
  BY <1>1 DEF MessageSet
<1>5. IsAt(x, "queue", Bus) /\ \A u \in Tasks : x \notin Range(queue'[u])
  <2>1. \A u \in Tasks : x \notin Range(queue'[u])
    BY <1>1, <1>2, <1>3, OneTaken
  <2>2. QED
    BY <1>1, <1>2, <1>3, <2>1, QueueHead
<1>6. Underway(x)
  BY <1>1, <1>5 DEF Underway, InQueue, IsAt
<1>7. PICK i \in 1 .. Len(calls[w]) :
        /\ i = First(Matching(w, msg[x].seq)) /\ calls[w][i] \in CallSet
        /\ msg[calls[w][i].m].load = msg[x].load /\ msg[x].load \in Requests
  <2>1. msg[x].type = "CALL_RETURN" /\ msg[x].major = w
    BY <1>2, <1>3, <1>4
  <2>2. PICK i \in 1 .. Len(calls[w]) : OwnCall(x, w, i)
    BY <1>6, <2>1, OwnCallFound
  <2>3. QED
    BY <2>2 DEF OwnCall
<1>8. PICK c \in CallSet : c = calls[w][i]
  BY <1>7
<1>9. PICK y \in Messages : y = c.m
  BY DEF CallSet
<1>10. PICK r \in Requests : r = msg[x].load
  BY <1>7
<1>11. DOMAIN calls[w] = 1 .. Len(calls[w])
  <2>1. calls[w] \in Seq(CallSet)
    BY <1>1, MessageTypes
  <2>2. QED
    BY <2>1, LenProperties
<1>12. /\ InCall(y) /\ c.type = msg[y].type /\ c.info = r /\ msg[y].load = r
       /\ Awaits(y, w)
  <2>1. PendingCall(w, c)
    BY <1>1, <1>8, <1>11 DEF PendingCalls
  <2>2. QED
    BY <1>7, <1>8, <1>9, <1>10, <1>11, <2>1 DEF PendingCall, Awaits
<1>13. /\ msg[y].extra = r /\ msg[y].src = r[1] /\ r[2] <= issued[r[1]]
       /\ Asks(r[1]) => r[2] < issued[r[1]]
  BY <1>1, <1>12 DEF CallsNamed, CallNamed
<1>14. /\ result[r] = NULL
       /\ msg[y].type = "SYNC_CALL" => WaitsFor(r[1], r)
       /\ msg[y].type = "ASYNC_CALL" => NotCalled(r[1], r)
  <2>1. OpenCall(y)
    BY <1>1, <1>12 DEF OpenCalls, Open
  <2>2. QED
    BY <1>12, <1>13, <2>1 DEF OpenCall
<1>15. executed[r] = 1
  <2>1. ReplyAt(r, "sent", x)
    BY <1>2, <1>3, <1>6, <1>10 DEF ReplyAt, Brings
  <2>2. QED
    BY <1>1, <2>1 DEF RepliesDue, ReplyKinds, Holders
<1>16. ~Underway(y)
  BY <1>1, <1>12, <1>15 DEF NotExecuted
<1>17. /\ calls' = [calls EXCEPT ![w] = Without(calls[w], i)]
       /\ mine' = [mine EXCEPT ![Bus] = y]
       /\ \/ /\ c.type = "SYNC_CALL" /\ result' = result
             /\ op[msg[y].src] = msg[y].extra => out' = [out EXCEPT ![msg[y].src] = r]
             /\ callSem' = [callSem EXCEPT ![msg[y].src] = callSem[msg[y].src] + 1]
          \/ /\ c.type # "SYNC_CALL" /\ result' = [result EXCEPT ![c.info] = r]
             /\ UNCHANGED <<out, callSem>>
  BY <1>3, <1>4, <1>7, <1>8, <1>9, <1>10 DEF BusReturn, Major, Notify, Set
<1>18. /\ \A m, v : v \in Workers => (Awaits(m, v)' <=> Awaits(m, v) /\ m # y)
       /\ PendingCalls'
  <2>1. calls[w][i].m = y /\ calls' = [calls EXCEPT ![w] = Without(calls[w], i)]
    BY <1>8, <1>9, <1>17
  <2>2. UNCHANGED <<msg, free>>
    BY <1>2
  <2>3. RemoteInv /\ w \in Workers /\ i \in 1 .. Len(calls[w]) /\ y \in Messages
    BY <1>7
  <2>4. QED
    BY <2>1, <2>2, <2>3, CallForgotten, ZenonT(60)
<1>19. /\ \A u \in Workers : queue'[u] = queue[u]
       /\ pc'[Bus] = "release_call"
       /\ \A u \in Tasks : u # Bus => pc'[u] = pc[u] /\ mine'[u] = mine[u]
  BY <1>1, <1>2, <1>17, Names
<1>20. \A m \in Messages : Underway(m)' => Underway(m) /\ m # x
  <2>1. ASSUME NEW m \in Messages, InQueue(m)'
        PROVE  Underway(m) /\ m # x
    <3>1. QueuesShrink
      BY <1>1, <1>2, OneTaken
    <3>2. QED
      BY <1>5, <2>1, <3>1 DEF Underway, InQueue, QueuesShrink
  <2>2. ASSUME NEW m \in Messages, WithSender(m)'
        PROVE  Underway(m) /\ m # x
    <3>1. PICK u \in Tasks : pc[u] = "invoke" /\ mine[u] = m
      BY <1>19, <2>2 DEF WithSender
    <3>2. m # x
      BY <1>1, <1>5, <3>1, PlacesApart DEF Kinds
    <3>3. QED
      BY <3>1, <3>2 DEF Underway, WithSender
  <2>3. QED
    BY <2>1, <2>2 DEF Underway
<1>21. \/ NotCalled(r[1], r) /\ result'[r] = r /\ UNCHANGED <<callSem, out>>
       \/ /\ WaitsFor(r[1], r) /\ result' = result
          /\ out'[r[1]] = r /\ callSem'[r[1]] = 1
          /\ \A u \in Tasks : u # r[1] => callSem'[u] = callSem[u] /\ out'[u] = out[u]
  <2>1. CASE c.type = "SYNC_CALL"
    <3>1. WaitsFor(r[1], r) /\ r[1] \in Tasks
      BY <1>12, <1>14, <2>1, RequestParts
    <3>2. PICK t \in Tasks : t = r[1]
      BY <3>1
    <3>3. /\ result' = result /\ out' = [out EXCEPT ![t] = r]
          /\ callSem' = [callSem EXCEPT ![t] = callSem[t] + 1]
      BY <1>13, <1>17, <2>1, <3>1, <3>2 DEF WaitsFor
    <3>4. callSem[t] = 0
      BY <3>1, <3>2 DEF WaitsFor
    <3>5. /\ out'[t] = r /\ callSem'[t] = 1
          /\ \A u \in Tasks : u # t => callSem'[u] = callSem[u] /\ out'[u] = out[u]
      BY <1>1, <3>3, <3>4
    <3>6. QED
      BY <3>1, <3>2, <3>3, <3>5
  <2>2. CASE c.type # "SYNC_CALL"
    <3>1. NotCalled(r[1], r)
      BY <1>12, <1>14, <2>2 DEF InCall, Calls
    <3>2. result' = [result EXCEPT ![r] = r] /\ UNCHANGED <<out, callSem>>
      BY <1>12, <1>17, <2>2
    <3>3. QED
      BY <1>1, <3>1, <3>2
  <2>3. QED
    BY <2>1, <2>2
<1>22. \A q \in Requests : q # r => result'[q] = result[q]
  BY <1>1, <1>12, <1>17
<1>23. Answers(x, y, r)
  BY <1>2, <1>3, <1>6, <1>10, <1>12, <1>13, <1>14, <1>15, <1>16, <1>18, <1>19, <1>20, <1>21, <1>22
     DEF Answers
<1>24. QED
  BY <1>23

LEMMA AnswersCalls ==
  ASSUME RemoteInv, BusInv', NEW x, NEW y, NEW r, Answers(x, y, r)
  PROVE  CallPart'
<1>1. /\ BusInv /\ CallsNamed /\ OneMessage /\ NewRequests /\ NotExecuted /\ OpenCalls
      /\ Passed /\ issued \in [Tasks -> Nat] /\ queue \in [Tasks -> Seq(Messages)]
      /\ msg \in [Messages -> MessageSet] /\ mine \in [Tasks -> Messages] /\ Bus \in Tasks
  BY Names, MessageTypes DEF RemoteInv, CallPart
<1>2. /\ x \in Messages /\ y \in Messages /\ r \in Requests /\ InCall(y) /\ msg[y].load = r
      /\ ~Underway(y) /\ r[2] <= issued[r[1]]
      /\ UNCHANGED <<msg, free>> /\ (\A w \in Workers : queue'[w] = queue[w])
      /\ UNCHANGED <<arg, op, issued, executed>> /\ PendingCalls'
      /\ \A m \in Messages : Underway(m)' => Underway(m) /\ m # x
      /\ \A m, v : v \in Workers => (Awaits(m, v)' <=> Awaits(m, v) /\ m # y)
      /\ pc[Bus] = "idle" /\ pc'[Bus] = "release_call"
      /\ \A u \in Tasks : u # Bus => pc'[u] = pc[u] /\ mine'[u] = mine[u]
      /\ \A q \in Requests : q # r => result'[q] = result[q]
  BY DEF Answers
<1>3. Kept /\ CallsKept
  <2>1. Kept
    BY <1>2 DEF Kept, Same
  <2>2. QED
    BY <1>2, <2>1, NoCallMade
<1>4. \A u \in Tasks : AskKept(u)
  <2>1. ASSUME NEW u \in Tasks
        PROVE  AskKept(u)
    <3>1. Asks(u)' => Asks(u)
      BY <1>2 DEF Asks, Preparing
    <3>2. issued[u] \in Nat /\ issued'[u] = issued[u]
      BY <1>1, <1>2
    <3>3. QED
      BY <3>1, <3>2 DEF AskKept
  <2>2. QED
    BY <2>1
<1>5. CallsNamed' /\ OneMessage'
  BY <1>1, <1>3, <1>4, NamesKept
<1>6. NewRequests'
  <2>1. ASSUME NEW q \in Requests, q[2] > issued'[q[1]]
        PROVE  executed'[q] = executed[q] /\ result'[q] = result[q]
    <3>1. q[1] \in Tasks /\ q[2] \in Nat
      BY RequestParts
    <3>2. issued[q[1]] \in Nat /\ q[2] > issued[q[1]]
      BY <1>1, <1>2, <2>1, <3>1
    <3>3. q # r
      BY <1>2, <3>1, <3>2
    <3>4. QED
      BY <1>2, <3>3
  <2>2. QED
    BY <1>1, <1>4, <2>1, NewStay
<1>7. \A m \in Messages : Open(m)' => Open(m) /\ m # y
  <2>1. ASSUME NEW m \in Messages, Open(m)'
        PROVE  Open(m) /\ m # y
    <3>1. CASE Underway(m)'
      BY <1>2, <3>1 DEF Open
    <3>2. CASE \E v \in Workers : Awaits(m, v)'
      BY <1>2, <3>2 DEF Open
    <3>3. QED
      BY <2>1, <3>1, <3>2 DEF Open
  <2>2. QED
    BY <2>1
<1>8. NotExecuted' /\ OpenCalls'
  <2>1. ASSUME NEW m \in Messages, NEW u \in Tasks, NEW q \in Requests, InCall(m), Open(m)',
               msg[m].load = q
        PROVE  GoesOn(u, q)
    <3>1. m # y
      BY <1>7, <2>1
    <3>2. q # r
      BY <1>1, <1>2, <2>1, <3>1 DEF OneMessage
    <3>3. result'[q] = result[q]
      BY <1>2, <3>2
    <3>4. NotCalled(u, q) => NotCalled(u, q)'
      BY <1>2 DEF NotCalled
    <3>5. ASSUME WaitsFor(u, q)
          PROVE  WaitsFor(u, q)'
      <4>1. u # Bus
        BY <1>2, <3>5 DEF WaitsFor
      <4>2. callSem'[u] = callSem[u]
        <5>1. CASE UNCHANGED callSem
          BY <5>1
        <5>2. CASE WaitsFor(r[1], r) /\ \A t \in Tasks : t # r[1] => callSem'[t] = callSem[t]
          BY <3>2, <3>5, <5>2 DEF WaitsFor
        <5>3. QED
          BY <5>1, <5>2 DEF Answers
      <4>3. QED
        BY <1>2, <3>5, <4>1, <4>2 DEF WaitsFor
    <3>6. QED
      BY <3>3, <3>4, <3>5 DEF GoesOn
  <2>2. \A m \in Messages : InCall(m)' => (Underway(m)' => Underway(m)) /\ (Open(m)' => Open(m))
    BY <1>2, <1>7
  <2>3. \A m \in Messages, t \in Tasks, q \in Requests :
          /\ InCall(m) /\ InCall(m)' /\ Open(m) /\ Open(m)'
          /\ msg[m].src = t /\ msg[m].load = q
          => GoesOn(t, q)
    BY <2>1
  <2>4. QED
    BY <1>1, <1>2, <1>3, <2>2, <2>3, OpenKept
<1>9. Passed'
  <2>1. ASSUME NEW v \in Workers, NEW m \in Range(queue'[v]), msg'[m].type \in Calls
        PROVE  Awaits(m, msg[m].major)'
    <3>1. v \in Tasks /\ m \in Range(queue[v])
      BY <1>2, Names
    <3>2. m \in Messages
      BY <1>1, <3>1, RangeWithin
    <3>3. PICK z : z = msg[m].major
      OBVIOUS
    <3>4. z \in Workers
      BY <1>1, <3>2, <3>3 DEF MessageSet
    <3>5. Underway(m)
      BY <3>1 DEF Underway, InQueue
    <3>6. Awaits(m, z)
      BY <1>1, <1>2, <2>1, <3>1, <3>3 DEF Passed
    <3>7. Awaits(m, z)'
      BY <1>2, <3>4, <3>5, <3>6
    <3>8. z = msg'[m].major
      BY <1>2, <3>3
    <3>9. QED
      BY <3>7, <3>8
  <2>2. ASSUME NEW u \in Tasks, pc'[u] = "invoke", msg'[mine'[u]].type \in Calls
        PROVE  msg'[mine'[u]].dst = NULL
    <3>1. pc[u] = "invoke" /\ mine'[u] = mine[u]
      BY <1>2, <2>2
    <3>2. QED
      BY <1>1, <1>2, <2>2, <3>1 DEF Passed
  <2>3. QED
    BY <1>2, <2>1, <2>2, Zenon DEF Passed
<1>10. QED
  BY <1>2, <1>5, <1>6, <1>8, <1>9 DEF CallPart

LEMMA AnswersReplies ==
  ASSUME RemoteInv, BusInv', NEW x, NEW y, NEW r, Answers(x, y, r)
  PROVE  /\ ReplyPart'
         /\ \A u \in Tasks : KeepGood(u)'
         /\ \A u \in Tasks : u # Bus => GiveGood(u)'
<1>1. /\ BusInv /\ OneReply /\ RepliesDue /\ BringsExpected /\ TaskPart
      /\ msg \in [Messages -> MessageSet] /\ arg \in [Tasks -> ArgumentSet]
      /\ deferred \in [Tasks -> SUBSET DeferredSet]
  BY MessageTypes DEF RemoteInv, ReplyPart
<1>2. /\ x \in Messages /\ y \in Messages /\ r \in Requests /\ msg[y].load = r
      /\ Underway(x) /\ msg[x].type = "CALL_RETURN" /\ msg[x].load = r
      /\ UNCHANGED <<msg, free>> /\ UNCHANGED <<arg, deferred, executed>>
      /\ \A m \in Messages : Underway(m)' => Underway(m) /\ m # x
      /\ \A m, v : v \in Workers => (Awaits(m, v)' <=> Awaits(m, v) /\ m # y)
      /\ pc'[Bus] = "release_call" /\ \A u \in Tasks : u # Bus => pc'[u] = pc[u]
  BY DEF Answers
<1>3. ASSUME NEW k \in ReplyKinds, NEW h \in Holders, ReplyAt(r, k, h)
      PROVE  k = "sent" /\ h = x
  <2>1. ReplyAt(r, "sent", x)
    BY <1>2 DEF ReplyAt, Brings
  <2>2. "sent" \in ReplyKinds /\ x \in Holders
    BY <1>2 DEF ReplyKinds, Holders
  <2>3. QED
    BY <1>1, <1>2, <1>3, <2>1, <2>2, Zenon DEF OneReply
<1>4. RepliesLeft
  <2>1. SUFFICES ASSUME NEW q \in Requests, NEW k \in ReplyKinds, NEW h \in Holders,
                        ReplyAt(q, k, h)'
                 PROVE  ReplyAt(q, k, h)
    BY Zenon DEF RepliesLeft
  <2>2. h \in Tasks => (Keeps(h, q)' => Keeps(h, q)) /\ (Gives(h, q)' => Gives(h, q))
    BY <1>2 DEF Keeps, Gives, Preparing
  <2>3. h \in Messages => (Brings(h, q)' => Brings(h, q))
    BY <1>2 DEF Brings
  <2>4. QED
    BY <2>1, <2>2, <2>3, Zenon DEF ReplyAt
<1>5. OneReply' /\ RepliesDue'
  BY <1>1, <1>2, <1>4, RepliesKept
<1>6. ASSUME NEW w \in Workers, NEW s, NEW q, q # r, Expects(w, s, q)
      PROVE  Expects(w, s, q)'
  <2>1. PICK m \in Messages : Awaits(m, w) /\ msg[m].seq = s /\ msg[m].load = q
    BY <1>6 DEF Expects
  <2>2. Awaits(m, w)'
    BY <1>2, <1>6, <2>1
  <2>3. QED
    BY <1>2, <2>1, <2>2 DEF Expects
<1>7. BringsExpected'
  <2>1. ASSUME NEW m \in Messages, Underway(m)', msg'[m].type = "CALL_RETURN"
        PROVE  msg'[m].load \in Requests /\ Expects(msg[m].major, msg[m].seq, msg[m].load)'
    <3>1. PICK w, s, q : w = msg[m].major /\ s = msg[m].seq /\ q = msg[m].load
      OBVIOUS
    <3>2. w \in Workers /\ Underway(m) /\ m # x
      BY <1>1, <1>2, <2>1, <3>1 DEF MessageSet
    <3>3. q \in Requests /\ Expects(w, s, q)
      BY <1>1, <1>2, <2>1, <3>1, <3>2 DEF BringsExpected
    <3>4. q # r
      <4>1. q = r => ReplyAt(r, "sent", m)
        BY <1>2, <2>1, <3>1, <3>2 DEF ReplyAt, Brings
      <4>2. QED
        BY <1>3, <3>2, <4>1 DEF ReplyKinds, Holders
    <3>5. Expects(w, s, q)'
      BY <1>6, <3>2, <3>3, <3>4
    <3>6. w = msg'[m].major /\ s = msg'[m].seq /\ q = msg'[m].load
      BY <1>2, <3>1
    <3>7. QED
      BY <3>3, <3>5, <3>6
  <2>2. QED
    BY <2>1, Zenon DEF BringsExpected
<1>8. ASSUME NEW u \in Tasks
      PROVE  KeepGood(u)'
  <2>1. ASSUME NEW d \in deferred'[u]
        PROVE  msg'[d.m].load = d.load /\ Awaits(d.m, msg[d.m].major)'
    <3>1. d \in deferred[u] /\ d.m \in Messages /\ d.load \in Requests
      <4>1. d \in deferred[u] /\ deferred[u] \subseteq DeferredSet
        BY <1>1, <1>2
      <4>2. QED
        BY <4>1 DEF DeferredSet
    <3>2. PICK w : w = msg[d.m].major
      OBVIOUS
    <3>3. w \in Workers
      BY <1>1, <3>1, <3>2 DEF MessageSet
    <3>4. msg[d.m].load = d.load /\ Awaits(d.m, w)
      BY <1>1, <3>1, <3>2 DEF TaskPart, TaskGood, KeepGood
    <3>5. d.m # y
      <4>1. d.m = y => d.load = r
        BY <1>2, <3>4
      <4>2. d.load = r => ReplyAt(r, "kept", u)
        BY <3>1 DEF ReplyAt, Keeps
      <4>3. QED
        BY <1>3, <4>1, <4>2 DEF ReplyKinds, Holders
    <3>6. Awaits(d.m, w)'
      BY <1>2, <3>3, <3>4, <3>5
    <3>7. w = msg'[d.m].major /\ msg'[d.m].load = d.load
      BY <1>2, <3>2, <3>4
    <3>8. QED
      BY <3>6, <3>7
  <2>2. QED
    BY <2>1, Zenon DEF KeepGood
<1>9. ASSUME NEW u \in Tasks, u # Bus
      PROVE  GiveGood(u)'
  <2>1. SUFFICES ASSUME pc'[u] \in Preparing, arg'[u].type = "CALL_RETURN"
                 PROVE  arg'[u].load \in Requests /\ Expects(arg[u].major, arg[u].seq, arg[u].load)'
    BY Zenon DEF GiveGood
  <2>2. PICK w, s, q : w = arg[u].major /\ s = arg[u].seq /\ q = arg[u].load
    OBVIOUS
  <2>3. w \in Workers /\ pc[u] \in Preparing /\ arg[u].type = "CALL_RETURN"
    BY <1>1, <1>2, <1>9, <2>1, <2>2 DEF ArgumentSet
  <2>4. q \in Requests /\ Expects(w, s, q)
    BY <1>1, <2>2, <2>3 DEF TaskPart, TaskGood, GiveGood
  <2>5. q # r
    <3>1. q = r => ReplyAt(r, "given", u)
      BY <2>2, <2>3 DEF ReplyAt, Gives
    <3>2. QED
      BY <1>3, <3>1 DEF ReplyKinds, Holders
  <2>6. Expects(w, s, q)'
    BY <1>6, <2>3, <2>4, <2>5
  <2>7. w = arg'[u].major /\ s = arg'[u].seq /\ q = arg'[u].load
    BY <1>2, <2>2
  <2>8. QED
    BY <2>4, <2>6, <2>7
<1>10. QED
  BY <1>5, <1>7, <1>8, <1>9 DEF ReplyPart

LEMMA AnswersTasks ==
  ASSUME RemoteInv, BusInv', NEW x, NEW y, NEW r, Answers(x, y, r)
  PROVE  TaskPart'
<1>1. /\ BusInv /\ OneMessage /\ TaskPart /\ Bus \in Tasks /\ pc \in [Tasks -> Labels]
      /\ mine \in [Tasks -> Messages] /\ callSem \in [Tasks -> Nat]
  BY Names, MessageTypes DEF RemoteInv, CallPart
<1>2. /\ y \in Messages /\ r \in Requests /\ InCall(y) /\ msg[y].load = r
      /\ ~Underway(y) /\ executed[r] = 1 /\ result[r] = NULL
      /\ (Asks(r[1]) => r[2] < issued[r[1]])
      /\ UNCHANGED <<msg, free>>
      /\ UNCHANGED <<arg, ret, op, issued, waitOn, deferred, executed>>
      /\ pc[Bus] = "idle" /\ pc'[Bus] = "release_call"
      /\ \A u \in Tasks : u # Bus => pc'[u] = pc[u] /\ mine'[u] = mine[u]
      /\ \A q \in Requests : q # r => result'[q] = result[q]
  BY DEF Answers
<1>3. \/ NotCalled(r[1], r) /\ UNCHANGED <<callSem, out>>
      \/ /\ WaitsFor(r[1], r) /\ result' = result
         /\ out'[r[1]] = r /\ callSem'[r[1]] = 1
         /\ \A u \in Tasks : u # r[1] => callSem'[u] = callSem[u] /\ out'[u] = out[u]
  BY DEF Answers
<1>4. /\ \A u \in Tasks : KeepGood(u)'
      /\ \A u \in Tasks : u # Bus => GiveGood(u)'
  BY AnswersReplies
<1>5. Kept /\ r[1] \in Tasks /\ r[2] \in Nat
  BY <1>2, RequestParts DEF Kept, Same
<1>6. TaskGood(Bus)'
  <2>1. callSem'[Bus] = 0
    <3>1. callSem[Bus] = 0
      BY <1>1, <1>2, NotWoken
    <3>2. callSem'[Bus] = callSem[Bus]
      BY <1>1, <1>2, <1>3 DEF WaitsFor
    <3>3. QED
      BY <3>1, <3>2
  <2>2. pc'[Bus] \notin Sending \cup {"op_end"}
    BY <1>2 DEF Sending
  <2>3. AskGood(Bus)' /\ CallGood(Bus)' /\ WokenGood(Bus)' /\ GiveGood(Bus)' /\ Answered(Bus)'
    BY <2>1, <2>2, Resting
  <2>4. QED
    BY <1>1, <1>4, <2>3 DEF TaskGood
<1>7. ASSUME NEW u \in Tasks, u # Bus, WaitsFor(u, r), result' = result,
             out'[u] = r, callSem'[u] = 1
      PROVE  TaskGood(u)'
  <2>1. /\ op[u] = r /\ arg[u].type = "SYNC_CALL" /\ pc[u] \in {"invoke", "test", "pend"}
        /\ pc'[u] = pc[u] /\ mine'[u] = mine[u] /\ CallGood(u)
    BY <1>1, <1>2, <1>7 DEF WaitsFor, TaskPart, TaskGood
  <2>2. pc[u] # "invoke"
    <3>1. SUFFICES ASSUME pc[u] = "invoke"
                   PROVE  FALSE
      OBVIOUS
    <3>2. PICK m \in Messages : m = mine[u]
      BY <1>1
    <3>3. Underway(m)
      BY <3>1, <3>2 DEF Underway, WithSender
    <3>4. msg[m].type = "SYNC_CALL" /\ msg[m].load = r
      BY <2>1, <3>1, <3>2 DEF CallGood
    <3>5. InCall(m)
      BY <1>1, <3>3, <3>4, Located DEF InCall, Calls
    <3>6. m = y
      BY <1>1, <1>2, <3>4, <3>5 DEF OneMessage
    <3>7. QED
      BY <1>2, <3>3, <3>6
  <2>3. AskGood(u)'
    BY <2>1 DEF AskGood, Asks, Preparing
  <2>4. CallGood(u)'
    BY <1>2, <2>1 DEF CallGood
  <2>5. WokenGood(u)'
    BY <1>2, <1>7, <2>1, <2>2 DEF WokenGood
  <2>6. Answered(u)'
    BY <2>1 DEF Answered
  <2>7. QED
    BY <1>4, <1>7, <2>3, <2>4, <2>5, <2>6 DEF TaskGood
<1>8. ASSUME NEW u \in Tasks, u # Bus, callSem'[u] = callSem[u], out'[u] = out[u]
      PROVE  TaskGood(u)'
  <2>1. TaskGood(u)
    BY <1>1 DEF TaskPart
  <2>2. TaskKept(u)
    BY <1>2, <1>8 DEF TaskKept
  <2>3. RecordKept(u)
    <3>1. CASE result' = result
      BY <1>2, <3>1 DEF RecordKept
    <3>2. CASE NotCalled(r[1], r)
      <4>1. ASSUME NEW q \in Requests, Recorded(u, q)
            PROVE  q # r
        <5>1. CASE Asks(u) /\ q = <<u, issued[u]>>
          <6>1. q[1] = u /\ q[2] = issued[u]
            BY <5>1
          <6>2. QED
            BY <1>2, <1>5, <5>1, <6>1
        <5>2. CASE /\ callSem[u] > 0 \/ (pc[u] = "op_end" /\ arg[u].type = "SYNC_CALL")
                   /\ q = op[u]
          <6>1. q[1] = u /\ arg[u].type = "SYNC_CALL"
            BY <2>1, <5>2 DEF TaskGood, CallGood, WokenGood, Sending
          <6>2. QED
            BY <3>2, <5>2, <6>1 DEF NotCalled
        <5>3. QED
          BY <4>1, <5>1, <5>2 DEF Recorded
      <4>2. QED
        BY <1>2, <4>1 DEF RecordKept
    <3>3. QED
      BY <1>3, <3>1, <3>2
  <2>4. QED
    BY <1>1, <1>4, <1>5, <1>8, <2>1, <2>2, <2>3, OtherTask
<1>9. ASSUME NEW u \in Tasks
      PROVE  TaskGood(u)'
  <2>1. CASE u = Bus
    BY <1>6, <2>1
  <2>2. CASE u # Bus
    <3>1. CASE UNCHANGED <<callSem, out>>
      BY <1>8, <2>2, <3>1
    <3>2. CASE /\ WaitsFor(r[1], r) /\ result' = result
               /\ out'[r[1]] = r /\ callSem'[r[1]] = 1
               /\ \A t \in Tasks : t # r[1] => callSem'[t] = callSem[t] /\ out'[t] = out[t]
      <4>1. PICK t \in Tasks : t = r[1]
        BY <1>5
      <4>2. QED
        BY <1>7, <1>8, <2>2, <3>2, <4>1
    <3>3. QED
      BY <1>3, <3>1, <3>2
  <2>3. QED
    BY <2>1, <2>2
<1>10. QED
  BY <1>9, Zenon DEF TaskPart

LEMMA RemoteBusReturn ==
  ASSUME RemoteInv, BusInv', CallsToldApart, BusReturn
  PROVE  RemoteInv'
<1>1. PICK x, y, r : Answers(x, y, r)
  BY ReturnAnswers
<1>2. CallPart' /\ TaskPart'
  BY <1>1, AnswersCalls, AnswersTasks
<1>3. ReplyPart'
  BY <1>1, AnswersReplies
<1>4. QED
  BY <1>2, <1>3 DEF RemoteInv

(***************************************************************************)
(* The invariant holds at first and every step keeps it.                   *)
(***************************************************************************)
LEMMA RemoteSameState ==
  ASSUME RemoteInv, BusInv', UNCHANGED vars
  PROVE  RemoteInv'
<1>1. /\ UNCHANGED <<msg, free, queue, calls, cur, mine, deferred, executed, result>>
      /\ UNCHANGED <<pc, ret, op, issued, out>> /\ UNCHANGED <<arg, waitOn, callSem>>
  BY DEF vars
<1>2. /\ BusInv /\ Passed /\ OneReply /\ RepliesDue /\ BringsExpected /\ TaskPart
      /\ issued \in [Tasks -> Nat] /\ Bus \in Tasks
  BY Names, MessageTypes DEF RemoteInv, CallPart, ReplyPart
<1>3. Kept /\ CallsKept
  <2>1. Kept
    BY <1>1 DEF Kept, Same
  <2>2. QED
    BY <1>1, <2>1, NoCallMade
<1>4. NoCallSent /\ NoReturnSent
  BY <1>1 DEF NoCallSent, NoReturnSent, Underway, InQueue, WithSender
<1>5. \A u \in Tasks : TaskKept(u)
  BY <1>1 DEF TaskKept
<1>6. Others(Bus) /\ AskKept(Bus) /\ TaskLeft(Bus)
  BY <1>1, <1>2, <1>5 DEF Others, AskKept, Asks, TaskLeft, Keeps, Gives
<1>7. Passed'
  BY <1>1, <1>2 DEF Passed, Awaits
<1>8. CallPart'
  <2>1. \A u \in Tasks, r \in Requests : GoesOn(u, r)
    BY <1>1, <1>5, OtherCaller
  <2>2. QED
    BY <1>1, <1>2, <1>3, <1>4, <1>6, <1>7, <2>1, CallsGoOn
<1>9. AwaitsKept /\ ExpectsKept
  BY <1>1, <1>2, <1>3, AwaitsSame, ExpectsStays
<1>10. ReplyPart'
  <2>1. OneReply' /\ RepliesDue'
    BY <1>1, <1>2, <1>3, <1>4, <1>6, RepliesStay, RepliesKept
  <2>2. BringsExpected'
    BY <1>2, <1>3, <1>4, <1>9, BringsKept
  <2>3. QED
    BY <2>1, <2>2 DEF ReplyPart
<1>11. TaskPart'
  <2>1. ASSUME NEW u \in Tasks
        PROVE  TaskGood(u)'
    <3>1. TaskGood(u) /\ TaskKept(u)
      BY <1>2, <1>5 DEF TaskPart
    <3>2. RecordKept(u)
      BY <1>1 DEF RecordKept
    <3>3. KeepGood(u) /\ GiveGood(u) /\ deferred'[u] = deferred[u] /\ pc'[u] = pc[u] /\ arg'[u] = arg[u]
      BY <3>1 DEF TaskGood, TaskKept
    <3>4. KeepGood(u)' /\ GiveGood(u)'
      BY <1>2, <1>3, <1>9, <3>3, KeepStays, GiveStays
    <3>5. QED
      BY <1>2, <1>3, <3>1, <3>2, <3>4, OtherTask
  <2>2. QED
    BY <2>1, Zenon DEF TaskPart
<1>12. QED
  BY <1>8, <1>10, <1>11 DEF RemoteInv

LEMMA RemoteSendStep ==
  ASSUME RemoteInv, BusInv', Undisturbed, NEW t \in Tasks, SendStep(t)
  PROVE  RemoteInv'
BY RemoteSequenceIncrement, RemoteSequenceReturn, RemoteInitMessage, RemoteNoMessage,
   RemoteInvokePost, RemoteInvokeTest, RemoteInvokePend DEF SendStep, Undisturbed

LEMMA RemoteWorkerStep ==
  ASSUME PendingIsSeen, RemoteInv, BusInv', Undisturbed, NEW w \in Workers, WorkerStep(w)
  PROVE  RemoteInv'
BY Names, RemoteSendStep, RemoteRequestEnd, RemoteHandleCall, RemoteHandleSignal,
   RemoteHandlerEnd, RemoteAnswerDeferred DEF WorkerStep

LEMMA RemoteBusStep ==
  ASSUME RemoteInv, BusInv', Undisturbed, BusStep
  PROVE  RemoteInv'
BY Names, RemoteSendStep, RemoteBusSubscribe, RemoteBusSignalNobody, RemoteBusSignal,
   RemoteBusReplicate, RemoteBusReplicateNull, RemoteBusCallUnknown, RemoteBusCall,
   RemoteBusReturnNone, RemoteBusReturnStray, RemoteBusReturn, RemoteBusReleaseCall,
   RemoteBusEnd DEF BusStep, Undisturbed

(* As long as the system is undisturbed, every step of a sender, of a      *)
(* segment's handler and of the bus keeps the invariant.                   *)
THEOREM NextRemoteInv ==
  ASSUME PendingIsSeen
  PROVE  Undisturbed /\ RemoteInv /\ [Next]_vars => RemoteInv'
<1>1. SUFFICES ASSUME Undisturbed, RemoteInv, [Next]_vars
               PROVE  RemoteInv'
  OBVIOUS
<1>2. BusInv'
  BY <1>1, NextBusInv DEF RemoteInv
<1>3. CASE BusStep
  BY <1>1, <1>2, <1>3, RemoteBusStep
<1>4. CASE \E w \in Workers : WorkerStep(w) \/ \E o \in Ops[w] : MakeRequest(w, o)
  BY <1>1, <1>2, <1>4, RemoteWorkerStep, RemoteMakeRequest
<1>5. CASE Finished \/ UNCHANGED vars
  BY <1>1, <1>2, <1>5, RemoteSameState DEF Finished
<1>6. QED
  BY <1>1, <1>3, <1>4, <1>5 DEF Next

(* No call is made, no reply given and nobody waits.                       *)
THEOREM InitRemoteInv == Init => RemoteInv
<1>1. SUFFICES ASSUME Init
               PROVE  RemoteInv
  OBVIOUS
<1>2. BusInv
  BY <1>1, InitBusInv
<1>3. /\ free = [i \in Messages |-> i] /\ queue = [t \in Tasks |-> << >>]
      /\ calls = [w \in Workers |-> << >>] /\ pc = [t \in Tasks |-> "idle"]
      /\ deferred = [t \in Tasks |-> {}] /\ callSem = [t \in Tasks |-> 0]
      /\ executed = [r \in Requests |-> 0] /\ result = [r \in Requests |-> NULL]
  BY <1>1 DEF Init, Messages
<1>4. Range(free) = Messages
  BY <1>3 DEF Range
<1>5. \A m \in Messages : ~InCall(m)
  BY <1>4 DEF InCall
<1>6. \A t \in Tasks : /\ Range(queue[t]) = {} /\ deferred[t] = {} /\ callSem[t] = 0
                       /\ pc[t] = "idle"
  BY <1>3 DEF Range
<1>7. \A m \in Messages : ~Underway(m)
  BY <1>6 DEF Underway, InQueue, WithSender
<1>8. CallPart
  <2>1. CallsNamed /\ OneMessage /\ NotExecuted /\ OpenCalls
    BY <1>5 DEF CallsNamed, OneMessage, NotExecuted, OpenCalls
  <2>2. NewRequests /\ PendingCalls
    BY <1>3 DEF NewRequests, PendingCalls
  <2>3. Passed
    BY <1>6, Names DEF Passed
  <2>4. QED
    BY <2>1, <2>2, <2>3 DEF CallPart
<1>9. ReplyPart
  <2>1. \A r : \A t \in Tasks : ~Keeps(t, r) /\ ~Gives(t, r)
    BY <1>6 DEF Keeps, Gives, Preparing
  <2>2. \A r : \A m \in Messages : ~Brings(m, r)
    BY <1>7 DEF Brings
  <2>3. \A r, k, x : ~ReplyAt(r, k, x)
    BY <2>1, <2>2, Zenon DEF ReplyAt
  <2>4. OneReply /\ RepliesDue
    BY <2>3, Zenon DEF OneReply, RepliesDue
  <2>5. BringsExpected
    BY <1>7 DEF BringsExpected
  <2>6. QED
    BY <2>4, <2>5 DEF ReplyPart
<1>10. ASSUME NEW t \in Tasks
       PROVE  TaskGood(t)
  <2>1. pc[t] \notin Preparing /\ pc[t] \notin Sending \cup {"op_end"}
    BY <1>6 DEF Preparing, Sending
  <2>2. AskGood(t) /\ CallGood(t) /\ GiveGood(t) /\ Answered(t)
    BY <1>6, <2>1 DEF AskGood, Asks, CallGood, GiveGood, Answered
  <2>3. WokenGood(t) /\ KeepGood(t)
    BY <1>6 DEF WokenGood, KeepGood
  <2>4. QED
    BY <2>2, <2>3 DEF TaskGood
<1>11. TaskPart
  BY <1>10, Zenon DEF TaskPart
<1>12. QED
  BY <1>2, <1>8, <1>9, <1>11 DEF RemoteInv

(***************************************************************************)
(* What follows from the invariant.                                        *)
(***************************************************************************)
THEOREM RemoteInvariant ==
  ASSUME PendingIsSeen
  PROVE  Spec /\ []Undisturbed => []RemoteInv
<1>1. Undisturbed /\ RemoteInv /\ [Next]_vars => RemoteInv'
  BY NextRemoteInv
<1>2. QED
  BY <1>1, InitRemoteInv, PTL DEF Spec

(* tpost never runs ahead or twice: whatever the tasks, the pool, the      *)
(* queues and the requests, a caller's call_sem is posted only while it    *)
(* waits, once, and after its reply was stored (bus_call_return), as long  *)
(* as the system is undisturbed.                                           *)
THEOREM CallersWokenByReply ==
  ASSUME PendingIsSeen
  PROVE  Spec /\ []Undisturbed => []WakeupHasReply
<1>1. RemoteInv => WakeupHasReply
  BY Names DEF RemoteInv, TaskPart, TaskGood, WokenGood, WakeupHasReply
<1>2. QED
  BY <1>1, RemoteInvariant, PTL

(* A synchronous call returns its own reply (mblue_remote_call), as long   *)
(* as the system is undisturbed: what else can go wrong, OwnReply's        *)
(* counterexample, is one of the three things Undisturbed excludes.        *)
THEOREM CallersGetOwnReply ==
  ASSUME PendingIsSeen
  PROVE  Spec /\ []Undisturbed => []OwnReply
<1>1. RemoteInv => OwnReply
  BY Names DEF RemoteInv, TaskPart, TaskGood, Answered, OwnReply
<1>2. QED
  BY <1>1, RemoteInvariant, PTL

(***************************************************************************)
(* Pool, bus and handlers implement remote calls.                          *)
(***************************************************************************)
Phases == [r \in Requests |-> Phase(r)]

LEMMA PhaseLeft ==
  ASSUME NEW r, executed'[r] = executed[r], result'[r] = result[r],
         r[2] <= issued'[r[1]] <=> r[2] <= issued[r[1]]
  PROVE  Phase(r)' = Phase(r)
BY DEF Phase

LEMMA PhasesLeft ==
  ASSUME executed' = executed, result' = result, issued' = issued
  PROVE  Phases' = Phases
<1>1. \A r \in Requests : Phase(r)' = Phase(r)
  BY DEF Phase
<1>2. QED
  BY <1>1 DEF Phases

LEMMA PhaseAdvances ==
  ASSUME NEW q \in Requests, NEW from, NEW to, Phase(q) = from, Phase(q)' = to,
         \A r \in Requests : r # q => Phase(r)' = Phase(r)
  PROVE  Phases[q] = from /\ Phases' = [Phases EXCEPT ![q] = to]
<1>1. PICK p, n : p = Phases /\ n = Phases'
  OBVIOUS
<1>2. p \in [Requests -> {p[r] : r \in Requests}] /\ DOMAIN n = Requests /\ DOMAIN p = Requests
  BY <1>1 DEF Phases
<1>3. n = [r \in Requests |-> n[r]]
  BY <1>1 DEF Phases
<1>4. p[q] = from /\ n[q] = to /\ \A r \in Requests : r # q => n[r] = p[r]
  BY <1>1 DEF Phases
<1>5. n = [p EXCEPT ![q] = to]
  BY <1>2, <1>3, <1>4
<1>6. QED
  BY <1>1, <1>4, <1>5

LEMMA CallIssued ==
  ASSUME RemoteInv, NEW t \in Tasks, issued[t] < Budget[t],
         issued' = [issued EXCEPT ![t] = issued[t] + 1],
         executed' = executed, result' = result
  PROVE  Remote!Next
<1>1. NewRequests /\ issued \in [Tasks -> Nat] /\ issued[t] \in Nat
  BY MessageTypes DEF RemoteInv, CallPart
<1>2. PICK q \in Requests : q = <<t, issued[t] + 1>>
  BY <1>1, NewRequest
<1>3. q[1] = t /\ q[2] = issued[t] + 1 /\ q[2] \in Nat
  BY <1>1, <1>2
<1>4. issued'[t] = issued[t] + 1 /\ \A u \in Tasks : u # t => issued'[u] = issued[u]
  BY <1>1
<1>5. executed[q] = 0 /\ result[q] = NULL /\ ~(q[2] <= issued[q[1]]) /\ q[2] <= issued'[q[1]]
  BY <1>1, <1>3, <1>4 DEF NewRequests
<1>6. Phase(q) = "new" /\ Phase(q)' = "issued"
  BY <1>5, NullAssumption DEF Phase
<1>7. ASSUME NEW r \in Requests, r # q
      PROVE  Phase(r)' = Phase(r)
  <2>1. r[1] \in Tasks /\ r[2] \in Nat /\ r = <<r[1], r[2]>>
    BY SizesAssumption DEF Requests
  <2>2. r[1] = t => r[2] # issued[t] + 1
    BY <1>2, <1>7, <2>1
  <2>3. r[2] <= issued'[r[1]] <=> r[2] <= issued[r[1]]
    <3>1. CASE r[1] = t
      BY <1>1, <1>4, <2>1, <2>2, <3>1
    <3>2. CASE r[1] # t
      BY <1>4, <2>1, <3>2
    <3>3. QED
      BY <3>1, <3>2
  <2>4. QED
    BY <2>3, PhaseLeft
<1>8. Phases[q] = "new" /\ Phases' = [Phases EXCEPT ![q] = "issued"]
  BY <1>6, <1>7, PhaseAdvances
<1>9. QED
  BY <1>8 DEF Phases, Remote!Next, Remote!Issue, Remote!Advance

LEMMA CallExecuted ==
  ASSUME NEW q \in Requests, executed[q] = 0, result[q] = NULL, q[2] <= issued[q[1]],
         executed' = [executed EXCEPT ![q] = executed[q] + 1], executed \in [Requests -> Nat],
         result' = result, issued' = issued
  PROVE  Remote!Next
<1>1. executed'[q] = 1 /\ \A r \in Requests : r # q => executed'[r] = executed[r]
  OBVIOUS
<1>2. Phase(q) = "issued" /\ Phase(q)' = "executed"
  BY <1>1, NullAssumption DEF Phase
<1>3. \A r \in Requests : r # q => Phase(r)' = Phase(r)
  BY <1>1, PhaseLeft
<1>4. Phases[q] = "issued" /\ Phases' = [Phases EXCEPT ![q] = "executed"]
  BY <1>2, <1>3, PhaseAdvances
<1>5. QED
  BY <1>4 DEF Phases, Remote!Next, Remote!Execute, Remote!Advance

LEMMA CallCompleted ==
  ASSUME NEW q \in Requests, executed[q] = 1, result[q] = NULL,
         result'[q] = q, \A r \in Requests : r # q => result'[r] = result[r],
         executed' = executed, issued' = issued
  PROVE  Remote!Next
<1>1. Phase(q) = "executed" /\ Phase(q)' = "completed"
  BY NullAssumption DEF Phase
<1>2. \A r \in Requests : r # q => Phase(r)' = Phase(r)
  BY PhaseLeft
<1>3. Phases[q] = "executed" /\ Phases' = [Phases EXCEPT ![q] = "completed"]
  BY <1>1, <1>2, PhaseAdvances
<1>4. QED
  BY <1>3 DEF Phases, Remote!Next, Remote!Complete, Remote!Advance

LEMMA WorkerRefines ==
  ASSUME RemoteInv, NEW w \in Workers, WorkerStep(w)
  PROVE  Remote!Next \/ Phases' = Phases
<1>1. /\ BusInv /\ w \in Tasks /\ TaskGood(w) /\ NotExecuted /\ OpenCalls /\ CallsNamed
      /\ executed \in [Requests -> Nat] /\ result \in [Requests -> Values]
  BY Names, MessageTypes DEF RemoteInv, CallPart, TaskPart
<1>2. CASE SendStep(w) \/ HandleSignal(w) \/ HandlerEnd(w) \/ AnswerDeferred(w)
  <2>1. UNCHANGED <<executed, result, issued>>
    BY <1>2 DEF SendStep, SequenceIncrement, SequenceReturn, InitMessage, NoMessage, InvokePost,
                InvokeTest, InvokePend, HandleSignal, HandlerEnd, AnswerDeferred, history
  <2>2. QED
    BY <2>1, PhasesLeft
<1>3. CASE RequestEnd(w)
  <2>1. /\ pc[w] = "op_end" /\ UNCHANGED <<executed, issued>>
        /\ result' = IF arg[w].type = "SYNC_CALL" THEN [result EXCEPT ![op[w]] = out[w]] ELSE result
    BY <1>3 DEF RequestEnd, At, Set
  <2>2. CASE arg[w].type = "SYNC_CALL"
    <3>1. PICK q \in Requests : q = op[w]
      BY <1>1, <2>1, <2>2 DEF TaskGood, CallGood
    <3>2. out[w] = q /\ executed[q] = 1 /\ result[q] = NULL
      BY <1>1, <2>1, <2>2, <3>1 DEF TaskGood, Answered
    <3>3. result'[q] = q /\ \A r \in Requests : r # q => result'[r] = result[r]
      BY <1>1, <2>1, <2>2, <3>1, <3>2
    <3>4. QED
      BY <2>1, <3>2, <3>3, CallCompleted
  <2>3. CASE arg[w].type # "SYNC_CALL"
    BY <2>1, <2>3, PhasesLeft
  <2>4. QED
    BY <2>2, <2>3
<1>4. CASE HandleCall(w)
  <2>1. PICK x : x = Head(queue[w])
    OBVIOUS
  <2>2. /\ queue[w] # << >> /\ msg[x].type \in Calls /\ UNCHANGED <<result, issued>>
        /\ queue' = [queue EXCEPT ![w] = Tail(queue[w])]
        /\ executed' = IF msg[x].minor = "unknown" THEN executed
                       ELSE [executed EXCEPT ![msg[x].load] = executed[msg[x].load] + 1]
    BY <1>4, <2>1 DEF HandleCall, Receive
  <2>3. x \in Messages /\ x \in Range(queue[w]) /\ x \notin Range(free)
    BY <1>1, <2>1, <2>2, OneTaken
  <2>4. InCall(x) /\ Underway(x)
    BY <1>1, <2>2, <2>3 DEF InCall, Underway, InQueue
  <2>5. PICK q \in Requests : q = msg[x].load /\ q[2] <= issued[q[1]]
    BY <1>1, <2>3, <2>4 DEF CallsNamed, CallNamed
  <2>6. executed[q] = 0 /\ result[q] = NULL
    BY <1>1, <2>3, <2>4, <2>5 DEF NotExecuted, OpenCalls, OpenCall, Open
  <2>7. CASE msg[x].minor = "unknown"
    BY <2>2, <2>7, PhasesLeft
  <2>8. CASE msg[x].minor # "unknown"
    <3>1. executed' = [executed EXCEPT ![q] = executed[q] + 1]
      BY <2>2, <2>5, <2>8
    <3>2. QED
      BY <1>1, <2>2, <2>5, <2>6, <3>1, CallExecuted
  <2>9. QED
    BY <2>7, <2>8
<1>5. QED
  BY <1>2, <1>3, <1>4 DEF WorkerStep

LEMMA LoggerRefines ==
  ASSUME RemoteInv, NEW l, Logger(l), UNCHANGED <<executed, result>>
  PROVE  Remote!Next \/ Phases' = Phases
<1>1. CASE issued[Bus] < Budget[Bus]
  <2>1. issued' = [issued EXCEPT ![Bus] = issued[Bus] + 1]
    BY <1>1 DEF Logger
  <2>2. QED
    BY <1>1, <2>1, CallIssued, Names
<1>2. CASE ~(issued[Bus] < Budget[Bus])
  <2>1. issued' = issued
    BY <1>2 DEF Logger
  <2>2. QED
    BY <2>1, PhasesLeft
<1>3. QED
  BY <1>1, <1>2

LEMMA BusRefines ==
  ASSUME RemoteInv, CallsToldApart, BusStep
  PROVE  Remote!Next \/ Phases' = Phases
<1>1. CASE \/ SendStep(Bus) \/ BusSubscribe \/ BusSignal \/ BusReplicate \/ BusReplicateNull
           \/ BusCall \/ BusReturnStray \/ BusReleaseCall \/ BusEnd
  <2>1. UNCHANGED <<executed, result, issued>>
    BY <1>1 DEF SendStep, SequenceIncrement, SequenceReturn, InitMessage, NoMessage, InvokePost,
                InvokeTest, InvokePend, BusSubscribe, BusSignal, BusReplicate, BusReplicateNull,
                BusCall, BusReturnStray, BusReleaseCall, BusEnd, history
  <2>2. QED
    BY <2>1, PhasesLeft
<1>2. CASE BusSignalNobody \/ BusReturnNone \/ BusCallUnknown
  <2>1. Logger("bus_end") \/ Logger("idle")
    BY <1>2 DEF BusSignalNobody, BusReturnNone, BusCallUnknown
  <2>2. UNCHANGED <<executed, result>>
    BY <1>2 DEF BusSignalNobody, BusReturnNone, BusCallUnknown, history
  <2>3. QED
    BY <2>1, <2>2, LoggerRefines
<1>3. CASE BusReturn
  <2>1. PICK x, y, r : Answers(x, y, r)
    BY <1>3, ReturnAnswers
  <2>2. /\ r \in Requests /\ executed[r] = 1 /\ result[r] = NULL /\ UNCHANGED <<issued, executed>>
        /\ \A q \in Requests : q # r => result'[q] = result[q]
        /\ result'[r] = r \/ result' = result
    BY <2>1 DEF Answers
  <2>3. CASE result'[r] = r
    BY <2>2, <2>3, CallCompleted
  <2>4. CASE result' = result
    BY <2>2, <2>4, PhasesLeft
  <2>5. QED
    BY <2>2, <2>3, <2>4
<1>4. QED
  BY <1>1, <1>2, <1>3 DEF BusStep

LEMMA NextRefines ==
  Undisturbed /\ RemoteInv /\ [Next]_vars => [Remote!Next]_Phases
<1>1. SUFFICES ASSUME Undisturbed, RemoteInv, [Next]_vars
               PROVE  Remote!Next \/ Phases' = Phases
  BY Zenon
<1>2. CASE BusStep
  BY <1>1, <1>2, BusRefines DEF Undisturbed
<1>3. ASSUME NEW w \in Workers, WorkerStep(w)
      PROVE  Remote!Next \/ Phases' = Phases
  BY <1>1, <1>3, WorkerRefines
<1>4. ASSUME NEW w \in Workers, NEW o \in Ops[w], MakeRequest(w, o)
      PROVE  Remote!Next \/ Phases' = Phases
  <2>1. /\ issued[w] < Budget[w] /\ issued' = [issued EXCEPT ![w] = issued[w] + 1]
        /\ UNCHANGED <<executed, result>>
    BY <1>4 DEF MakeRequest, history
  <2>2. QED
    BY <1>1, <2>1, CallIssued, Names
<1>5. CASE Finished \/ UNCHANGED vars
  <2>1. UNCHANGED <<executed, result, issued>>
    BY <1>5 DEF Finished, vars
  <2>2. QED
    BY <2>1, PhasesLeft
<1>6. QED
  BY <1>1, <1>2, <1>3, <1>4, <1>5 DEF Next

(* Pool, bus and handlers implement remote calls (RemoteCall), for any     *)
(* number of tasks, any pool, queues and requests, every interleaving and  *)
(* every overflow of a queue, as long as the system is undisturbed: a call *)
(* is executed at most once, and completes at most once, after that and    *)
(* with the result of its own execution.                                   *)
THEOREM BusImplementsRemoteCall ==
  ASSUME PendingIsSeen
  PROVE  Spec /\ []Undisturbed => ImplementsRemoteCall
<1>1. Init => Remote!Init
  <2>1. SUFFICES ASSUME Init
                 PROVE  \A r \in Requests : Phase(r) = "new"
    BY DEF Remote!Init
  <2>2. TAKE r \in Requests
  <2>3. r[1] \in Tasks /\ r[2] \in Nat \ {0}
    BY SizesAssumption DEF Requests
  <2>4. executed[r] = 0 /\ result[r] = NULL /\ issued[r[1]] = 0
    BY <2>1, <2>3 DEF Init
  <2>5. QED
    BY <2>3, <2>4, NullAssumption DEF Phase
<1>2. Undisturbed /\ RemoteInv /\ [Next]_vars => [Remote!Next]_Phases
  BY NextRefines
<1>3. QED
  BY <1>1, <1>2, RemoteInvariant, PTL DEF Spec, Phases, Remote!Spec, ImplementsRemoteCall

(***************************************************************************)
(* Senders that nobody preempts between hand-off and test.                 *)
(***************************************************************************)
(* A sender's message is the one it filled in.                             *)
SendsOwn(t) ==
  pc[t] \in {"invoke", "test"} => msg[mine[t]].type = arg[t].type /\ msg[mine[t]].src = t

SendersInv == BusInv /\ \A t \in Tasks : SendsOwn(t)

(* Type and source of a message last until it is taken from the pool.      *)
FilledOnce ==
  \A m \in Messages :
    m \notin Range(free) => msg'[m].type = msg[m].type /\ msg'[m].src = msg[m].src

(* A step of task u, which changes nobody else's send_message.             *)
StepOf(u) ==
  /\ MayRun(u) /\ FilledOnce
  /\ \A t \in Tasks : t # u => pc'[t] = pc[t] /\ arg'[t] = arg[t] /\ mine'[t] = mine[t]
  /\ pc'[u] \in {"invoke", "test"} => InitMessage(u) \/ InvokePost(u)

LEMMA SenderTypes ==
  BusInv => /\ msg \in [Messages -> MessageSet] /\ arg \in [Tasks -> ArgumentSet]
            /\ pc \in [Tasks -> Labels] /\ mine \in [Tasks -> Messages]
            /\ ret \in [Tasks -> Returns] /\ cur \in [Tasks -> Messages]
            /\ queue \in [Tasks -> Seq(Messages)] /\ free \in Seq(Messages)
BY DEF BusInv, PoolTypes, BusTypes, TaskTypes

LEMMA SendStepOf ==
  ASSUME BusInv, NEW t \in Tasks, SendStep(t)
  PROVE  StepOf(t)
<1>1. /\ msg \in [Messages -> MessageSet] /\ arg \in [Tasks -> ArgumentSet]
      /\ pc \in [Tasks -> Labels] /\ mine \in [Tasks -> Messages]
      /\ ret \in [Tasks -> Returns] /\ free \in Seq(Messages)
  BY SenderTypes
<1>2. ret[t] \in {"idle", "op_end", "handler_end", "bus_end"}
  BY <1>1 DEF Returns
<1>3. CASE SequenceIncrement(t)
  BY <1>1, <1>3 DEF SequenceIncrement, StepOf, FilledOnce, At, Goto, poolVars, taskVars
<1>4. CASE SequenceReturn(t)
  BY <1>1, <1>4 DEF SequenceReturn, StepOf, FilledOnce, At, Goto, poolVars
<1>5. CASE InitMessage(t)
  <2>1. free # << >>
    BY <1>5 DEF InitMessage
  <2>2. PICK n \in Messages : n = Head(free) /\ n \in Range(free)
    BY <2>1, FreeHead DEF BusInv
  <2>3. \A m \in Messages : m # n => msg'[m] = msg[m]
    BY <1>1, <1>5, <2>2 DEF InitMessage
  <2>4. FilledOnce
    BY <2>2, <2>3 DEF FilledOnce
  <2>5. QED
    BY <1>1, <1>5, <2>4 DEF InitMessage, StepOf, At, Goto, Set
<1>6. CASE NoMessage(t)
  BY <1>1, <1>2, <1>6 DEF NoMessage, StepOf, FilledOnce, At, Goto, poolVars, taskVars
<1>7. CASE InvokePost(t)
  <2>1. FilledOnce
    BY <1>1, <1>7 DEF InvokePost, FilledOnce, MessageSet
  <2>2. QED
    BY <1>1, <1>7, <2>1 DEF InvokePost, StepOf, At, Goto, taskVars
<1>8. CASE InvokeTest(t)
  BY <1>1, <1>2, <1>8 DEF InvokeTest, StepOf, FilledOnce, At, Goto, poolVars
<1>9. CASE InvokePend(t)
  BY <1>1, <1>2, <1>9 DEF InvokePend, StepOf, FilledOnce, At, Goto, poolVars, taskVars
<1>10. QED
  BY <1>3, <1>4, <1>5, <1>6, <1>7, <1>8, <1>9 DEF SendStep

LEMMA ReleaseFills ==
  ASSUME BusInv, NEW m \in Messages, mblue_message_release(m)
  PROVE  FilledOnce
BY OnlyCounts DEF CountsOnly, Same, FilledOnce

LEMMA WorkerStepOf ==
  ASSUME BusInv, NEW w \in Workers, WorkerStep(w) \/ \E o \in Ops[w] : MakeRequest(w, o)
  PROVE  StepOf(w)
<1>1. /\ w \in Tasks /\ arg \in [Tasks -> ArgumentSet] /\ mine \in [Tasks -> Messages]
      /\ cur \in [Tasks -> Messages] /\ pc \in [Tasks -> Labels]
  BY SenderTypes, Names
<1>2. CASE SendStep(w)
  BY <1>1, <1>2, SendStepOf
<1>3. CASE \E o \in Ops[w] : MakeRequest(w, o)
  <2>1. PICK o \in Ops[w] : MakeRequest(w, o)
    BY <1>3
  <2>2. /\ MayRun(w) /\ msg' = msg /\ mine' = mine /\ pc' = [pc EXCEPT ![w] = "seq_inc"]
        /\ \A t \in Tasks : t # w => arg'[t] = arg[t]
    BY <1>1, <2>1 DEF MakeRequest, At, Goto, Send, Set, poolVars
  <2>3. QED
    BY <1>1, <2>2 DEF StepOf, FilledOnce
<1>4. CASE RequestEnd(w)
  <2>1. /\ MayRun(w) /\ UNCHANGED <<msg, mine, arg>> /\ pc' = [pc EXCEPT ![w] = "idle"]
    BY <1>4 DEF RequestEnd, At, Goto, poolVars
  <2>2. QED
    BY <1>1, <2>1 DEF StepOf, FilledOnce
<1>5. CASE HandleCall(w)
  <2>1. /\ MayRun(w) /\ msg' = msg /\ mine' = mine
        /\ pc' = [pc EXCEPT ![w] = "alloc"] \/ pc' = [pc EXCEPT ![w] = "handler_end"]
    BY <1>5 DEF HandleCall, Receive, At, Goto, poolVars
  <2>2. \A t \in Tasks : t # w => arg'[t] = arg[t]
    <3>1. (\E r : arg' = [arg EXCEPT ![w] = r]) \/ arg' = arg
      BY <1>5, Zenon DEF HandleCall, Send, Set
    <3>2. QED
      BY <1>1, <3>1
  <2>3. QED
    BY <1>1, <2>1, <2>2 DEF StepOf, FilledOnce
<1>6. CASE HandleSignal(w)
  <2>1. /\ MayRun(w) /\ UNCHANGED <<msg, mine, arg>> /\ pc' = [pc EXCEPT ![w] = "handler_end"]
    BY <1>6 DEF HandleSignal, Receive, At, Goto, poolVars
  <2>2. QED
    BY <1>1, <2>1 DEF StepOf, FilledOnce
<1>7. CASE HandlerEnd(w)
  <2>1. /\ MayRun(w) /\ UNCHANGED <<mine, arg>> /\ pc' = [pc EXCEPT ![w] = "idle"]
        /\ mblue_message_release(cur[w])
    BY <1>7 DEF HandlerEnd, At, Goto, taskVars
  <2>2. FilledOnce
    BY <1>1, <2>1, ReleaseFills
  <2>3. QED
    BY <1>1, <2>1, <2>2 DEF StepOf
<1>8. CASE AnswerDeferred(w)
  <2>1. /\ MayRun(w) /\ UNCHANGED <<msg, mine>> /\ pc' = [pc EXCEPT ![w] = "alloc"]
    BY <1>8 DEF AnswerDeferred, At, Goto, poolVars
  <2>2. \A t \in Tasks : t # w => arg'[t] = arg[t]
    BY <1>1, <1>8 DEF AnswerDeferred, Send, Set
  <2>3. QED
    BY <1>1, <2>1, <2>2 DEF StepOf, FilledOnce
<1>9. QED
  BY <1>2, <1>3, <1>4, <1>5, <1>6, <1>7, <1>8 DEF WorkerStep

LEMMA BusStepOf ==
  ASSUME BusInv, BusStep
  PROVE  StepOf(Bus)
<1>1. /\ Bus \in Tasks /\ arg \in [Tasks -> ArgumentSet] /\ mine \in [Tasks -> Messages]
      /\ cur \in [Tasks -> Messages] /\ pc \in [Tasks -> Labels]
      /\ msg \in [Messages -> MessageSet]
  BY SenderTypes, Names
<1>2. CASE SendStep(Bus)
  BY <1>1, <1>2, SendStepOf
<1>3. CASE BusSubscribe
  <2>1. /\ MayRun(Bus) /\ UNCHANGED <<pc, mine, arg>> /\ pc[Bus] = "idle"
        /\ queue[Bus] # << >> /\ mblue_message_release(Head(queue[Bus]))
    BY <1>3 DEF BusSubscribe, Receive, At
  <2>2. FilledOnce
    BY <1>1, <2>1, QueueHead, ReleaseFills, SenderTypes DEF BusInv, Accounts
  <2>3. QED
    BY <2>1, <2>2 DEF StepOf
<1>4. ASSUME NEW label \in {"bus_end", "idle"}, MayRun(Bus), Logger(label), UNCHANGED <<msg, mine>>
      PROVE  StepOf(Bus)
  <2>1. pc' = [pc EXCEPT ![Bus] = "seq_inc"] \/ pc' = [pc EXCEPT ![Bus] = label]
    BY <1>4 DEF Logger, Goto
  <2>2. (\E r : arg' = [arg EXCEPT ![Bus] = r]) \/ arg' = arg
    BY <1>4, Zenon DEF Logger, Send, Set
  <2>3. QED
    BY <1>1, <1>4, <2>1, <2>2 DEF StepOf, FilledOnce
<1>5. CASE BusSignalNobody \/ BusReturnNone \/ BusCallUnknown
  <2>1. /\ MayRun(Bus) /\ UNCHANGED <<msg, mine>>
        /\ Logger("bus_end") \/ Logger("idle")
    BY <1>5 DEF BusSignalNobody, BusReturnNone, BusCallUnknown, Receive, At, poolVars
  <2>2. QED
    BY <1>4, <2>1
<1>6. CASE BusSignal \/ BusReplicateNull \/ BusReturnStray
  <2>1. /\ MayRun(Bus) /\ UNCHANGED <<msg, mine, arg>>
        /\ \/ pc' = [pc EXCEPT ![Bus] = "replicate"] \/ pc' = [pc EXCEPT ![Bus] = "dead"]
           \/ pc' = [pc EXCEPT ![Bus] = "bus_end"]
    BY <1>6 DEF BusSignal, BusReplicateNull, BusReturnStray, Receive, At, Goto, poolVars, taskVars
  <2>2. QED
    BY <1>1, <2>1 DEF StepOf, FilledOnce
<1>7. CASE BusReplicate
  <2>1. /\ MayRun(Bus) /\ UNCHANGED <<mine, arg>> /\ free # << >>
        /\ pc' = [pc EXCEPT ![Bus] = IF Len(todo) = 1 THEN "bus_end" ELSE "replicate"]
    BY <1>7 DEF BusReplicate, At, Goto, taskVars
  <2>2. PICK n \in Messages : n = Head(free) /\ n \in Range(free)
    BY <2>1, FreeHead DEF BusInv
  <2>3. \A m \in Messages : m # n => msg'[m] = msg[m]
    BY <1>1, <1>7, <2>2 DEF BusReplicate
  <2>4. FilledOnce
    BY <2>2, <2>3 DEF FilledOnce
  <2>5. QED
    BY <1>1, <2>1, <2>4 DEF StepOf
<1>8. CASE BusCall
  <2>1. MayRun(Bus) /\ UNCHANGED <<pc, mine, arg>> /\ pc[Bus] = "idle"
    BY <1>8 DEF BusCall, At
  <2>2. FilledOnce
    BY <1>1, <1>8 DEF BusCall, FilledOnce, MessageSet
  <2>3. QED
    BY <2>1, <2>2 DEF StepOf
<1>9. CASE BusReturn
  <2>1. MayRun(Bus) /\ UNCHANGED <<msg, arg>> /\ pc' = [pc EXCEPT ![Bus] = "release_call"]
    BY <1>9 DEF BusReturn, Receive, At, Goto, poolVars
  <2>2. \A t \in Tasks : t # Bus => mine'[t] = mine[t]
    BY <1>1, <1>9 DEF BusReturn, Set
  <2>3. QED
    BY <1>1, <2>1, <2>2 DEF StepOf, FilledOnce
<1>10. CASE BusReleaseCall
  <2>1. /\ MayRun(Bus) /\ UNCHANGED <<mine, arg>> /\ pc' = [pc EXCEPT ![Bus] = "bus_end"]
        /\ mblue_message_release(mine[Bus])
    BY <1>10 DEF BusReleaseCall, At, Goto, taskVars
  <2>2. FilledOnce
    BY <1>1, <2>1, ReleaseFills
  <2>3. QED
    BY <1>1, <2>1, <2>2 DEF StepOf
<1>11. CASE BusEnd
  <2>1. /\ MayRun(Bus) /\ UNCHANGED <<mine, arg>> /\ pc' = [pc EXCEPT ![Bus] = "idle"]
        /\ mblue_message_release(cur[Bus])
    BY <1>11 DEF BusEnd, At, Goto, taskVars
  <2>2. FilledOnce
    BY <1>1, <2>1, ReleaseFills
  <2>3. QED
    BY <1>1, <2>1, <2>2 DEF StepOf
<1>12. QED
  BY <1>2, <1>3, <1>5, <1>6, <1>7, <1>8, <1>9, <1>10, <1>11 DEF BusStep

(* Who is about to test is alone, and who has not handed its message off   *)
(* has it to itself.                                                       *)
LEMMA SendersKeep ==
  ASSUME "test" \notin Windows, SendersInv, BusInv', NEW u \in Tasks, StepOf(u)
  PROVE  SendersInv'
<1>1. /\ BusInv /\ arg \in [Tasks -> ArgumentSet] /\ mine \in [Tasks -> Messages]
      /\ pc \in [Tasks -> Labels] /\ msg \in [Messages -> MessageSet]
  BY SenderTypes DEF SendersInv
<1>2. ASSUME NEW t \in Tasks, pc'[t] \in {"invoke", "test"}
      PROVE  msg'[mine'[t]].type = arg'[t].type /\ msg'[mine'[t]].src = t
  <2>1. CASE t # u
    <3>1. pc'[t] = pc[t] /\ arg'[t] = arg[t] /\ mine'[t] = mine[t]
      BY <2>1 DEF StepOf
    <3>2. pc[t] = "invoke"
      BY <1>2, <2>1, <3>1 DEF StepOf, MayRun
    <3>3. mine[t] \in Messages /\ mine[t] \notin Range(free)
      BY <1>1, <3>2, Located DEF Underway, WithSender
    <3>4. msg[mine[t]].type = arg[t].type /\ msg[mine[t]].src = t
      BY <3>2 DEF SendersInv, SendsOwn
    <3>5. QED
      BY <3>1, <3>3, <3>4 DEF StepOf, FilledOnce
  <2>2. CASE t = u /\ InitMessage(u)
    <3>1. free # << >> /\ arg' = arg /\ Head(free) \in Messages
      BY <1>1, <2>2, FreeHead DEF InitMessage, BusInv
    <3>2. /\ mine'[u] = Head(free)
          /\ msg'[Head(free)].type = arg[u].type /\ msg'[Head(free)].src = u
      BY <1>1, <2>2, <3>1 DEF InitMessage, Set
    <3>3. QED
      BY <2>2, <3>1, <3>2
  <2>3. CASE t = u /\ InvokePost(u)
    <3>1. pc[u] = "invoke" /\ arg' = arg /\ mine' = mine
      BY <2>3 DEF InvokePost, At, taskVars
    <3>2. mine[u] \in Messages /\ mine[u] \notin Range(free)
      BY <1>1, <3>1, Located DEF Underway, WithSender
    <3>3. msg[mine[u]].type = arg[u].type /\ msg[mine[u]].src = u
      BY <3>1 DEF SendersInv, SendsOwn
    <3>4. QED
      BY <2>3, <3>1, <3>2, <3>3 DEF StepOf, FilledOnce
  <2>4. QED
    BY <1>2, <2>1, <2>2, <2>3 DEF StepOf
<1>3. QED
  BY <1>2 DEF SendersInv, SendsOwn

(* ipc_invoke tests what it sent (ipc.c:96) as long as no other task runs  *)
(* between hand-off and test, whatever else interleaves, overflows or      *)
(* fails: the message is not recycled before.                              *)
THEOREM SendersTestTheirOwn ==
  ASSUME "test" \notin Windows
  PROVE  Spec => []TestsOwnMessage
<1>1. Init => SendersInv
  BY InitBusInv DEF Init, SendersInv, SendsOwn
<1>2. SendersInv /\ [Next]_vars => SendersInv'
  <2>1. SUFFICES ASSUME SendersInv, [Next]_vars
                 PROVE  SendersInv'
    OBVIOUS
  <2>2. BusInv /\ BusInv'
    BY <2>1, NextBusInv DEF SendersInv
  <2>3. CASE BusStep
    BY <2>1, <2>2, <2>3, BusStepOf, SendersKeep, Names
  <2>4. CASE \E w \in Workers : WorkerStep(w) \/ \E o \in Ops[w] : MakeRequest(w, o)
    BY <2>1, <2>2, <2>4, WorkerStepOf, SendersKeep, Names
  <2>5. CASE UNCHANGED vars
    BY <2>1, <2>2, <2>5 DEF SendersInv, SendsOwn, vars
  <2>6. QED
    BY <2>1, <2>3, <2>4, <2>5 DEF Next, Finished
<1>3. SendersInv => TestsOwnMessage
  BY DEF SendersInv, SendsOwn, TestsOwnMessage
<1>4. QED
  BY <1>1, <1>2, <1>3, PTL DEF Spec

(* Without such preemption a caller gets its own reply as long as the      *)
(* numbers of pending calls differ and the pool serves synchronous callers.*)
THEOREM UnpreemptedCallersServed ==
  ASSUME "test" \notin Windows, PendingIsSeen
  PROVE  Spec /\ []CallsToldApart /\ []CallersServed =>
           []OwnReply /\ []WakeupHasReply /\ ImplementsRemoteCall
<1>1. Spec => []TestsOwnMessage
  BY SendersTestTheirOwn
<1>2. CallsToldApart /\ TestsOwnMessage /\ CallersServed => Undisturbed
  BY DEF Undisturbed
<1>3. Spec /\ []Undisturbed => []OwnReply
  BY CallersGetOwnReply
<1>4. Spec /\ []Undisturbed => []WakeupHasReply
  BY CallersWokenByReply
<1>5. Spec /\ []Undisturbed => ImplementsRemoteCall
  BY BusImplementsRemoteCall
<1>6. QED
  BY <1>1, <1>2, <1>3, <1>4, <1>5, PTL

(***************************************************************************)
(* Payloads.  Which messages carry one that is still to be handled, and    *)
(* who is about to send one.                                               *)
(***************************************************************************)
WithPayload == Calls \cup {"SIGNAL"}

HandledAt(m) == \E w \in Workers : Handling(w) /\ cur[w] = m
Copied(m) == pc[Bus] = "replicate" /\ cur[Bus] = m
Placed(m) == Underway(m) \/ HandledAt(m) \/ Copied(m)

Carries(m) == Placed(m) /\ msg[m].type \in WithPayload
Passes(t) == pc[t] \in Preparing /\ arg[t].type \in WithPayload

(* A payload that a message carries is allocated, and named after a        *)
(* request its sender has made...                                          *)
PayloadNamed(m) ==
  LET r == msg[m].load
  IN r \in heap /\ r[2] <= issued[r[1]] /\ (Passes(r[1]) => r[2] < issued[r[1]])

PayloadsNamed == \A m \in Messages : Carries(m) => PayloadNamed(m)

(* ...by one message only.                                                 *)
OneCarrier ==
  \A m, n \in Messages : Carries(m) /\ Carries(n) /\ msg[m].load = msg[n].load => m = n

PayloadsPassed ==
  \A t \in Tasks : Passes(t) => arg[t].load = <<t, issued[t]>> /\ arg[t].load \in heap

Owners == PayloadsNamed /\ OneCarrier /\ PayloadsPassed

HandlersCarry == \A w \in Workers : Handling(w) => msg[cur[w]].type \in WithPayload

SignalCopied == pc[Bus] = "replicate" => Len(todo) = 1 /\ msg[cur[Bus]].type = "SIGNAL"

NotFreedTwice == "double_free" \notin faults

PayloadInv == BusInv /\ Owners /\ HandlersCarry /\ SignalCopied /\ NotFreedTwice

(* No payload is forgotten.                                                *)
HeapKept ==
  \A r \in heap : \/ \E m \in Messages : Carries(m) /\ msg[m].load = r
                  \/ \E t \in Tasks : Passes(t) /\ arg[t].load = r

(***************************************************************************)
(* Steps that leave payloads where they are, or pass them on.              *)
(***************************************************************************)
CarriersKept ==
  \A m \in Messages : Carries(m)' => Carries(m) /\ msg'[m].load = msg[m].load

SendersKept ==
  \A t \in Tasks : Passes(t)' => Passes(t) /\ arg'[t].load = arg[t].load

(* Whoever has a payload still has it, or has passed it on.                *)
Onward ==
  /\ \A m \in Messages : Carries(m) => Carries(m)' /\ msg'[m].load = msg[m].load
  /\ \A t \in Tasks : Passes(t) => Passes(t)' /\ arg'[t].load = arg[t].load

Kindly ==
  /\ heap' = heap /\ issued' = issued /\ NotFreedTwice'
  /\ CarriersKept /\ SendersKept /\ HandlersCarry' /\ SignalCopied'

LEMMA PlacedInUse ==
  BusInv => \A m \in Messages : Placed(m) => m \notin Range(free)
<1>1. SUFFICES ASSUME BusInv, NEW m \in Messages, Placed(m)
               PROVE  m \notin Range(free)
  OBVIOUS
<1>2. OnePlace
  BY <1>1 DEF BusInv, Accounts
<1>3. CASE Underway(m)
  BY <1>1, <1>3, Located
<1>4. CASE HandledAt(m) \/ Copied(m)
  <2>1. PICK t \in Tasks : Handling(t) /\ cur[t] = m
    BY <1>4, Names DEF HandledAt, Copied, Handling
  <2>2. IsAt(m, "handler", t)
    BY <2>1 DEF IsAt
  <2>3. QED
    BY <1>2, <2>2, PlacesApart DEF Kinds
<1>5. QED
  BY <1>1, <1>3, <1>4 DEF Placed

LEMMA OwnersKept ==
  ASSUME BusInv, Owners, heap' = heap, issued' = issued, CarriersKept, SendersKept
  PROVE  Owners'
<1>1. PayloadsNamed'
  <2>1. SUFFICES ASSUME NEW m \in Messages, Carries(m)'
                 PROVE  PayloadNamed(m)'
    BY DEF PayloadsNamed
  <2>2. Carries(m) /\ msg'[m].load = msg[m].load
    BY <2>1, Zenon DEF CarriersKept
  <2>3. PICK r : r = msg[m].load
    OBVIOUS
  <2>4. r \in heap /\ r[2] <= issued[r[1]] /\ (Passes(r[1]) => r[2] < issued[r[1]])
    BY <2>2, <2>3, Zenon DEF Owners, PayloadsNamed, PayloadNamed
  <2>5. Passes(r[1])' => Passes(r[1])
    <3>1. r[1] \in Tasks
      BY <2>4, RequestParts DEF BusInv, HistoryTypes
    <3>2. QED
      BY <3>1, Zenon DEF SendersKept
  <2>6. QED
    BY <2>2, <2>3, <2>4, <2>5, Zenon DEF PayloadNamed
<1>2. OneCarrier'
  BY DEF OneCarrier, Owners, CarriersKept
<1>3. PayloadsPassed'
  BY DEF PayloadsPassed, Owners, SendersKept
<1>4. QED
  BY <1>1, <1>2, <1>3 DEF Owners

(* A step that keeps messages and gives none a new place.                  *)
LEMMA CarriersStay ==
  ASSUME BusInv, Kept, NEW m \in Messages, Placed(m)
  PROVE  /\ Placed(m)' => (Carries(m)' <=> Carries(m))
         /\ msg'[m].load = msg[m].load /\ msg'[m].type = msg[m].type
<1>1. Same(m)
  BY PlacedInUse DEF Kept
<1>2. QED
  BY <1>1, Zenon DEF Same, Carries

(* A task goes on with what it was handling.                               *)
GoesOnAlone(t) ==
  /\ queue' = queue /\ cur' = cur /\ todo' = todo
  /\ \A u \in Tasks : u # t => pc'[u] = pc[u] /\ ret'[u] = ret[u] /\ mine'[u] = mine[u]
  /\ pc[t] \notin {"invoke", "replicate"} /\ pc'[t] \notin {"invoke", "replicate"}
  /\ t \in Workers => (Handling(t)' <=> Handling(t))

LEMMA PlacesGoOn ==
  ASSUME PayloadInv, Kept, NEW t \in Tasks, GoesOnAlone(t)
  PROVE  /\ \A m \in Messages : Carries(m)' <=> Carries(m)
         /\ \A m \in Messages : Carries(m) => msg'[m].load = msg[m].load
         /\ HandlersCarry' /\ SignalCopied'
<1>1. BusInv /\ Bus \in Tasks /\ Workers \subseteq Tasks /\ cur \in [Tasks -> Messages]
  BY Names, SenderTypes DEF PayloadInv
<1>2. /\ queue' = queue /\ cur' = cur /\ todo' = todo
      /\ \A u \in Tasks : u # t => pc'[u] = pc[u] /\ ret'[u] = ret[u] /\ mine'[u] = mine[u]
      /\ pc[t] \notin {"invoke", "replicate"} /\ pc'[t] \notin {"invoke", "replicate"}
  BY DEF GoesOnAlone
<1>3. \A w \in Workers : Handling(w)' <=> Handling(w)
  <2>1. SUFFICES ASSUME NEW w \in Workers
                 PROVE  Handling(w)' <=> Handling(w)
    OBVIOUS
  <2>2. CASE w = t
    BY <2>2 DEF GoesOnAlone
  <2>3. CASE w # t
    <3>1. pc'[w] = pc[w] /\ ret'[w] = ret[w]
      BY <1>1, <1>2, <2>3
    <3>2. QED
      BY <3>1 DEF Handling
  <2>4. QED
    BY <2>2, <2>3
<1>4. pc'[Bus] = "replicate" <=> pc[Bus] = "replicate"
  BY <1>1, <1>2
<1>5. \A u \in Tasks : \A m : pc'[u] = "invoke" /\ mine'[u] = m <=> pc[u] = "invoke" /\ mine[u] = m
  BY <1>2
<1>6. \A m \in Messages : Placed(m)' <=> Placed(m)
  <2>1. SUFFICES ASSUME NEW m \in Messages
                 PROVE  Placed(m)' <=> Placed(m)
    OBVIOUS
  <2>2. Underway(m)' <=> Underway(m)
    BY <1>2, <1>5 DEF Underway, InQueue, WithSender
  <2>3. HandledAt(m)' <=> HandledAt(m)
    BY <1>2, <1>3 DEF HandledAt
  <2>4. Copied(m)' <=> Copied(m)
    BY <1>2, <1>4 DEF Copied
  <2>5. QED
    BY <2>2, <2>3, <2>4 DEF Placed
<1>7. ASSUME NEW m \in Messages
      PROVE  (Carries(m)' <=> Carries(m)) /\ (Carries(m) => msg'[m].load = msg[m].load)
  <2>1. CASE Placed(m)
    BY <1>1, <1>6, <2>1, CarriersStay
  <2>2. CASE ~Placed(m)
    BY <1>6, <2>2 DEF Carries
  <2>3. QED
    BY <2>1, <2>2
<1>8. HandlersCarry'
  <2>1. SUFFICES ASSUME NEW w \in Workers, Handling(w)'
                 PROVE  msg'[cur'[w]].type \in WithPayload
    BY DEF HandlersCarry
  <2>2. PICK m \in Messages : m = cur[w]
    BY <1>1
  <2>3. Placed(m) /\ msg[m].type \in WithPayload
    BY <1>3, <2>1, <2>2 DEF PayloadInv, HandlersCarry, Placed, HandledAt
  <2>4. msg'[m].type = msg[m].type
    BY <1>1, <2>3, CarriersStay
  <2>5. QED
    BY <1>2, <2>2, <2>3, <2>4
<1>9. SignalCopied'
  <2>1. SUFFICES ASSUME pc[Bus] = "replicate"
                 PROVE  Len(todo) = 1 /\ msg'[cur[Bus]].type = "SIGNAL"
    BY <1>2, <1>4 DEF SignalCopied
  <2>2. PICK m \in Messages : m = cur[Bus]
    BY <1>1
  <2>3. Placed(m) /\ msg[m].type = "SIGNAL" /\ Len(todo) = 1
    BY <2>1, <2>2 DEF PayloadInv, SignalCopied, Placed, Copied
  <2>4. QED
    BY <1>1, <2>2, <2>3, CarriersStay
<1>10. QED
  BY <1>7, <1>8, <1>9

(* Most steps of send_message and the ends of the handlers.                *)
LEMMA ControlKindly ==
  ASSUME PayloadInv, Kept, NEW t \in Tasks, GoesOnAlone(t),
         heap' = heap, issued' = issued, NotFreedTwice',
         \A u \in Tasks : u # t => arg'[u] = arg[u],
         Passes(t)' => Passes(t) /\ arg'[t].load = arg[t].load
  PROVE  /\ Kindly
         /\ (Passes(t) => Passes(t)' /\ arg'[t].load = arg[t].load) => Onward
<1>1. \A u \in Tasks : u # t => pc'[u] = pc[u] /\ arg'[u] = arg[u]
  BY DEF GoesOnAlone
<1>2. \A u \in Tasks : u # t => (Passes(u)' <=> Passes(u)) /\ arg'[u].load = arg[u].load
  BY <1>1 DEF Passes
<1>3. SendersKept
  BY <1>2 DEF SendersKept
<1>4. CarriersKept /\ HandlersCarry' /\ SignalCopied'
  BY PlacesGoOn, Zenon DEF CarriersKept
<1>5. \A m \in Messages : Carries(m) => Carries(m)' /\ msg'[m].load = msg[m].load
  BY PlacesGoOn, Zenon
<1>6. ASSUME Passes(t) => Passes(t)' /\ arg'[t].load = arg[t].load
      PROVE  Onward
  <2>1. \A u \in Tasks : Passes(u) => Passes(u)' /\ arg'[u].load = arg[u].load
    BY <1>2, <1>6
  <2>2. QED
    BY <1>5, <2>1, Zenon DEF Onward
<1>7. QED
  BY <1>3, <1>4, <1>6, Zenon DEF Kindly

LEMMA KindlySequenceIncrement ==
  ASSUME PayloadInv, NEW t \in Tasks, SequenceIncrement(t)
  PROVE  Kindly /\ Onward
<1>1. /\ pc[t] = "seq_inc" /\ pc' = [pc EXCEPT ![t] = "seq_ret"]
      /\ UNCHANGED <<msg, queue, cur, todo, ret, mine, arg, heap, issued, faults>>
  BY DEF SequenceIncrement, At, Goto, poolVars, busVars, taskVars, history
<1>2. pc \in [Tasks -> Labels]
  BY SenderTypes DEF PayloadInv
<1>3. GoesOnAlone(t)
  BY <1>1, <1>2 DEF GoesOnAlone, Handling, Sending
<1>4. Kept /\ NotFreedTwice'
  BY <1>1 DEF Kept, Same, PayloadInv, NotFreedTwice
<1>5. (Passes(t)' <=> Passes(t)) /\ arg' = arg
  BY <1>1, <1>2 DEF Passes, Preparing
<1>6. QED
  BY <1>1, <1>3, <1>4, <1>5, ControlKindly

LEMMA KindlySequenceReturn ==
  ASSUME PayloadInv, NEW t \in Tasks, SequenceReturn(t)
  PROVE  Kindly /\ Onward
<1>1. /\ pc[t] = "seq_ret" /\ pc' = [pc EXCEPT ![t] = "alloc"]
      /\ arg' = [arg EXCEPT ![t].seq = sequence]
      /\ UNCHANGED <<msg, queue, cur, todo, ret, mine, heap, issued, faults>>
  BY DEF SequenceReturn, At, Goto, poolVars, busVars, history
<1>2. pc \in [Tasks -> Labels] /\ arg \in [Tasks -> ArgumentSet]
  BY SenderTypes DEF PayloadInv
<1>3. GoesOnAlone(t)
  BY <1>1, <1>2 DEF GoesOnAlone, Handling, Sending
<1>4. Kept /\ NotFreedTwice'
  BY <1>1 DEF Kept, Same, PayloadInv, NotFreedTwice
<1>5. /\ arg'[t].type = arg[t].type /\ arg'[t].load = arg[t].load
      /\ \A u \in Tasks : u # t => arg'[u] = arg[u]
  BY <1>1, <1>2 DEF ArgumentSet
<1>6. Passes(t)' <=> Passes(t)
  BY <1>1, <1>2, <1>5 DEF Passes, Preparing
<1>7. QED
  BY <1>1, <1>3, <1>4, <1>5, <1>6, ControlKindly

(* A task leaves send_message.                                             *)
LEMMA KindlyLeave ==
  ASSUME PayloadInv, NEW t \in Tasks, pc[t] \in {"alloc", "test", "pend"},
         pc' = [pc EXCEPT ![t] = ret[t]],
         UNCHANGED <<msg, queue, cur, todo, ret, mine, arg, heap, issued, faults>>
  PROVE  Kindly /\ (~Passes(t) => Onward)
<1>1. pc \in [Tasks -> Labels] /\ ret[t] \in {"idle", "op_end", "handler_end", "bus_end"}
  BY SenderTypes DEF PayloadInv, Returns
<1>2. pc'[t] = ret[t] /\ ret'[t] = ret[t]
  BY <1>1
<1>3. Handling(t)' <=> Handling(t)
  BY <1>1, <1>2 DEF Handling, Sending
<1>4. GoesOnAlone(t)
  BY <1>1, <1>2, <1>3 DEF GoesOnAlone
<1>5. Kept /\ NotFreedTwice'
  BY DEF Kept, Same, PayloadInv, NotFreedTwice
<1>6. ~Passes(t)'
  BY <1>1, <1>2 DEF Passes, Preparing
<1>7. QED
  BY <1>4, <1>5, <1>6, ControlKindly

LEMMA KindlyNoMessage ==
  ASSUME PayloadInv, NEW t \in Tasks, NoMessage(t)
  PROVE  Kindly /\ (NothingDropped => Onward)
<1>1. /\ pc[t] = "alloc" /\ free = << >> /\ pc' = [pc EXCEPT ![t] = ret[t]]
      /\ UNCHANGED <<msg, queue, cur, todo, ret, mine, arg, heap, issued, faults>>
  BY DEF NoMessage, At, Goto, poolVars, busVars, taskVars, history
<1>2. ~NothingDropped
  BY <1>1 DEF NothingDropped
<1>3. QED
  BY <1>1, <1>2, KindlyLeave

LEMMA KindlyInvokePend ==
  ASSUME PayloadInv, NEW t \in Tasks, InvokePend(t)
  PROVE  Kindly /\ Onward
<1>1. /\ pc[t] = "pend" /\ pc' = [pc EXCEPT ![t] = ret[t]]
      /\ UNCHANGED <<msg, queue, cur, todo, ret, mine, arg, heap, issued, faults>>
  BY DEF InvokePend, At, Goto, poolVars, busVars, taskVars, history
<1>2. ~Passes(t)
  BY <1>1 DEF Passes, Preparing
<1>3. QED
  BY <1>1, <1>2, KindlyLeave

LEMMA KindlyInvokeTest ==
  ASSUME PayloadInv, NEW t \in Tasks, InvokeTest(t)
  PROVE  Kindly /\ Onward
<1>1. /\ pc[t] = "test"
      /\ pc' = [pc EXCEPT ![t] = "pend"] \/ pc' = [pc EXCEPT ![t] = ret[t]]
      /\ UNCHANGED <<msg, queue, cur, todo, ret, mine, arg, heap, issued, faults>>
  BY DEF InvokeTest, At, Goto, poolVars, busVars, history
<1>2. ~Passes(t) /\ pc \in [Tasks -> Labels]
  BY <1>1, SenderTypes DEF Passes, Preparing, PayloadInv
<1>3. CASE pc' = [pc EXCEPT ![t] = ret[t]]
  BY <1>1, <1>2, <1>3, KindlyLeave
<1>4. CASE pc' = [pc EXCEPT ![t] = "pend"]
  <2>1. GoesOnAlone(t)
    BY <1>1, <1>2, <1>4 DEF GoesOnAlone, Handling, Sending
  <2>2. Kept /\ NotFreedTwice'
    BY <1>1 DEF Kept, Same, PayloadInv, NotFreedTwice
  <2>3. ~Passes(t)'
    BY <1>2, <1>4 DEF Passes, Preparing
  <2>4. QED
    BY <1>1, <1>2, <2>1, <2>2, <2>3, ControlKindly
<1>5. QED
  BY <1>1, <1>3, <1>4

LEMMA KindlyRequestEnd ==
  ASSUME PayloadInv, NEW w \in Workers, RequestEnd(w)
  PROVE  Kindly /\ Onward
<1>1. /\ w \in Tasks /\ pc[w] = "op_end" /\ pc' = [pc EXCEPT ![w] = "idle"]
      /\ UNCHANGED <<msg, queue, cur, todo, ret, mine, arg, heap, issued, faults>>
  BY Names DEF RequestEnd, At, Goto, poolVars, busVars
<1>2. pc \in [Tasks -> Labels]
  BY SenderTypes DEF PayloadInv
<1>3. GoesOnAlone(w)
  BY <1>1, <1>2 DEF GoesOnAlone, Handling, Sending
<1>4. Kept /\ NotFreedTwice'
  BY <1>1 DEF Kept, Same, PayloadInv, NotFreedTwice
<1>5. ~Passes(w) /\ ~Passes(w)'
  BY <1>1, <1>2 DEF Passes, Preparing
<1>6. QED
  BY <1>1, <1>3, <1>4, <1>5, ControlKindly

LEMMA KindlyAnswerDeferred ==
  ASSUME PayloadInv, NEW w \in Workers, AnswerDeferred(w)
  PROVE  Kindly /\ Onward
<1>1. /\ w \in Tasks /\ pc[w] = "idle" /\ pc' = [pc EXCEPT ![w] = "alloc"]
      /\ UNCHANGED <<msg, queue, cur, todo, mine, heap, issued, faults>>
  BY Names DEF AnswerDeferred, At, Goto, poolVars, busVars, history
<1>2. PICK d \in deferred[w] : Send(w, CallReturn(d.m, d.load), "idle")
  BY DEF AnswerDeferred
<1>3. /\ pc \in [Tasks -> Labels] /\ arg \in [Tasks -> ArgumentSet]
      /\ ret \in [Tasks -> Returns]
  BY SenderTypes DEF PayloadInv
<1>4. /\ arg'[w].type = "CALL_RETURN" /\ ret'[w] = "idle"
      /\ \A u \in Tasks : u # w => arg'[u] = arg[u] /\ ret'[u] = ret[u]
  BY <1>1, <1>2, <1>3 DEF Send, Set, CallReturn
<1>5. GoesOnAlone(w)
  BY <1>1, <1>3, <1>4 DEF GoesOnAlone, Handling, Sending
<1>6. Kept /\ NotFreedTwice'
  BY <1>1 DEF Kept, Same, PayloadInv, NotFreedTwice
<1>7. ~Passes(w) /\ ~Passes(w)'
  BY <1>1, <1>4 DEF Passes, Preparing, WithPayload, Calls
<1>8. QED
  BY <1>1, <1>4, <1>5, <1>6, <1>7, ControlKindly

(* The bus ends a signal or a return, or releases a returned call.         *)
LEMMA KindlyBusEnds ==
  ASSUME PayloadInv, BusEnd \/ BusReleaseCall
  PROVE  Kindly /\ Onward
<1>1. /\ cur \in [Tasks -> Messages] /\ mine \in [Tasks -> Messages]
      /\ pc \in [Tasks -> Labels] /\ BusInv /\ Bus \in Tasks /\ Bus \notin Workers
  BY SenderTypes, Names DEF PayloadInv
<1>2. /\ pc[Bus] \in {"release_call", "bus_end"}
      /\ pc' = [pc EXCEPT ![Bus] = "idle"] \/ pc' = [pc EXCEPT ![Bus] = "bus_end"]
      /\ mblue_message_release(cur[Bus]) \/ mblue_message_release(mine[Bus])
      /\ UNCHANGED <<queue, cur, todo, ret, mine, arg, heap, issued, faults>>
  BY DEF BusEnd, BusReleaseCall, At, Goto, busVars, taskVars, history
<1>3. GoesOnAlone(Bus)
  BY <1>1, <1>2 DEF GoesOnAlone
<1>4. Kept /\ NotFreedTwice'
  BY <1>1, <1>2, OnlyCounts DEF CountsOnly, Kept, PayloadInv, NotFreedTwice
<1>5. ~Passes(Bus) /\ ~Passes(Bus)'
  BY <1>1, <1>2 DEF Passes, Preparing
<1>6. QED
  BY <1>1, <1>2, <1>3, <1>4, <1>5, ControlKindly

(***************************************************************************)
(* A task takes a message out of its queue.                                *)
(***************************************************************************)
Takes(t) ==
  /\ pc[t] = "idle" /\ queue[t] # << >>
  /\ queue' = [queue EXCEPT ![t] = Tail(queue[t])]
  /\ cur' = [cur EXCEPT ![t] = Head(queue[t])]
  /\ \A u \in Tasks : u # t => pc'[u] = pc[u] /\ ret'[u] = ret[u] /\ mine'[u] = mine[u]
  /\ pc'[t] # "invoke"

LEMMA PlacesTaken ==
  ASSUME BusInv, NEW t \in Tasks, Takes(t)
  PROVE  /\ Head(queue[t]) \in Messages /\ Placed(Head(queue[t]))
         /\ \A m \in Messages : Placed(m)' => Placed(m)
         /\ \A m \in Messages : Placed(m) => Placed(m)' \/ m = Head(queue[t])
         /\ \A w \in Workers : w # t => (Handling(w)' <=> Handling(w)) /\ cur'[w] = cur[w]
<1>1. /\ Bus \in Tasks /\ Workers \subseteq Tasks /\ cur \in [Tasks -> Messages]
      /\ queue \in [Tasks -> Seq(Messages)] /\ pc \in [Tasks -> Labels] /\ OnePlace /\ NoRepeats
  BY Names, SenderTypes DEF BusInv, Accounts
<1>2. /\ pc[t] = "idle" /\ queue[t] # << >>
      /\ queue' = [queue EXCEPT ![t] = Tail(queue[t])]
      /\ cur' = [cur EXCEPT ![t] = Head(queue[t])]
      /\ \A u \in Tasks : u # t => pc'[u] = pc[u] /\ ret'[u] = ret[u] /\ mine'[u] = mine[u]
      /\ pc'[t] # "invoke"
  BY DEF Takes
<1>3. PICK x : x = Head(queue[t])
  OBVIOUS
<1>4. /\ x \in Messages /\ x \in Range(queue[t])
      /\ Range(Tail(queue[t])) = Range(queue[t]) \ {x}
  BY <1>1, <1>2, <1>3, QueueHead DEF IsAt
<1>5. /\ queue'[t] = Tail(queue[t]) /\ cur'[t] = x
      /\ \A u \in Tasks : u # t => queue'[u] = queue[u] /\ cur'[u] = cur[u]
  BY <1>1, <1>2, <1>3
<1>6. \A w \in Workers : w # t => (Handling(w)' <=> Handling(w)) /\ cur'[w] = cur[w]
  BY <1>1, <1>2, <1>5 DEF Handling
<1>7. Placed(x)
  BY <1>4 DEF Placed, Underway, InQueue
<1>8. ASSUME NEW m \in Messages, m # x
      PROVE  Placed(m)' <=> Placed(m)
  <2>1. InQueue(m)' <=> InQueue(m)
    BY <1>4, <1>5, <1>8 DEF InQueue
  <2>2. WithSender(m)' <=> WithSender(m)
    BY <1>2 DEF WithSender
  <2>3. ~Handling(t)
    BY <1>2 DEF Handling, Sending
  <2>4. HandledAt(m)' <=> HandledAt(m)
    BY <1>1, <1>5, <1>6, <1>8, <2>3 DEF HandledAt
  <2>5. Copied(m)' <=> Copied(m)
    BY <1>1, <1>2, <1>5, <1>8 DEF Copied
  <2>6. QED
    BY <2>1, <2>2, <2>4, <2>5 DEF Placed, Underway
<1>9. QED
  BY <1>3, <1>4, <1>6, <1>7, <1>8

(* A worker takes a call or a signal.                                      *)
LEMMA KindlyHandle ==
  ASSUME PayloadInv, NEW w \in Workers, HandleCall(w) \/ HandleSignal(w)
  PROVE  Kindly /\ Onward
<1>1. /\ w \in Tasks /\ w # Bus /\ BusInv /\ pc \in [Tasks -> Labels] /\ cur \in [Tasks -> Messages]
      /\ arg \in [Tasks -> ArgumentSet] /\ ret \in [Tasks -> Returns]
      /\ Bus \in Tasks
  BY Names, SenderTypes DEF PayloadInv
<1>2. /\ Receive(w, Calls) \/ Receive(w, {"SIGNAL"})
      /\ UNCHANGED <<msg, todo, mine, heap, issued, faults>>
  BY DEF HandleCall, HandleSignal, poolVars, busVars
<1>3. /\ pc[w] = "idle" /\ queue[w] # << >> /\ msg[Head(queue[w])].type \in WithPayload
      /\ queue' = [queue EXCEPT ![w] = Tail(queue[w])]
      /\ cur' = [cur EXCEPT ![w] = Head(queue[w])]
  BY <1>2 DEF Receive, At, Set, WithPayload
<1>4. \/ pc' = [pc EXCEPT ![w] = "handler_end"] /\ arg' = arg /\ ret' = ret
      \/ /\ pc' = [pc EXCEPT ![w] = "alloc"] /\ ret' = [ret EXCEPT ![w] = "handler_end"]
         /\ \E m, load : arg' = [arg EXCEPT ![w] = CallReturn(m, load)]
  <2>1. CASE HandleCall(w)
    BY <2>1, Zenon DEF HandleCall, Send, Set, Goto
  <2>2. CASE HandleSignal(w)
    BY <2>2 DEF HandleSignal, Goto
  <2>3. QED
    BY <2>1, <2>2
<1>5. /\ \A u \in Tasks : u # w => pc'[u] = pc[u] /\ ret'[u] = ret[u] /\ arg'[u] = arg[u]
      /\ pc'[w] \in {"handler_end", "alloc"}
      /\ pc'[w] = "alloc" => ret'[w] = "handler_end" /\ arg'[w].type = "CALL_RETURN"
  BY <1>1, <1>4 DEF CallReturn
<1>6. Takes(w)
  BY <1>2, <1>3, <1>5 DEF Takes
<1>7. Handling(w)'
  BY <1>5 DEF Handling, Sending
<1>8. PICK x \in Messages : x = Head(queue[w]) /\ Placed(x)
  BY <1>1, <1>6, PlacesTaken
<1>9. cur'[w] = x
  BY <1>1, <1>3, <1>8
<1>10. Placed(x)'
  BY <1>7, <1>9 DEF Placed, HandledAt
<1>11. \A m \in Messages : Placed(m)' <=> Placed(m)
  BY <1>1, <1>6, <1>8, <1>10, PlacesTaken
<1>12. \A m \in Messages : (Carries(m)' <=> Carries(m)) /\ msg'[m].load = msg[m].load
  BY <1>2, <1>11 DEF Carries
<1>13. \A u \in Tasks : Passes(u)' <=> Passes(u)
  BY <1>3, <1>5 DEF Passes, Preparing, WithPayload, Calls
<1>14. \A u \in Tasks : Passes(u) => arg'[u].load = arg[u].load
  BY <1>3, <1>5 DEF Passes, Preparing
<1>15. HandlersCarry'
  <2>1. SUFFICES ASSUME NEW v \in Workers, Handling(v)'
                 PROVE  msg[cur'[v]].type \in WithPayload
    BY <1>2 DEF HandlersCarry
  <2>2. CASE v = w
    BY <1>3, <1>8, <1>9, <2>2
  <2>3. CASE v # w
    BY <1>1, <1>6, <2>1, <2>3, PlacesTaken DEF PayloadInv, HandlersCarry
  <2>4. QED
    BY <2>2, <2>3
<1>16. SignalCopied'
  <2>1. pc'[Bus] = pc[Bus] /\ cur'[Bus] = cur[Bus]
    BY <1>1, <1>3, <1>5
  <2>2. QED
    BY <1>2, <2>1 DEF PayloadInv, SignalCopied
<1>17. QED
  BY <1>2, <1>12, <1>13, <1>14, <1>15, <1>16
     DEF Kindly, Onward, CarriersKept, SendersKept, PayloadInv, NotFreedTwice

(* The bus takes a message and copies it if it is a signal.                *)
LEMMA BusTakes ==
  ASSUME PayloadInv, Kept, Takes(Bus),
         pc'[Bus] = "replicate" => Len(todo') = 1 /\ msg[Head(queue[Bus])].type = "SIGNAL"
  PROVE  /\ CarriersKept /\ HandlersCarry' /\ SignalCopied'
         /\ (Carries(Head(queue[Bus])) => pc'[Bus] = "replicate") =>
              \A m \in Messages : Carries(m) => Carries(m)' /\ msg'[m].load = msg[m].load
<1>1. /\ BusInv /\ Bus \in Tasks /\ Bus \notin Workers /\ Workers \subseteq Tasks
      /\ cur \in [Tasks -> Messages]
  BY Names, SenderTypes DEF PayloadInv
<1>2. PICK x \in Messages : x = Head(queue[Bus]) /\ Placed(x)
  BY <1>1, PlacesTaken
<1>3. cur'[Bus] = x
  BY <1>1, <1>2 DEF Takes
<1>4. \A m \in Messages : (Placed(m)' => Placed(m)) /\ (Placed(m) => Placed(m)' \/ m = x)
  BY <1>1, <1>2, PlacesTaken
<1>5. CarriersKept
  <2>1. SUFFICES ASSUME NEW m \in Messages, Carries(m)'
                 PROVE  Carries(m) /\ msg'[m].load = msg[m].load
    BY DEF CarriersKept
  <2>2. Placed(m)' /\ Placed(m)
    BY <1>4, <2>1 DEF Carries
  <2>3. QED
    BY <1>1, <2>1, <2>2, CarriersStay
<1>6. HandlersCarry'
  <2>1. SUFFICES ASSUME NEW w \in Workers, Handling(w)'
                 PROVE  msg'[cur'[w]].type \in WithPayload
    BY DEF HandlersCarry
  <2>2. w # Bus /\ Handling(w) /\ cur'[w] = cur[w]
    BY <1>1, <2>1, PlacesTaken
  <2>3. PICK m \in Messages : m = cur[w]
    BY <1>1
  <2>4. Placed(m) /\ msg[m].type \in WithPayload
    BY <2>2, <2>3 DEF PayloadInv, HandlersCarry, Placed, HandledAt
  <2>5. QED
    BY <1>1, <2>2, <2>3, <2>4, CarriersStay
<1>7. SignalCopied'
  <2>1. msg'[x].type = msg[x].type
    BY <1>1, <1>2, CarriersStay
  <2>2. QED
    BY <1>2, <1>3, <2>1 DEF SignalCopied
<1>8. ASSUME Carries(x) => pc'[Bus] = "replicate", NEW m \in Messages, Carries(m)
      PROVE  Carries(m)' /\ msg'[m].load = msg[m].load
  <2>1. Carries(x) => Placed(x)'
    BY <1>3, <1>8 DEF Placed, Copied
  <2>2. Placed(m) /\ Placed(m)'
    BY <1>4, <1>8, <2>1 DEF Carries
  <2>3. QED
    BY <1>1, <1>8, <2>2, CarriersStay
<1>9. QED
  BY <1>2, <1>5, <1>6, <1>7, <1>8

(* The bus takes a message without sending one itself.                     *)
LEMMA KindlyTaken ==
  ASSUME PayloadInv, Kept, Takes(Bus), heap' = heap, issued' = issued, NotFreedTwice',
         arg' = arg, pc'[Bus] \notin Preparing,
         pc'[Bus] = "replicate" => Len(todo') = 1 /\ msg[Head(queue[Bus])].type = "SIGNAL"
  PROVE  /\ Kindly
         /\ (Carries(Head(queue[Bus])) => pc'[Bus] = "replicate") => Onward
<1>1. \A t \in Tasks : Passes(t)' <=> Passes(t)
  BY DEF Passes, Preparing, Takes
<1>2. CarriersKept /\ HandlersCarry' /\ SignalCopied'
  BY BusTakes
<1>3. Kindly
  BY <1>1, <1>2 DEF Kindly, SendersKept
<1>4. ASSUME Carries(Head(queue[Bus])) => pc'[Bus] = "replicate"
      PROVE  Onward
  <2>1. \A m \in Messages : Carries(m) => Carries(m)' /\ msg'[m].load = msg[m].load
    BY <1>4, BusTakes
  <2>2. QED
    BY <1>1, <2>1 DEF Onward
<1>5. QED
  BY <1>3, <1>4

LEMMA KindlyBusSubscribe ==
  ASSUME PayloadInv, BusSubscribe
  PROVE  Kindly /\ Onward
<1>1. BusInv /\ Bus \in Tasks
  BY Names DEF PayloadInv
<1>2. /\ pc[Bus] = "idle" /\ queue[Bus] # << >> /\ msg[Head(queue[Bus])].type = "SUBSCRIBE"
      /\ queue' = [queue EXCEPT ![Bus] = Tail(queue[Bus])]
      /\ cur' = [cur EXCEPT ![Bus] = Head(queue[Bus])]
      /\ mblue_message_release(Head(queue[Bus]))
      /\ UNCHANGED <<pc, todo, ret, mine, arg, heap, issued, faults>>
  BY DEF BusSubscribe, Receive, At, Set, history
<1>3. Takes(Bus)
  BY <1>2 DEF Takes
<1>4. Head(queue[Bus]) \in Messages
  BY <1>1, <1>3, PlacesTaken
<1>5. Kept /\ NotFreedTwice'
  BY <1>1, <1>2, <1>4, OnlyCounts DEF CountsOnly, Kept, PayloadInv, NotFreedTwice
<1>6. ~Carries(Head(queue[Bus]))
  BY <1>2 DEF Carries, WithPayload, Calls
<1>7. QED
  BY <1>2, <1>3, <1>5, <1>6, KindlyTaken DEF Preparing

LEMMA KindlyBusSignal ==
  ASSUME PayloadInv, OneSubscriber, BusSignal
  PROVE  Kindly /\ Onward
<1>1. /\ BusInv /\ Bus \in Tasks /\ pc \in [Tasks -> Labels] /\ msg \in [Messages -> MessageSet]
      /\ publish \in [Workers -> Seq(Workers)]
  BY Names, SenderTypes DEF PayloadInv, BusInv, BusTypes
<1>2. /\ pc[Bus] = "idle" /\ queue[Bus] # << >> /\ msg[Head(queue[Bus])].type = "SIGNAL"
      /\ queue' = [queue EXCEPT ![Bus] = Tail(queue[Bus])]
      /\ cur' = [cur EXCEPT ![Bus] = Head(queue[Bus])]
      /\ publish[Major] # << >> /\ todo' = publish[Major]
      /\ pc' = [pc EXCEPT ![Bus] = "replicate"]
      /\ UNCHANGED <<msg, ret, mine, arg, heap, issued, faults>>
  BY DEF BusSignal, Receive, At, Set, Goto, poolVars, history
<1>3. /\ pc'[Bus] = "replicate"
      /\ \A u \in Tasks : u # Bus => pc'[u] = pc[u]
  BY <1>1, <1>2
<1>4. Takes(Bus)
  BY <1>2, <1>3 DEF Takes
<1>5. Head(queue[Bus]) \in Messages
  BY <1>1, <1>4, PlacesTaken
<1>6. Len(todo') = 1
  <2>1. PICK w \in Workers : w = Major
    BY <1>1, <1>5 DEF Major, MessageSet
  <2>2. publish[w] \in Seq(Workers) /\ publish[w] # << >> /\ Len(publish[w]) <= 1
    BY <1>1, <1>2, <2>1 DEF OneSubscriber
  <2>3. Len(publish[w]) \in Nat \ {0}
    BY <2>2, EmptySeq, LenProperties
  <2>4. PICK n \in Nat \ {0} : n = Len(publish[w])
    BY <2>3
  <2>5. n = 1
    <3>1. n <= 1
      BY <2>2, <2>4
    <3>2. QED
      BY <3>1
  <2>6. todo' = publish[w]
    BY <1>2, <2>1
  <2>7. QED
    BY <2>4, <2>5, <2>6
<1>7. Kept /\ NotFreedTwice'
  BY <1>2 DEF Kept, Same, PayloadInv, NotFreedTwice
<1>8. QED
  BY <1>2, <1>3, <1>4, <1>6, <1>7, KindlyTaken DEF Preparing

LEMMA KindlyBusReturn ==
  ASSUME PayloadInv, BusReturn \/ BusReturnStray
  PROVE  Kindly /\ Onward
<1>1. BusInv /\ Bus \in Tasks /\ pc \in [Tasks -> Labels] /\ mine \in [Tasks -> Messages]
  BY Names, SenderTypes DEF PayloadInv
<1>2. /\ Receive(Bus, {"CALL_RETURN"}) /\ UNCHANGED <<msg, todo, ret, arg, heap, issued>>
      /\ faults' = faults \/ faults' = faults \cup {"dead_frame"}
      /\ pc' = [pc EXCEPT ![Bus] = "release_call"] \/ pc' = [pc EXCEPT ![Bus] = "bus_end"]
  <2>1. CASE BusReturn
    BY <2>1 DEF BusReturn, Goto, poolVars
  <2>2. CASE BusReturnStray
    BY <2>2 DEF BusReturnStray, Goto, poolVars, busVars, history
  <2>3. QED
    BY <2>1, <2>2
<1>3. \A u \in Tasks : u # Bus => mine'[u] = mine[u]
  BY <1>1 DEF BusReturn, BusReturnStray, Set
<1>4. /\ pc[Bus] = "idle" /\ queue[Bus] # << >> /\ msg[Head(queue[Bus])].type = "CALL_RETURN"
      /\ queue' = [queue EXCEPT ![Bus] = Tail(queue[Bus])]
      /\ cur' = [cur EXCEPT ![Bus] = Head(queue[Bus])]
  BY <1>2 DEF Receive, At, Set
<1>5. /\ pc'[Bus] \in {"release_call", "bus_end"}
      /\ \A u \in Tasks : u # Bus => pc'[u] = pc[u]
  BY <1>1, <1>2
<1>6. Takes(Bus)
  BY <1>2, <1>3, <1>4, <1>5 DEF Takes
<1>7. Kept /\ NotFreedTwice'
  BY <1>2 DEF Kept, Same, PayloadInv, NotFreedTwice
<1>8. ~Carries(Head(queue[Bus]))
  BY <1>4 DEF Carries, WithPayload, Calls
<1>9. QED
  BY <1>2, <1>5, <1>6, <1>7, <1>8, KindlyTaken DEF Preparing

(* Nobody starts to send or to handle; messages go from one place to       *)
(* another.                                                                *)
LEMMA KindlyPlaces ==
  ASSUME PayloadInv, UNCHANGED <<cur, todo, arg, heap, issued, faults>>,
         \A m \in Messages : msg'[m].type = msg[m].type /\ msg'[m].load = msg[m].load,
         \A u \in Tasks : /\ pc'[u] \in Preparing <=> pc[u] \in Preparing
                          /\ pc'[u] = "replicate" => pc[u] = "replicate"
                          /\ Handling(u)' => Handling(u),
         \A m \in Messages : Placed(m)' => Placed(m)
  PROVE  /\ Kindly
         /\ (\A m \in Messages : Placed(m) => Placed(m)') => Onward
<1>1. cur \in [Tasks -> Messages] /\ Bus \in Tasks /\ Workers \subseteq Tasks
  BY SenderTypes, Names DEF PayloadInv
<1>2. CarriersKept
  BY DEF CarriersKept, Carries
<1>3. SendersKept
  BY DEF SendersKept, Passes
<1>4. HandlersCarry' /\ SignalCopied' /\ NotFreedTwice'
  BY <1>1 DEF PayloadInv, HandlersCarry, SignalCopied, NotFreedTwice
<1>5. ASSUME \A m \in Messages : Placed(m) => Placed(m)'
      PROVE  Onward
  BY <1>5 DEF Onward, Carries, Passes
<1>6. QED
  BY <1>2, <1>3, <1>4, <1>5 DEF Kindly

(* A message handed off is in a queue, or lost.                            *)
LEMMA KindlyInvokePost ==
  ASSUME PayloadInv, NEW t \in Tasks, InvokePost(t)
  PROVE  Kindly /\ (lost' = {} => Onward)
<1>1. /\ BusInv /\ pc \in [Tasks -> Labels] /\ mine \in [Tasks -> Messages]
      /\ msg \in [Messages -> MessageSet] /\ queue \in [Tasks -> Seq(Messages)]
      /\ cur \in [Tasks -> Messages] /\ Bus \in Tasks /\ Workers \subseteq Tasks
  BY SenderTypes, Names DEF PayloadInv
<1>2. PICK x \in Messages : x = mine[t]
  BY <1>1
<1>3. PICK dst : dst = IF msg[x].dst = NULL THEN Bus ELSE msg[x].dst
  OBVIOUS
<1>4. /\ pc[t] = "invoke" /\ pc' = [pc EXCEPT ![t] = "test"]
      /\ msg' = [msg EXCEPT ![x].dst = dst] /\ template_msg_post(dst, x)
      /\ UNCHANGED <<cur, todo, ret, mine, arg, heap, issued, faults>>
  BY <1>2, <1>3 DEF InvokePost, At, Goto, busVars, taskVars, history
<1>5. dst \in Tasks
  <2>1. msg[x].dst \in Tasks \cup {NULL}
    BY <1>1 DEF MessageSet
  <2>2. QED
    BY <1>1, <1>3, <2>1
<1>6. \/ queue' = [queue EXCEPT ![dst] = Append(queue[dst], x)] /\ lost' = lost
      \/ queue' = queue /\ lost' = lost \cup {x}
  BY <1>4 DEF template_msg_post
<1>7. \A m \in Messages : msg'[m].type = msg[m].type /\ msg'[m].load = msg[m].load
  BY <1>1, <1>4 DEF MessageSet
<1>8. /\ pc'[t] = "test" /\ \A u \in Tasks : u # t => pc'[u] = pc[u]
      /\ \A u \in Tasks : Handling(u)' <=> Handling(u)
  BY <1>1, <1>4 DEF Handling, Sending
<1>9. \A m \in Messages : /\ HandledAt(m)' <=> HandledAt(m)
                          /\ Copied(m)' <=> Copied(m)
  BY <1>1, <1>4, <1>8 DEF HandledAt, Copied
<1>10. \A m \in Messages : WithSender(m) <=> WithSender(m)' \/ m = x
  BY <1>1, <1>2, <1>4, <1>8 DEF WithSender
<1>13. \A u \in Tasks : /\ pc'[u] \in Preparing <=> pc[u] \in Preparing
                        /\ pc'[u] = "replicate" => pc[u] = "replicate"
                        /\ Handling(u)' => Handling(u)
  BY <1>4, <1>8 DEF Preparing
<1>11. CASE queue' = [queue EXCEPT ![dst] = Append(queue[dst], x)]
  <2>1. Range(queue'[dst]) = Range(queue[dst]) \cup {x}
    BY <1>1, <1>5, <1>11, EndAdded
  <2>2. \A m \in Messages : InQueue(m)' <=> InQueue(m) \/ m = x
    BY <1>1, <1>5, <1>11, <2>1 DEF InQueue
  <2>3. \A m \in Messages : Placed(m)' <=> Placed(m)
    BY <1>9, <1>10, <2>2 DEF Placed, Underway
  <2>4. QED
    BY <1>4, <1>7, <1>13, <2>3, KindlyPlaces
<1>12. CASE queue' = queue /\ lost' = lost \cup {x}
  <2>1. \A m \in Messages : Placed(m)' => Placed(m)
    BY <1>9, <1>10, <1>12 DEF Placed, Underway, InQueue
  <2>2. lost' # {}
    BY <1>12
  <2>3. QED
    BY <1>4, <1>7, <1>13, <2>1, <2>2, KindlyPlaces
<1>14. QED
  BY <1>6, <1>11, <1>12

(* The bus notes a call and passes it on, if there is room.                *)
LEMMA KindlyBusCall ==
  ASSUME PayloadInv, BusCall
  PROVE  Kindly /\ (lost' = {} => Onward)
<1>1. /\ BusInv /\ pc \in [Tasks -> Labels] /\ msg \in [Messages -> MessageSet]
      /\ queue \in [Tasks -> Seq(Messages)] /\ cur \in [Tasks -> Messages]
      /\ Bus \in Tasks /\ Workers \subseteq Tasks /\ Bus \notin Workers
      /\ OnePlace /\ NoRepeats
  BY SenderTypes, Names DEF PayloadInv, BusInv, Accounts
<1>2. /\ pc[Bus] = "idle" /\ queue[Bus] # << >>
      /\ UNCHANGED <<pc, todo, ret, mine, arg, heap, issued, faults>>
  BY DEF BusCall, At, history
<1>3. PICK x \in Messages : /\ x = Head(queue[Bus]) /\ x \in Range(queue[Bus])
                            /\ Range(Tail(queue[Bus])) = Range(queue[Bus]) \ {x}
  BY <1>1, <1>2, QueueHead DEF IsAt
<1>4. PICK w \in Workers : w = Major
  BY <1>1, <1>3 DEF Major, MessageSet
<1>5. /\ msg' = [msg EXCEPT ![x].ref = GetRef(x), ![x].dst = w]
      /\ cur' = [cur EXCEPT ![Bus] = x]
      /\ queue' = [queue EXCEPT ![Bus] = Tail(queue[Bus]),
                                ![w] = IF Fits(w) THEN Append(queue[w], x) ELSE queue[w]]
      /\ lost' = IF Fits(w) THEN lost ELSE lost \cup {x}
  BY <1>3, <1>4 DEF BusCall, Set
<1>6. \A m \in Messages : msg'[m].type = msg[m].type /\ msg'[m].load = msg[m].load
  BY <1>1, <1>5 DEF MessageSet
<1>7. \A u \in Tasks : u # Bus => cur'[u] = cur[u]
  BY <1>1, <1>5
<1>8. \A m \in Messages : /\ HandledAt(m)' <=> HandledAt(m)
                          /\ ~Copied(m)' /\ ~Copied(m)
                          /\ WithSender(m)' <=> WithSender(m)
  BY <1>1, <1>2, <1>7 DEF HandledAt, Copied, WithSender, Handling
<1>9. /\ queue'[Bus] = Tail(queue[Bus])
      /\ queue'[w] = IF Fits(w) THEN Append(queue[w], x) ELSE queue[w]
      /\ \A u \in Tasks : u # Bus /\ u # w => queue'[u] = queue[u]
  BY <1>1, <1>5
<1>10. Range(queue'[w]) = IF Fits(w) THEN Range(queue[w]) \cup {x} ELSE Range(queue[w])
  <2>1. queue[w] \in Seq(Messages)
    BY <1>1
  <2>2. Range(Append(queue[w], x)) = Range(queue[w]) \cup {x}
    BY <2>1, EndAdded
  <2>3. QED
    BY <1>9, <2>2
<1>11. \A m \in Messages : /\ InQueue(m)' => InQueue(m)
                           /\ Fits(w) /\ InQueue(m) => InQueue(m)'
  <2>1. SUFFICES ASSUME NEW m \in Messages
                 PROVE  /\ InQueue(m)' => InQueue(m)
                        /\ Fits(w) /\ InQueue(m) => InQueue(m)'
    OBVIOUS
  <2>2. InQueue(m)' => InQueue(m)
    BY <1>1, <1>3, <1>9, <1>10 DEF InQueue
  <2>3. ASSUME Fits(w), NEW u \in Tasks, m \in Range(queue[u])
        PROVE  InQueue(m)'
    <3>1. CASE m = x
      BY <1>1, <1>10, <2>3, <3>1 DEF InQueue
    <3>2. CASE m # x
      BY <1>1, <1>3, <1>9, <1>10, <2>3, <3>2 DEF InQueue
    <3>3. QED
      BY <3>1, <3>2
  <2>4. QED
    BY <2>2, <2>3 DEF InQueue
<1>12. \A m \in Messages : Placed(m)' => Placed(m)
  BY <1>8, <1>11 DEF Placed, Underway
<1>13. ASSUME lost' = {}
       PROVE  \A m \in Messages : Placed(m) => Placed(m)'
  <2>1. Fits(w)
    BY <1>5, <1>13
  <2>2. QED
    BY <1>8, <1>11, <2>1 DEF Placed, Underway
<1>14. CarriersKept
  BY <1>6, <1>12 DEF CarriersKept, Carries
<1>15. \A t \in Tasks : (Passes(t)' <=> Passes(t)) /\ arg'[t] = arg[t]
  BY <1>2 DEF Passes
<1>16. HandlersCarry' /\ SignalCopied' /\ NotFreedTwice'
  <2>1. \A v \in Workers : (Handling(v)' <=> Handling(v)) /\ cur'[v] = cur[v]
    BY <1>1, <1>2, <1>7 DEF Handling
  <2>2. HandlersCarry'
    BY <1>1, <1>6, <2>1 DEF PayloadInv, HandlersCarry
  <2>3. QED
    BY <1>2, <2>2 DEF PayloadInv, SignalCopied, NotFreedTwice
<1>17. Kindly
  BY <1>2, <1>14, <1>15, <1>16 DEF Kindly, SendersKept
<1>18. lost' = {} => Onward
  BY <1>6, <1>13, <1>15 DEF Onward, Carries
<1>19. QED
  BY <1>17, <1>18

LEMMA KindlyBusReplicateNull ==
  ASSUME PayloadInv, BusReplicateNull
  PROVE  Kindly /\ (NothingDropped => Onward)
<1>1. /\ Bus \in Tasks /\ Bus \notin Workers /\ Workers \subseteq Tasks /\ pc \in [Tasks -> Labels]
  BY SenderTypes, Names DEF PayloadInv
<1>2. /\ pc[Bus] = "replicate" /\ free = << >> /\ pc' = [pc EXCEPT ![Bus] = "dead"]
      /\ faults' = faults \cup {"null_replica"}
      /\ UNCHANGED <<msg, queue, cur, todo, ret, mine, arg, heap, issued>>
  BY DEF BusReplicateNull, At, Goto, poolVars, busVars, taskVars
<1>3. ~NothingDropped
  BY <1>1, <1>2 DEF NothingDropped
<1>4. pc'[Bus] = "dead" /\ \A u \in Tasks : u # Bus => pc'[u] = pc[u]
  BY <1>1, <1>2
<1>5. /\ \A w \in Workers : Handling(w)' <=> Handling(w)
      /\ \A t \in Tasks : Passes(t)' <=> Passes(t)
  BY <1>1, <1>2, <1>4 DEF Handling, Passes, Preparing
<1>6. \A m \in Messages : Placed(m)' => Placed(m)
  BY <1>1, <1>2, <1>4, <1>5 DEF Placed, Underway, InQueue, WithSender, HandledAt, Copied
<1>7. CarriersKept /\ SendersKept
  BY <1>2, <1>5, <1>6 DEF CarriersKept, Carries, SendersKept
<1>8. HandlersCarry' /\ SignalCopied' /\ NotFreedTwice'
  BY <1>2, <1>4, <1>5 DEF PayloadInv, HandlersCarry, SignalCopied, NotFreedTwice
<1>9. QED
  BY <1>2, <1>3, <1>7, <1>8 DEF Kindly

(* Steps of these kinds keep the invariant.                                *)
LEMMA KindlySteps ==
  ASSUME PayloadInv, BusInv', Kindly
  PROVE  PayloadInv' /\ (Onward /\ HeapKept => HeapKept')
<1>1. PayloadInv'
  BY OwnersKept DEF PayloadInv, Kindly
<1>2. ASSUME Onward, HeapKept
      PROVE  HeapKept'
  <2>1. heap' = heap
    BY DEF Kindly
  <2>2. SUFFICES ASSUME NEW r \in heap
                 PROVE  \/ \E m \in Messages : Carries(m)' /\ msg'[m].load = r
                        \/ \E t \in Tasks : Passes(t)' /\ arg'[t].load = r
    BY <2>1 DEF HeapKept
  <2>3. CASE \E m \in Messages : Carries(m) /\ msg[m].load = r
    BY <1>2, <2>3, Zenon DEF Onward
  <2>4. CASE \E t \in Tasks : Passes(t) /\ arg[t].load = r
    BY <1>2, <2>4, Zenon DEF Onward
  <2>5. QED
    BY <1>2, <2>2, <2>3, <2>4, Zenon DEF HeapKept
<1>3. QED
  BY <1>1, <1>2

(***************************************************************************)
(* Steps that make, write, copy and free a payload.                        *)
(***************************************************************************)
(* Task t makes a request, with a payload or without one.                  *)
LEMMA PayloadMade ==
  ASSUME BusInv, Owners, NEW t \in Tasks, CarriersKept,
         \A u \in Tasks : u # t => (Passes(u)' => Passes(u)) /\ arg'[u] = arg[u],
         issued' = [issued EXCEPT ![t] = issued[t] + 1], heap \subseteq heap',
         Passes(t)' => arg'[t].load = <<t, issued[t] + 1>> /\ arg'[t].load \in heap'
  PROVE  Owners'
<1>1. /\ issued \in [Tasks -> Nat] /\ heap \subseteq Requests
  BY DEF BusInv, TaskTypes, HistoryTypes
<1>2. issued'[t] = issued[t] + 1 /\ \A u \in Tasks : u # t => issued'[u] = issued[u]
  BY <1>1
<1>3. PayloadsNamed'
  <2>1. SUFFICES ASSUME NEW m \in Messages, Carries(m)'
                 PROVE  PayloadNamed(m)'
    BY DEF PayloadsNamed
  <2>2. Carries(m) /\ msg'[m].load = msg[m].load
    BY <2>1, Zenon DEF CarriersKept
  <2>3. PICK r : r = msg[m].load
    OBVIOUS
  <2>4. r \in heap /\ r[2] <= issued[r[1]] /\ (Passes(r[1]) => r[2] < issued[r[1]])
    BY <2>2, <2>3, Zenon DEF Owners, PayloadsNamed, PayloadNamed
  <2>5. PICK u \in Tasks : u = r[1] /\ r[2] \in Nat
    BY <1>1, <2>4, RequestParts
  <2>6. r[2] <= issued'[u] /\ (Passes(u)' => r[2] < issued'[u])
    <3>1. issued[u] \in Nat /\ r[2] <= issued[u]
      BY <1>1, <2>4, <2>5
    <3>2. CASE u = t
      BY <1>2, <2>5, <3>1, <3>2
    <3>3. CASE u # t
      BY <1>2, <2>4, <2>5, <3>3
    <3>4. QED
      BY <3>2, <3>3
  <2>7. r \in heap'
    BY <2>4
  <2>8. QED
    BY <2>2, <2>3, <2>5, <2>6, <2>7, Zenon DEF PayloadNamed
<1>4. OneCarrier'
  BY DEF OneCarrier, Owners, CarriersKept
<1>5. PayloadsPassed'
  <2>1. SUFFICES ASSUME NEW u \in Tasks, Passes(u)'
                 PROVE  arg'[u].load = <<u, issued'[u]>> /\ arg'[u].load \in heap'
    BY DEF PayloadsPassed
  <2>2. CASE u = t
    BY <1>2, <2>1, <2>2
  <2>3. CASE u # t
    <3>1. Passes(u) /\ arg'[u] = arg[u]
      BY <2>1, <2>3
    <3>2. arg[u].load = <<u, issued[u]>> /\ arg[u].load \in heap
      BY <3>1, Zenon DEF Owners, PayloadsPassed
    <3>3. QED
      BY <1>2, <2>3, <3>1, <3>2
  <2>4. QED
    BY <2>2, <2>3
<1>6. QED
  BY <1>3, <1>4, <1>5 DEF Owners

LEMMA AskPayload ==
  ASSUME PayloadInv, BusInv', NEW t \in Tasks, NEW id \in Requests, <<t, issued[t] + 1>> = id,
         CarriersKept, HandlersCarry', SignalCopied', faults' = faults, pc[t] = "idle",
         \A u \in Tasks : u # t => pc'[u] = pc[u] /\ arg'[u] = arg[u],
         issued' = [issued EXCEPT ![t] = issued[t] + 1],
         heap' = heap \/ heap' = heap \cup {id},
         Passes(t)' => arg'[t].load = id /\ id \in heap',
         heap' # heap => Passes(t)'
  PROVE  /\ PayloadInv'
         /\ (\A m \in Messages : Carries(m) => Carries(m)' /\ msg'[m].load = msg[m].load)
              /\ HeapKept => HeapKept'
<1>1. \A u \in Tasks : u # t => (Passes(u)' <=> Passes(u)) /\ arg'[u] = arg[u]
  BY DEF Passes
<1>2. ~Passes(t)
  BY DEF Passes, Preparing
<1>3. Owners'
  BY <1>1, PayloadMade DEF PayloadInv
<1>4. PayloadInv'
  BY <1>3 DEF PayloadInv, NotFreedTwice
<1>5. ASSUME \A m \in Messages : Carries(m) => Carries(m)' /\ msg'[m].load = msg[m].load,
             HeapKept
      PROVE  HeapKept'
  <2>1. SUFFICES ASSUME NEW r \in heap'
                 PROVE  \/ \E m \in Messages : Carries(m)' /\ msg'[m].load = r
                        \/ \E u \in Tasks : Passes(u)' /\ arg'[u].load = r
    BY DEF HeapKept
  <2>2. CASE r \in heap
    <3>1. CASE \E m \in Messages : Carries(m) /\ msg[m].load = r
      BY <1>5, <3>1, Zenon
    <3>2. CASE \E u \in Tasks : Passes(u) /\ arg[u].load = r
      BY <1>1, <1>2, <3>2, Zenon
    <3>3. QED
      BY <1>5, <2>2, <3>1, <3>2, Zenon DEF HeapKept
  <2>3. CASE r \notin heap
    <3>1. heap' # heap /\ r = id
      BY <2>3
    <3>2. Passes(t)' /\ arg'[t].load = r
      BY <3>1
    <3>3. QED
      BY <3>2
  <2>4. QED
    BY <2>2, <2>3
<1>6. QED
  BY <1>4, <1>5, Zenon

LEMMA PayloadMakeRequest ==
  ASSUME PayloadInv, BusInv', NEW w \in Workers, NEW o \in Ops[w], MakeRequest(w, o)
  PROVE  PayloadInv' /\ (HeapKept => HeapKept')
<1>1. /\ w \in Tasks /\ pc \in [Tasks -> Labels] /\ arg \in [Tasks -> ArgumentSet]
      /\ ret \in [Tasks -> Returns] /\ BusInv /\ issued \in [Tasks -> Nat]
  BY Names, SenderTypes DEF PayloadInv, BusInv, TaskTypes
<1>2. PICK id \in Requests : <<w, issued[w] + 1>> = id
  BY <1>1, NewRequest DEF MakeRequest
<1>3. id # NULL
  BY <1>2, NullAssumption
<1>4. /\ pc[w] = "idle" /\ pc' = [pc EXCEPT ![w] = "seq_inc"]
      /\ issued' = [issued EXCEPT ![w] = issued[w] + 1]
      /\ ret' = [ret EXCEPT ![w] = "op_end"]
      /\ o.type = "SUBSCRIBE" => heap' = heap
      /\ o.type # "SUBSCRIBE" => heap' = heap \cup {id}
      /\ UNCHANGED <<msg, queue, cur, todo, mine, faults>>
  BY <1>2, <1>3 DEF MakeRequest, At, Goto, Send, Set, poolVars, busVars, history
<1>5. arg'[w].type = o.type /\ (o.type # "SUBSCRIBE" => arg'[w].load = id)
  BY <1>1, <1>2 DEF MakeRequest, Send, Set
<1>6. \A u \in Tasks : u # w => pc'[u] = pc[u] /\ ret'[u] = ret[u] /\ arg'[u] = arg[u]
  BY <1>1, <1>4 DEF MakeRequest, Send, Set
<1>7. pc'[w] = "seq_inc" /\ ret'[w] = "op_end"
  BY <1>1, <1>4
<1>8. Kept
  BY <1>4 DEF Kept, Same
<1>9. GoesOnAlone(w)
  BY <1>4, <1>6, <1>7 DEF GoesOnAlone, Handling, Sending
<1>10. /\ \A m \in Messages : Carries(m)' <=> Carries(m)
       /\ \A m \in Messages : Carries(m) => msg'[m].load = msg[m].load
       /\ HandlersCarry' /\ SignalCopied'
  BY <1>1, <1>8, <1>9, PlacesGoOn
<1>11. CarriersKept
  BY <1>10 DEF CarriersKept
<1>12. o.type \in Types \ {"CALL_RETURN"}
  BY OpsAssumption
<1>13. Passes(w)' <=> o.type # "SUBSCRIBE"
  BY <1>5, <1>7, <1>12 DEF Passes, Preparing, WithPayload, Calls, Types
<1>14. heap' = heap \/ heap' = heap \cup {id}
  BY <1>4
<1>15. (Passes(w)' => arg'[w].load = id /\ id \in heap') /\ (heap' # heap => Passes(w)')
  BY <1>4, <1>5, <1>13
<1>16. PayloadInv'
  BY <1>1, <1>2, <1>4, <1>6, <1>10, <1>11, <1>14, <1>15, AskPayload
<1>17. ASSUME HeapKept
       PROVE  HeapKept'
  BY <1>1, <1>2, <1>4, <1>6, <1>10, <1>11, <1>14, <1>15, <1>17, AskPayload
<1>18. QED
  BY <1>16, <1>17

(* The bus logs what it took, which is dropped.                            *)
LEMMA PayloadLogged ==
  ASSUME PayloadInv, BusInv', BusSignalNobody \/ BusReturnNone \/ BusCallUnknown
  PROVE  /\ PayloadInv'
         /\ NothingDropped /\ lost' = {} /\ HeapKept => HeapKept'
<1>1. /\ Bus \in Tasks /\ pc \in [Tasks -> Labels] /\ arg \in [Tasks -> ArgumentSet]
      /\ ret \in [Tasks -> Returns] /\ BusInv /\ issued \in [Tasks -> Nat]
      /\ \A w \in Workers : w # Bus
  BY Names, SenderTypes DEF PayloadInv, BusInv, TaskTypes
<1>2. /\ \/ Receive(Bus, {"SIGNAL"}) /\ publish[Major] = << >> /\ MayRun(Bus)
         \/ Receive(Bus, {"CALL_RETURN"})
         \/ lost' = lost \cup {Head(queue[Bus])}
      /\ \E type : Receive(Bus, type)
      /\ \E label \in {"idle", "bus_end"} : Logger(label)
      /\ UNCHANGED <<msg, todo, mine, faults>>
  BY DEF BusSignalNobody, BusReturnNone, BusCallUnknown, Receive, At, poolVars, busVars, history
<1>3. PICK label \in {"idle", "bus_end"} : Logger(label)
  BY <1>2
<1>4. /\ pc[Bus] = "idle" /\ queue[Bus] # << >>
      /\ queue' = [queue EXCEPT ![Bus] = Tail(queue[Bus])]
      /\ cur' = [cur EXCEPT ![Bus] = Head(queue[Bus])]
  BY <1>2 DEF Receive, At, Set
<1>5. /\ pc' = [pc EXCEPT ![Bus] = "seq_inc"] \/ pc' = [pc EXCEPT ![Bus] = label]
      /\ ret' = ret \/ ret' = [ret EXCEPT ![Bus] = label]
      /\ arg' = arg \/ \E a : arg' = [arg EXCEPT ![Bus] = a]
  BY <1>3, Zenon DEF Logger, Goto, Send, Set
<1>6. /\ pc'[Bus] \in {"seq_inc", "idle", "bus_end"}
      /\ \A u \in Tasks : u # Bus => pc'[u] = pc[u] /\ ret'[u] = ret[u] /\ arg'[u] = arg[u]
  BY <1>1, <1>5
<1>7. Takes(Bus) /\ Kept /\ pc'[Bus] # "replicate"
  BY <1>2, <1>4, <1>6 DEF Takes, Kept, Same
<1>8. /\ CarriersKept /\ HandlersCarry' /\ SignalCopied'
      /\ ~Carries(Head(queue[Bus])) =>
           \A m \in Messages : Carries(m) => Carries(m)' /\ msg'[m].load = msg[m].load
  BY <1>7, BusTakes
<1>9. NothingDropped /\ lost' = {} => ~Carries(Head(queue[Bus]))
  <2>1. CASE Receive(Bus, {"SIGNAL"}) /\ publish[Major] = << >> /\ MayRun(Bus)
    BY <1>4, <2>1 DEF NothingDropped, Receive, At
  <2>2. CASE Receive(Bus, {"CALL_RETURN"})
    BY <2>2 DEF Receive, Carries, WithPayload, Calls
  <2>3. CASE lost' = lost \cup {Head(queue[Bus])}
    BY <2>3
  <2>4. QED
    BY <1>2, <2>1, <2>2, <2>3
<1>10. CASE issued[Bus] < Budget[Bus]
  <2>1. PICK id \in Requests : <<Bus, issued[Bus] + 1>> = id
    BY <1>1, <1>10, NewRequest
  <2>2. /\ issued' = [issued EXCEPT ![Bus] = issued[Bus] + 1] /\ heap' = heap \cup {id}
        /\ pc'[Bus] = "seq_inc" /\ arg'[Bus].type = "ASYNC_CALL" /\ arg'[Bus].load = id
    BY <1>1, <1>3, <1>10, <2>1 DEF Logger, Send, Set, Goto
  <2>3. Passes(Bus)'
    BY <2>2 DEF Passes, Preparing, WithPayload, Calls
  <2>4. faults' = faults /\ id \in heap'
    BY <1>2, <2>2
  <2>5. PayloadInv'
    BY <1>1, <1>4, <1>6, <1>8, <2>1, <2>2, <2>3, <2>4, AskPayload
  <2>6. ASSUME NothingDropped, lost' = {}, HeapKept
        PROVE  HeapKept'
    <3>1. \A m \in Messages : Carries(m) => Carries(m)' /\ msg'[m].load = msg[m].load
      BY <1>8, <1>9, <2>6, Zenon
    <3>2. QED
      BY <1>1, <1>4, <1>6, <1>8, <2>1, <2>2, <2>3, <2>4, <2>6, <3>1, AskPayload
  <2>7. QED
    BY <2>5, <2>6
<1>11. CASE ~(issued[Bus] < Budget[Bus])
  <2>1. UNCHANGED <<issued, heap, arg>> /\ pc'[Bus] = label
    BY <1>1, <1>3, <1>11 DEF Logger, Goto
  <2>2. NotFreedTwice'
    BY <1>2 DEF PayloadInv, NotFreedTwice
  <2>3. Kindly /\ (~Carries(Head(queue[Bus])) => Onward)
    BY <1>7, <2>1, <2>2, KindlyTaken DEF Preparing
  <2>4. QED
    BY <1>9, <2>1, <2>3, KindlySteps
<1>12. QED
  BY <1>10, <1>11

(* Task t's message x gets the payload.                                    *)
LEMMA PayloadWritten ==
  ASSUME BusInv, Owners, NEW t \in Tasks, NEW x \in Messages, heap' = heap, issued' = issued,
         ~Passes(t)', \A u \in Tasks : u # t => (Passes(u)' => Passes(u)) /\ arg'[u] = arg[u],
         \A m \in Messages : m # x /\ Carries(m)' => Carries(m) /\ msg'[m].load = msg[m].load,
         Carries(x)' => Passes(t) /\ msg'[x].load = arg[t].load
  PROVE  Owners'
<1>1. /\ issued \in [Tasks -> Nat] /\ heap \subseteq Requests
  BY DEF BusInv, TaskTypes, HistoryTypes
<1>2. \A u \in Tasks : Passes(u)' => Passes(u) /\ u # t /\ arg'[u] = arg[u]
  BY Zenon
<1>3. Passes(t) => arg[t].load = <<t, issued[t]>> /\ arg[t].load \in heap
  BY Zenon DEF Owners, PayloadsPassed
<1>4. ASSUME NEW m \in Messages, m # x, Carries(m)'
      PROVE  /\ msg[m].load \in heap /\ msg'[m].load = msg[m].load
             /\ msg[m].load[2] <= issued[msg[m].load[1]]
             /\ Passes(msg[m].load[1]) => msg[m].load[2] < issued[msg[m].load[1]]
  <2>1. Carries(m) /\ msg'[m].load = msg[m].load
    BY <1>4, Zenon
  <2>2. PayloadNamed(m)
    BY <2>1, Zenon DEF Owners, PayloadsNamed
  <2>3. QED
    BY <2>1, <2>2, Zenon DEF PayloadNamed
<1>5. PayloadsNamed'
  <2>1. ASSUME NEW m \in Messages, Carries(m)', m # x
        PROVE  PayloadNamed(m)'
    <3>1. PICK r : r = msg[m].load
      OBVIOUS
    <3>2. /\ r \in heap /\ msg'[m].load = r /\ r[2] <= issued[r[1]]
          /\ Passes(r[1]) => r[2] < issued[r[1]]
      BY <1>4, <2>1, <3>1, Zenon
    <3>3. r[1] \in Tasks
      BY <1>1, <3>2, RequestParts
    <3>4. QED
      BY <1>2, <3>2, <3>3, Zenon DEF PayloadNamed
  <2>2. ASSUME Carries(x)'
        PROVE  PayloadNamed(x)'
    <3>1. PICK r : r = <<t, issued[t]>>
      OBVIOUS
    <3>2. msg'[x].load = r /\ r \in heap
      BY <1>3, <2>2, <3>1
    <3>3. r[1] = t /\ r[2] <= issued'[r[1]] /\ issued' = issued
      BY <1>1, <3>1
    <3>4. QED
      BY <3>2, <3>3, Zenon DEF PayloadNamed
  <2>3. QED
    BY <2>1, <2>2, Zenon DEF PayloadsNamed
<1>6. ASSUME NEW m \in Messages, m # x, Carries(m)', Carries(x)'
      PROVE  msg'[m].load # msg'[x].load
  <2>1. PICK r : r = msg[m].load
    OBVIOUS
  <2>2. msg'[m].load = r /\ (Passes(r[1]) => r[2] < issued[r[1]])
    BY <1>4, <1>6, <2>1, Zenon
  <2>3. msg'[x].load = <<t, issued[t]>> /\ Passes(t)
    BY <1>3, <1>6
  <2>4. SUFFICES ASSUME r = <<t, issued[t]>>
                 PROVE  FALSE
    BY <2>2, <2>3
  <2>5. r[1] = t /\ r[2] = issued[t]
    BY <2>4
  <2>6. issued[t] < issued[t]
    BY <2>2, <2>3, <2>5
  <2>7. QED
    BY <1>1, <2>6
<1>7. OneCarrier'
  <2>1. SUFFICES ASSUME NEW m \in Messages, NEW n \in Messages, Carries(m)', Carries(n)',
                        msg'[m].load = msg'[n].load, m # n
                 PROVE  FALSE
    BY Zenon DEF OneCarrier
  <2>2. m # x /\ n # x
    BY <1>6, <2>1
  <2>3. Carries(m) /\ Carries(n) /\ msg[m].load = msg[n].load
    BY <2>1, <2>2
  <2>4. QED
    BY <2>1, <2>3, Zenon DEF Owners, OneCarrier
<1>8. PayloadsPassed'
  BY <1>2 DEF Owners, PayloadsPassed
<1>9. QED
  BY <1>5, <1>7, <1>8 DEF Owners

LEMMA PayloadInitMessage ==
  ASSUME PayloadInv, BusInv', NEW t \in Tasks, InitMessage(t)
  PROVE  PayloadInv' /\ (HeapKept => HeapKept')
<1>1. /\ BusInv /\ pc \in [Tasks -> Labels] /\ mine \in [Tasks -> Messages]
      /\ cur \in [Tasks -> Messages] /\ msg \in [Messages -> MessageSet]
      /\ Bus \in Tasks /\ Workers \subseteq Tasks
  BY SenderTypes, Names DEF PayloadInv
<1>2. /\ pc[t] = "alloc" /\ free # << >> /\ pc' = [pc EXCEPT ![t] = "invoke"]
      /\ mine' = [mine EXCEPT ![t] = Head(free)]
      /\ UNCHANGED <<queue, cur, todo, ret, arg, heap, issued, faults>>
  BY DEF InitMessage, At, Goto, Set, busVars, history
<1>3. PICK x \in Messages : x = Head(free) /\ x \in Range(free)
  BY <1>1, <1>2, FreeHead DEF BusInv
<1>4. /\ \A m \in Messages : m # x => msg'[m] = msg[m]
      /\ msg'[x].type = arg[t].type /\ msg'[x].load = arg[t].load
  BY <1>1, <1>3 DEF InitMessage
<1>5. /\ pc'[t] = "invoke" /\ mine'[t] = x
      /\ \A u \in Tasks : u # t => pc'[u] = pc[u] /\ mine'[u] = mine[u]
  BY <1>1, <1>2, <1>3
<1>6. \A u \in Tasks : Handling(u)' <=> Handling(u)
  BY <1>2, <1>5 DEF Handling, Sending
<1>7. pc'[Bus] = "replicate" <=> pc[Bus] = "replicate"
  BY <1>1, <1>2, <1>5
<1>8. ~Placed(x) /\ Placed(x)'
  BY <1>1, <1>3, <1>5, PlacedInUse DEF Placed, Underway, WithSender
<1>9. \A m \in Messages : m # x => (Placed(m)' <=> Placed(m))
  <2>1. SUFFICES ASSUME NEW m \in Messages, m # x
                 PROVE  Placed(m)' <=> Placed(m)
    OBVIOUS
  <2>2. WithSender(m)' <=> WithSender(m)
    BY <1>2, <1>5, <2>1 DEF WithSender
  <2>3. HandledAt(m)' <=> HandledAt(m)
    BY <1>1, <1>2, <1>6 DEF HandledAt
  <2>4. QED
    BY <1>2, <1>7, <2>2, <2>3 DEF Placed, Underway, InQueue, Copied
<1>10. \A m \in Messages : m # x => (Carries(m)' <=> Carries(m)) /\ msg'[m].load = msg[m].load
  BY <1>4, <1>9 DEF Carries
<1>11. Passes(t) <=> Carries(x)'
  BY <1>2, <1>4, <1>8 DEF Passes, Preparing, Carries
<1>12. /\ ~Passes(t)'
       /\ \A u \in Tasks : u # t => (Passes(u)' <=> Passes(u)) /\ arg'[u] = arg[u]
  BY <1>2, <1>5 DEF Passes, Preparing
<1>13. Owners'
  BY <1>1, <1>2, <1>4, <1>10, <1>11, <1>12, PayloadWritten DEF PayloadInv
<1>14. HandlersCarry'
  <2>1. SUFFICES ASSUME NEW w \in Workers, Handling(w)
                 PROVE  msg'[cur[w]].type \in WithPayload
    BY <1>1, <1>2, <1>6 DEF HandlersCarry
  <2>2. Placed(cur[w]) /\ cur[w] \in Messages
    BY <1>1, <2>1 DEF Placed, HandledAt
  <2>3. msg'[cur[w]] = msg[cur[w]]
    BY <1>4, <1>8, <2>2
  <2>4. QED
    BY <2>1, <2>3 DEF PayloadInv, HandlersCarry
<1>15. SignalCopied'
  <2>1. SUFFICES ASSUME pc[Bus] = "replicate"
                 PROVE  Len(todo) = 1 /\ msg'[cur[Bus]].type = "SIGNAL"
    BY <1>2, <1>7 DEF SignalCopied
  <2>2. Placed(cur[Bus]) /\ cur[Bus] \in Messages
    BY <1>1, <2>1 DEF Placed, Copied
  <2>3. msg'[cur[Bus]] = msg[cur[Bus]]
    BY <1>4, <1>8, <2>2
  <2>4. QED
    BY <2>1, <2>3 DEF PayloadInv, SignalCopied
<1>16. PayloadInv'
  BY <1>2, <1>13, <1>14, <1>15 DEF PayloadInv, NotFreedTwice
<1>17. ASSUME HeapKept
       PROVE  HeapKept'
  <2>1. SUFFICES ASSUME NEW r \in heap
                 PROVE  \/ \E m \in Messages : Carries(m)' /\ msg'[m].load = r
                        \/ \E u \in Tasks : Passes(u)' /\ arg'[u].load = r
    BY <1>2 DEF HeapKept
  <2>2. CASE \E m \in Messages : Carries(m) /\ msg[m].load = r
    BY <1>8, <1>10, <2>2 DEF Carries
  <2>3. CASE \E u \in Tasks : Passes(u) /\ arg[u].load = r
    <3>1. PICK u \in Tasks : Passes(u) /\ arg[u].load = r
      BY <2>3
    <3>2. CASE u = t
      BY <1>4, <1>11, <3>1, <3>2
    <3>3. CASE u # t
      BY <1>12, <3>1, <3>3
    <3>4. QED
      BY <3>2, <3>3
  <2>4. QED
    BY <1>17, <2>1, <2>2, <2>3, Zenon DEF HeapKept
<1>18. QED
  BY <1>16, <1>17

(* A handler ends and frees the payload.                                   *)
LEMMA PayloadHandlerEnd ==
  ASSUME PayloadInv, BusInv', NEW w \in Workers, HandlerEnd(w)
  PROVE  PayloadInv' /\ (HeapKept => HeapKept')
<1>1. /\ BusInv /\ pc \in [Tasks -> Labels] /\ cur \in [Tasks -> Messages]
      /\ msg \in [Messages -> MessageSet] /\ w \in Tasks /\ w # Bus /\ Bus \in Tasks
      /\ Workers \subseteq Tasks /\ OnePlace
      /\ issued \in [Tasks -> Nat] /\ heap \subseteq Requests
  BY SenderTypes, Names DEF PayloadInv, BusInv, Accounts, TaskTypes, HistoryTypes
<1>2. PICK x \in Messages : x = cur[w]
  BY <1>1
<1>3. PICK r : r = msg[x].load
  OBVIOUS
<1>4. /\ pc[w] = "handler_end" /\ pc' = [pc EXCEPT ![w] = "idle"]
      /\ FreePayload(r) /\ mblue_message_release(x)
      /\ UNCHANGED <<queue, cur, todo, ret, mine, arg, issued>>
  BY <1>2, <1>3 DEF HandlerEnd, At, Goto, busVars, taskVars
<1>5. Handling(w) /\ Placed(x)
  BY <1>2, <1>4 DEF Handling, Placed, HandledAt
<1>6. Carries(x)
  BY <1>2, <1>5 DEF Carries, PayloadInv, HandlersCarry
<1>7. /\ r \in heap /\ (Passes(r[1]) => r[2] < issued[r[1]])
  BY <1>3, <1>6, Zenon DEF PayloadInv, Owners, PayloadsNamed, PayloadNamed
<1>8. heap' = heap \ {r} /\ faults' = faults
  BY <1>4, <1>7 DEF FreePayload
<1>9. \A m \in Messages : msg'[m].type = msg[m].type /\ msg'[m].load = msg[m].load
  BY <1>1, <1>4, OnlyCounts DEF CountsOnly, Same
<1>10. pc'[w] = "idle" /\ \A u \in Tasks : u # w => pc'[u] = pc[u]
  BY <1>1, <1>4
<1>11. ~Handling(w)' /\ \A u \in Tasks : u # w => (Handling(u)' <=> Handling(u))
  BY <1>4, <1>10 DEF Handling, Sending
<1>12. ~Placed(x)'
  <2>1. IsAt(x, "handler", w)
    BY <1>2, <1>5 DEF IsAt
  <2>2. \A u \in Tasks : /\ x \notin Range(queue[u])
                         /\ u # w => ~(Handling(u) /\ cur[u] = x)
                         /\ ~(pc[u] = "invoke" /\ mine[u] = x)
    BY <1>1, <2>1, PlacesApart DEF Kinds
  <2>3. ~Underway(x)'
    BY <1>4, <1>10, <2>2 DEF Underway, InQueue, WithSender
  <2>4. ~HandledAt(x)'
    BY <1>1, <1>4, <1>11, <2>2 DEF HandledAt
  <2>5. ~Copied(x)'
    BY <1>1, <1>4, <1>10, <2>2 DEF Copied, Handling
  <2>6. QED
    BY <2>3, <2>4, <2>5 DEF Placed
<1>13. \A m \in Messages : m # x => (Placed(m)' <=> Placed(m))
  <2>1. SUFFICES ASSUME NEW m \in Messages, m # x
                 PROVE  Placed(m)' <=> Placed(m)
    OBVIOUS
  <2>2. WithSender(m)' <=> WithSender(m)
    BY <1>4, <1>10 DEF WithSender
  <2>3. HandledAt(m)' <=> HandledAt(m)
    BY <1>1, <1>2, <1>4, <1>11, <2>1 DEF HandledAt
  <2>4. Copied(m)' <=> Copied(m)
    BY <1>1, <1>4, <1>10 DEF Copied
  <2>5. QED
    BY <1>4, <2>2, <2>3, <2>4 DEF Placed, Underway, InQueue
<1>14. \A m \in Messages : Carries(m)' <=> Carries(m) /\ m # x
  BY <1>9, <1>12, <1>13 DEF Carries
<1>15. \A t \in Tasks : Passes(t)' <=> Passes(t)
  BY <1>4, <1>10 DEF Passes, Preparing
<1>16. \A m \in Messages : Carries(m) /\ m # x => msg[m].load # r
  BY <1>3, <1>6, Zenon DEF PayloadInv, Owners, OneCarrier
<1>17. \A t \in Tasks : Passes(t) => arg[t].load # r
  <2>1. SUFFICES ASSUME NEW t \in Tasks, Passes(t), arg[t].load = r
                 PROVE  FALSE
    OBVIOUS
  <2>2. r = <<t, issued[t]>>
    BY <2>1, Zenon DEF PayloadInv, Owners, PayloadsPassed
  <2>3. r[1] = t /\ r[2] = issued[t]
    BY <2>2
  <2>4. issued[t] < issued[t]
    BY <1>7, <2>1, <2>3
  <2>5. QED
    BY <1>1, <2>4
<1>18. PayloadsNamed'
  <2>1. SUFFICES ASSUME NEW m \in Messages, Carries(m)'
                 PROVE  PayloadNamed(m)'
    BY DEF PayloadsNamed
  <2>2. PICK q : q = msg[m].load
    OBVIOUS
  <2>3. Carries(m) /\ q # r /\ msg'[m].load = q
    BY <1>9, <1>14, <1>16, <2>1, <2>2
  <2>4. q \in heap /\ q[2] <= issued[q[1]] /\ (Passes(q[1]) => q[2] < issued[q[1]])
    BY <2>2, <2>3, Zenon DEF PayloadInv, Owners, PayloadsNamed, PayloadNamed
  <2>5. q[1] \in Tasks
    BY <1>1, <2>4, RequestParts
  <2>6. q \in heap' /\ issued' = issued /\ (Passes(q[1])' => Passes(q[1]))
    BY <1>4, <1>8, <1>15, <2>3, <2>4, <2>5
  <2>7. QED
    BY <2>3, <2>4, <2>6, Zenon DEF PayloadNamed
<1>19. OneCarrier'
  BY <1>9, <1>14 DEF OneCarrier, PayloadInv, Owners
<1>20. PayloadsPassed'
  BY <1>4, <1>8, <1>15, <1>17 DEF PayloadsPassed, PayloadInv, Owners
<1>21. HandlersCarry' /\ SignalCopied' /\ NotFreedTwice'
  BY <1>1, <1>4, <1>8, <1>9, <1>10, <1>11
     DEF HandlersCarry, SignalCopied, NotFreedTwice, PayloadInv
<1>22. ASSUME HeapKept
       PROVE  HeapKept'
  <2>1. SUFFICES ASSUME NEW q \in heap, q # r
                 PROVE  \/ \E m \in Messages : Carries(m)' /\ msg'[m].load = q
                        \/ \E u \in Tasks : Passes(u)' /\ arg'[u].load = q
    BY <1>8 DEF HeapKept
  <2>2. CASE \E m \in Messages : Carries(m) /\ msg[m].load = q
    BY <1>3, <1>9, <1>14, <2>1, <2>2
  <2>3. CASE \E u \in Tasks : Passes(u) /\ arg[u].load = q
    BY <1>4, <1>15, <2>3
  <2>4. QED
    BY <1>22, <2>1, <2>2, <2>3, Zenon DEF HeapKept
<1>23. QED
  BY <1>18, <1>19, <1>20, <1>21, <1>22 DEF PayloadInv, Owners

(* Message x takes the payload over from message s.                        *)
LEMMA PayloadCopied ==
  ASSUME BusInv, Owners, NEW s \in Messages, NEW x \in Messages, heap' = heap, issued' = issued,
         SendersKept,
         \A m \in Messages : m # x /\ Carries(m)' =>
           m # s /\ Carries(m) /\ msg'[m].load = msg[m].load,
         Carries(x)' => Carries(s) /\ msg'[x].load = msg[s].load
  PROVE  Owners'
<1> DEFINE from(m) == IF m = x THEN s ELSE m
<1>1. ASSUME NEW m \in Messages, Carries(m)'
      PROVE  from(m) \in Messages /\ Carries(from(m)) /\ msg'[m].load = msg[from(m)].load
  BY <1>1
<1>2. ASSUME NEW m \in Messages, NEW n \in Messages, Carries(m)', Carries(n)', from(m) = from(n)
      PROVE  m = n
  BY <1>2
<1> HIDE DEF from
<1>3. PayloadsNamed'
  <2>1. SUFFICES ASSUME NEW m \in Messages, Carries(m)'
                 PROVE  PayloadNamed(m)'
    BY DEF PayloadsNamed
  <2>2. PICK n \in Messages : n = from(m)
    BY <1>1, <2>1
  <2>3. Carries(n) /\ msg'[m].load = msg[n].load
    BY <1>1, <2>1, <2>2
  <2>4. PICK r : r = msg[n].load
    OBVIOUS
  <2>5. r \in heap /\ r[2] <= issued[r[1]] /\ (Passes(r[1]) => r[2] < issued[r[1]])
    BY <2>3, <2>4, Zenon DEF Owners, PayloadsNamed, PayloadNamed
  <2>6. Passes(r[1])' => Passes(r[1])
    <3>1. r[1] \in Tasks
      BY <2>5, RequestParts DEF BusInv, HistoryTypes
    <3>2. QED
      BY <3>1, Zenon DEF SendersKept
  <2>7. QED
    BY <2>3, <2>4, <2>5, <2>6, Zenon DEF PayloadNamed
<1>4. OneCarrier'
  <2>1. SUFFICES ASSUME NEW m \in Messages, NEW n \in Messages, Carries(m)', Carries(n)',
                        msg'[m].load = msg'[n].load
                 PROVE  m = n
    BY Zenon DEF OneCarrier
  <2>2. PICK a \in Messages : a = from(m)
    BY <1>1, <2>1
  <2>3. PICK b \in Messages : b = from(n)
    BY <1>1, <2>1
  <2>4. Carries(a) /\ Carries(b) /\ msg[a].load = msg[b].load
    BY <1>1, <2>1, <2>2, <2>3
  <2>5. a = b
    BY <2>4, Zenon DEF Owners, OneCarrier
  <2>6. QED
    BY <1>2, <2>1, <2>2, <2>3, <2>5
<1>5. PayloadsPassed'
  BY DEF PayloadsPassed, Owners, SendersKept
<1>6. QED
  BY <1>3, <1>4, <1>5 DEF Owners

(* The bus copies a signal for its subscriber.                             *)
LEMMA PayloadBusReplicate ==
  ASSUME PayloadInv, BusInv', BusReplicate
  PROVE  PayloadInv' /\ (lost' = {} /\ HeapKept => HeapKept')
<1>1. /\ BusInv /\ pc \in [Tasks -> Labels] /\ cur \in [Tasks -> Messages]
      /\ msg \in [Messages -> MessageSet] /\ queue \in [Tasks -> Seq(Messages)]
      /\ Bus \in Tasks /\ Bus \notin Workers /\ Workers \subseteq Tasks /\ OnePlace
      /\ todo \in Seq(Workers)
  BY SenderTypes, Names DEF PayloadInv, BusInv, Accounts, BusTypes
<1>2. PICK s \in Messages : s = cur[Bus]
  BY <1>1
<1>3. pc[Bus] = "replicate" /\ free # << >> /\ Len(todo) = 1 /\ msg[s].type = "SIGNAL"
  BY <1>2 DEF BusReplicate, At, PayloadInv, SignalCopied
<1>4. PICK x \in Messages : x = Head(free) /\ x \in Range(free)
  BY <1>1, <1>3, FreeHead DEF BusInv
<1>5. PICK d \in Workers : d = Head(todo)
  <2>1. todo \in Seq(Workers) /\ todo # << >>
    BY <1>1 DEF PayloadInv, BusReplicate, At, BusInv, BusTypes
  <2>2. QED
    BY <2>1, HeadTailProperties
<1>6. /\ msg' = [msg EXCEPT ![x] = [msg[s] EXCEPT !.ref = GetRef(s), !.dst = d]]
      /\ template_msg_post(d, x) /\ pc' = [pc EXCEPT ![Bus] = "bus_end"]
      /\ UNCHANGED <<cur, ret, mine, arg, heap, issued, faults>>
  BY <1>2, <1>3, <1>4, <1>5 DEF BusReplicate, Goto, taskVars, history
<1>7. /\ pc'[Bus] = "bus_end" /\ \A u \in Tasks : u # Bus => pc'[u] = pc[u]
      /\ d \in Tasks
  BY <1>1, <1>6
<1>8. /\ msg'[x].type = "SIGNAL" /\ msg'[x].load = msg[s].load
      /\ \A m \in Messages : m # x => msg'[m] = msg[m]
  BY <1>1, <1>3, <1>6 DEF MessageSet
<1>9. \/ queue' = [queue EXCEPT ![d] = Append(queue[d], x)] /\ lost' = lost
      \/ queue' = queue /\ lost' = lost \cup {x}
  BY <1>6 DEF template_msg_post
<1>10. \A m \in Messages : /\ m # x => (InQueue(m)' <=> InQueue(m))
                           /\ lost' = {} => InQueue(x)'
  <2>1. CASE queue' = [queue EXCEPT ![d] = Append(queue[d], x)]
    <3>1. Range(queue'[d]) = Range(queue[d]) \cup {x}
      BY <1>1, <1>7, <2>1, EndAdded
    <3>2. QED
      BY <1>1, <1>7, <2>1, <3>1 DEF InQueue
  <2>2. CASE queue' = queue /\ lost' = lost \cup {x}
    BY <2>2 DEF InQueue
  <2>3. QED
    BY <1>9, <2>1, <2>2
<1>11. \A m \in Messages : WithSender(m)' <=> WithSender(m)
  BY <1>1, <1>3, <1>6, <1>7 DEF WithSender
<1>12. \A w \in Workers : Handling(w)' <=> Handling(w)
  BY <1>1, <1>6, <1>7 DEF Handling
<1>13. \A m \in Messages : HandledAt(m)' <=> HandledAt(m)
  BY <1>6, <1>12 DEF HandledAt
<1>14. \A m \in Messages : ~Copied(m)' /\ (Copied(m) <=> m = s)
  BY <1>2, <1>3, <1>7 DEF Copied
<1>15. Carries(s) /\ ~Placed(x)
  BY <1>1, <1>3, <1>4, <1>14, PlacedInUse DEF Carries, Placed, WithPayload
<1>16. ~Placed(s)'
  <2>1. IsAt(s, "handler", Bus)
    BY <1>2, <1>3 DEF IsAt, Handling
  <2>2. \A u \in Tasks : /\ s \notin Range(queue[u])
                         /\ u # Bus => ~(Handling(u) /\ cur[u] = s)
                         /\ ~(pc[u] = "invoke" /\ mine[u] = s)
    BY <1>1, <2>1, PlacesApart DEF Kinds
  <2>3. ~InQueue(s)' /\ ~WithSender(s)'
    BY <1>10, <1>11, <1>15, <2>2 DEF InQueue, WithSender, Carries
  <2>4. ~HandledAt(s)'
    BY <1>1, <1>13, <2>2 DEF HandledAt
  <2>5. QED
    BY <1>14, <2>3, <2>4 DEF Placed, Underway
<1>17. \A m \in Messages : m # x /\ m # s => (Carries(m)' <=> Carries(m)) /\ msg'[m] = msg[m]
  BY <1>8, <1>10, <1>11, <1>13, <1>14 DEF Carries, Placed, Underway
<1>18. \A t \in Tasks : (Passes(t)' <=> Passes(t)) /\ arg' = arg
  BY <1>3, <1>6, <1>7 DEF Passes, Preparing
<1>19. Owners'
  <2>1. \A m \in Messages : m # x /\ Carries(m)' =>
          m # s /\ Carries(m) /\ msg'[m].load = msg[m].load
    BY <1>16, <1>17 DEF Carries
  <2>2. SendersKept
    BY <1>18 DEF SendersKept
  <2>3. QED
    BY <1>1, <1>6, <1>8, <1>15, <2>1, <2>2, PayloadCopied DEF PayloadInv
<1>20. HandlersCarry'
  <2>1. SUFFICES ASSUME NEW w \in Workers, Handling(w)
                 PROVE  msg'[cur[w]].type \in WithPayload
    BY <1>6, <1>12 DEF HandlersCarry
  <2>2. Placed(cur[w]) /\ cur[w] \in Messages
    BY <1>1, <2>1 DEF Placed, HandledAt
  <2>3. msg'[cur[w]] = msg[cur[w]]
    BY <1>8, <1>15, <2>2
  <2>4. QED
    BY <2>1, <2>3 DEF PayloadInv, HandlersCarry
<1>21. PayloadInv'
  BY <1>6, <1>7, <1>19, <1>20 DEF PayloadInv, NotFreedTwice, SignalCopied
<1>22. ASSUME lost' = {}, HeapKept
       PROVE  HeapKept'
  <2>1. SUFFICES ASSUME NEW r \in heap
                 PROVE  \/ \E m \in Messages : Carries(m)' /\ msg'[m].load = r
                        \/ \E u \in Tasks : Passes(u)' /\ arg'[u].load = r
    BY <1>6 DEF HeapKept
  <2>2. CASE \E m \in Messages : Carries(m) /\ msg[m].load = r
    <3>1. PICK m \in Messages : Carries(m) /\ msg[m].load = r
      BY <2>2
    <3>2. CASE m = s
      <4>1. Carries(x)'
        BY <1>8, <1>10, <1>22 DEF Carries, Placed, Underway, WithPayload
      <4>2. QED
        BY <1>8, <3>1, <3>2, <4>1
    <3>3. CASE m # s
      <4>1. m # x
        BY <1>15, <3>1 DEF Carries
      <4>2. QED
        BY <1>17, <3>1, <3>3, <4>1
    <3>4. QED
      BY <3>2, <3>3
  <2>3. CASE \E u \in Tasks : Passes(u) /\ arg[u].load = r
    BY <1>18, <2>3
  <2>4. QED
    BY <1>22, <2>1, <2>2, <2>3, Zenon DEF HeapKept
<1>23. QED
  BY <1>21, <1>22

LEMMA PayloadSameState ==
  ASSUME PayloadInv, BusInv', UNCHANGED vars
  PROVE  PayloadInv' /\ (HeapKept => HeapKept')
<1>1. UNCHANGED <<msg, queue, pc, ret, arg, mine, cur, todo, heap, issued, faults>>
  BY DEF vars
<1>2. \A m \in Messages : msg'[m].type = msg[m].type /\ msg'[m].load = msg[m].load
  BY <1>1
<1>3. \A u \in Tasks : /\ pc'[u] \in Preparing <=> pc[u] \in Preparing
                       /\ pc'[u] = "replicate" => pc[u] = "replicate"
                       /\ Handling(u)' => Handling(u)
  BY <1>1 DEF Handling
<1>4. \A m \in Messages : Placed(m)' <=> Placed(m)
  BY <1>1 DEF Placed, Underway, InQueue, WithSender, HandledAt, Copied, Handling
<1>5. Kindly /\ Onward
  BY <1>1, <1>2, <1>3, <1>4, KindlyPlaces
<1>6. QED
  BY <1>5, KindlySteps

LEMMA PayloadSendStep ==
  ASSUME PayloadInv, BusInv', NEW t \in Tasks, SendStep(t)
  PROVE  /\ PayloadInv'
         /\ NothingDropped /\ lost' = {} /\ HeapKept => HeapKept'
<1>1. CASE InitMessage(t)
  BY <1>1, PayloadInitMessage
<1>2. CASE ~InitMessage(t)
  <2>1. Kindly /\ (NothingDropped /\ lost' = {} => Onward)
    BY <1>2, KindlySequenceIncrement, KindlySequenceReturn, KindlyNoMessage, KindlyInvokePost,
       KindlyInvokeTest, KindlyInvokePend DEF SendStep
  <2>2. QED
    BY <2>1, KindlySteps
<1>3. QED
  BY <1>1, <1>2

LEMMA PayloadWorkerStep ==
  ASSUME PayloadInv, BusInv', NEW w \in Workers, WorkerStep(w)
  PROVE  /\ PayloadInv'
         /\ NothingDropped /\ lost' = {} /\ HeapKept => HeapKept'
<1>1. CASE SendStep(w)
  BY <1>1, Names, PayloadSendStep
<1>2. CASE HandlerEnd(w)
  BY <1>2, PayloadHandlerEnd
<1>3. CASE RequestEnd(w) \/ HandleCall(w) \/ HandleSignal(w) \/ AnswerDeferred(w)
  <2>1. Kindly /\ Onward
    BY <1>3, KindlyRequestEnd, KindlyHandle, KindlyAnswerDeferred
  <2>2. QED
    BY <2>1, KindlySteps
<1>4. QED
  BY <1>1, <1>2, <1>3 DEF WorkerStep

LEMMA PayloadBusStep ==
  ASSUME PayloadInv, BusInv', OneSubscriber, BusStep
  PROVE  /\ PayloadInv'
         /\ NothingDropped /\ lost' = {} /\ HeapKept => HeapKept'
<1>1. CASE SendStep(Bus)
  BY <1>1, Names, PayloadSendStep
<1>2. CASE BusSignalNobody \/ BusReturnNone \/ BusCallUnknown
  BY <1>2, PayloadLogged
<1>3. CASE BusReplicate
  BY <1>3, PayloadBusReplicate
<1>4. CASE \/ BusSubscribe \/ BusSignal \/ BusReplicateNull \/ BusCall
           \/ BusReturnStray \/ BusReturn \/ BusReleaseCall \/ BusEnd
  <2>1. Kindly /\ (NothingDropped /\ lost' = {} => Onward)
    BY <1>4, KindlyBusSubscribe, KindlyBusSignal, KindlyBusReplicateNull, KindlyBusCall,
       KindlyBusReturn, KindlyBusEnds
  <2>2. QED
    BY <2>1, KindlySteps
<1>5. QED
  BY <1>1, <1>2, <1>3, <1>4 DEF BusStep

(* While no segment has two subscribers every step keeps the invariant,    *)
(* and forgets no payload unless it drops one.                             *)
LEMMA NextPayloadInv ==
  OneSubscriber /\ PayloadInv /\ [Next]_vars =>
    /\ PayloadInv'
    /\ NothingDropped /\ NothingDropped' /\ HeapKept => HeapKept'
<1>1. SUFFICES ASSUME OneSubscriber, PayloadInv, [Next]_vars
               PROVE  /\ PayloadInv'
                      /\ NothingDropped /\ lost' = {} /\ HeapKept => HeapKept'
  BY DEF NothingDropped
<1>2. BusInv'
  BY <1>1, NextBusInv DEF PayloadInv
<1>3. CASE BusStep
  BY <1>1, <1>2, <1>3, PayloadBusStep
<1>4. CASE \E w \in Workers : WorkerStep(w) \/ \E o \in Ops[w] : MakeRequest(w, o)
  BY <1>1, <1>2, <1>4, PayloadWorkerStep, PayloadMakeRequest
<1>5. CASE Finished \/ UNCHANGED vars
  BY <1>1, <1>2, <1>5, PayloadSameState DEF Finished
<1>6. QED
  BY <1>1, <1>3, <1>4, <1>5 DEF Next

LEMMA InitPayloadInv == Init => PayloadInv /\ HeapKept
<1>1. SUFFICES ASSUME Init
               PROVE  PayloadInv /\ HeapKept
  OBVIOUS
<1>2. /\ queue = [t \in Tasks |-> << >>] /\ pc = [t \in Tasks |-> "idle"]
      /\ heap = {} /\ faults = {} /\ BusInv
  BY <1>1, InitBusInv DEF Init
<1>3. /\ \A t \in Tasks : Range(queue[t]) = {} /\ pc[t] = "idle"
      /\ Bus \in Tasks /\ Workers \subseteq Tasks
  BY <1>2, Names DEF Range
<1>4. /\ \A t \in Tasks : ~Passes(t) /\ ~Handling(t)
      /\ \A m \in Messages : ~Carries(m)
  BY <1>3 DEF Passes, Preparing, Handling, Sending, Carries, Placed, Underway, InQueue,
              WithSender, HandledAt, Copied
<1>5. Owners
  BY <1>4, Zenon DEF Owners, PayloadsNamed, OneCarrier, PayloadsPassed
<1>6. HandlersCarry /\ SignalCopied
  BY <1>3, <1>4 DEF HandlersCarry, SignalCopied
<1>7. QED
  BY <1>2, <1>5, <1>6 DEF PayloadInv, NotFreedTwice, HeapKept

(* No payload is freed twice (the TODO of system_bus.c:196), whatever is   *)
(* lost, numbered twice or preempted, as long as no segment has two        *)
(* subscribers: until it is freed a payload has one carrier.               *)
THEOREM PayloadNotFreedTwice == Spec /\ []OneSubscriber => []("double_free" \notin faults)
<1>1. OneSubscriber /\ PayloadInv /\ [Next]_vars => PayloadInv'
  BY NextPayloadInv
<1>2. Init => PayloadInv
  BY InitPayloadInv
<1>3. PayloadInv => "double_free" \notin faults
  BY DEF PayloadInv, NotFreedTwice
<1>4. QED
  BY <1>1, <1>2, <1>3, PTL DEF Spec

(* When every task is idle and every queue empty each payload allocated    *)
(* for a call or a signal has been freed, once, as long as no segment has  *)
(* two subscribers and nothing is dropped on the way.                      *)
THEOREM PayloadsFreedOnce ==
  Spec /\ []OneSubscriber /\ []NothingDropped => []PayloadFreedOnce
<1>1. OneSubscriber /\ PayloadInv /\ [Next]_vars => PayloadInv'
  BY NextPayloadInv
<1>2. /\ OneSubscriber /\ PayloadInv /\ NothingDropped /\ NothingDropped' /\ HeapKept
      /\ [Next]_vars
      => HeapKept'
  BY NextPayloadInv
<1>3. Init => PayloadInv /\ HeapKept
  BY InitPayloadInv
<1>4. PayloadInv /\ HeapKept => PayloadFreedOnce
  <2>1. SUFFICES ASSUME PayloadInv, HeapKept, Quiescent
                 PROVE  heap = {}
    BY DEF PayloadFreedOnce, PayloadInv, NotFreedTwice
  <2>2. /\ \A t \in Tasks : Range(queue[t]) = {} /\ pc[t] = "idle"
        /\ Bus \in Tasks /\ Workers \subseteq Tasks
    BY <2>1, Names DEF Quiescent, Range
  <2>3. /\ \A t \in Tasks : ~Passes(t)
        /\ \A m \in Messages : ~Carries(m)
    BY <2>2 DEF Passes, Preparing, Handling, Sending, Carries, Placed, Underway, InQueue,
                WithSender, HandledAt, Copied
  <2>4. QED
    BY <2>1, <2>3, Zenon DEF HeapKept
<1>5. QED
  BY <1>1, <1>2, <1>3, <1>4, PTL DEF Spec
==============================================================================
