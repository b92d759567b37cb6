--------------------------- MODULE SystemBusProofs ---------------------------
(***************************************************************************)
(* Proofs about SystemBus: the message pool's accounting, for any number   *)
(* of tasks, any pool, queues and requests, and every interleaving.        *)
(***************************************************************************)
EXTENDS SystemBus, TLAPS, SequenceTheorems, FiniteSetTheorems, WellFoundedInduction

(***************************************************************************)
(* The inductive invariant: types.                                         *)
(***************************************************************************)
MessageSet ==
  [seq : 0 .. SeqLimit - 1, ref : 0 .. 2, type : Types, major : Workers,
   minor : Methods, src : Tasks \cup {NULL}, dst : Tasks \cup {NULL},
   load : Values, extra : Values \cup Workers]
ArgumentSet ==
  [type : Types, major : Workers, minor : Methods, dst : Workers \cup {NULL},
   seq : 0 .. SeqLimit - 1, load : Values, extra : Values \cup Workers]
CallSet == [m : Messages, type : Calls, info : Requests]
DeferredSet == [m : Messages, load : Requests]

Returns == {"idle", "op_end", "handler_end", "bus_end"}

PoolTypes ==
  /\ msg \in [Messages -> MessageSet]
  /\ free \in Seq(Messages)
  /\ queue \in [Tasks -> Seq(Messages)]
  /\ \A t \in Tasks : Len(queue[t]) <= QueueSize
  /\ lost \subseteq Messages
  /\ sequence \in 0 .. SeqLimit - 1

BusTypes ==
  /\ publish \in [Workers -> Seq(Workers)]
  /\ calls \in [Workers -> Seq(CallSet)]
  /\ todo \in Seq(Workers)
  /\ pc[Bus] = "replicate" => todo # << >>

TaskTypes ==
  /\ pc \in [Tasks -> Labels]
  /\ \A t \in Tasks : pc[t] \in {"replicate", "release_call", "dead"} => t = Bus
  /\ ret \in [Tasks -> Returns]
  /\ arg \in [Tasks -> ArgumentSet]
  /\ mine \in [Tasks -> Messages]
  /\ cur \in [Tasks -> Messages]
  /\ waitOn \in [Tasks -> Tasks]
  /\ op \in [Tasks -> Requests \cup {NULL}]
  /\ out \in [Tasks -> Values]
  /\ deferred \in [Tasks -> SUBSET DeferredSet]
  /\ issued \in [Tasks -> Nat]
  /\ callSem \in [Tasks -> Nat]

HistoryTypes ==
  /\ heap \subseteq Requests
  /\ executed \in [Requests -> Nat]
  /\ result \in [Requests -> Values]
  /\ faults \subseteq {"double_free", "null_replica", "dead_frame"}

(* A call carries a request, a subscription its subscriber.                *)
WellMade(r) ==
  /\ r.type \in Calls => r.load \in Requests /\ r.extra \in Requests
  /\ r.type = "SUBSCRIBE" => r.extra \in Workers

Arguments ==
  \A t \in Tasks : pc[t] \in {"seq_inc", "seq_ret", "alloc"} =>
    WellMade(arg[t])

Contents ==
  /\ \A m \in Messages : m \notin Range(free) => WellMade(msg[m]) /\ msg[m].src \in Tasks
  /\ \A t \in Tasks : pc[t] = "test" => msg[mine[t]].src \in Tasks

(***************************************************************************)
(* Where a message is: on the free list (the bus stands for the pool), in  *)
(* a task's queue, with the task that handles it, or with the task that    *)
(* has not handed it off.                                                  *)
(***************************************************************************)
Kinds == {"free", "queue", "handler", "sender"}

Handling(t) ==
  \/ pc[t] \in {"handler_end", "replicate", "release_call", "bus_end", "dead"}
  \/ pc[t] \in Sending /\ ret[t] \in {"handler_end", "bus_end"}

IsAt(m, k, t) ==
  \/ k = "free" /\ t = Bus /\ m \in Range(free)
  \/ k = "queue" /\ m \in Range(queue[t])
  \/ k = "handler" /\ Handling(t) /\ cur[t] = m
  \/ k = "sender" /\ pc[t] = "invoke" /\ mine[t] = m

(* No message is at two places.                                            *)
OnePlace ==
  \A m \in Messages : \A k, l \in Kinds, t, u \in Tasks :
    IsAt(m, k, t) /\ IsAt(m, l, u) => k = l /\ t = u

NoRepeats == IsInjective(free) /\ \A t \in Tasks : IsInjective(queue[t])

(* Who waits for a call to return: a segment's list of pending calls, or   *)
(* the bus that has taken the call off and not yet released the message.   *)
Waits(m, t) ==
  \/ t \in Workers /\ \E i \in DOMAIN calls[t] : calls[t][i].m = m
  \/ t = Bus /\ pc[Bus] = "release_call" /\ mine[Bus] = m

OneWaiter == \A m \in Messages : \A t, u \in Tasks : Waits(m, t) /\ Waits(m, u) => t = u

NoCallTwice ==
  \A w \in Workers : \A i, j \in DOMAIN calls[w] : calls[w][i].m = calls[w][j].m => i = j

Held(m) == \E k \in Kinds, t \in Tasks : k # "free" /\ IsAt(m, k, t)

Awaited(m) == \E t \in Tasks : Waits(m, t)

(* The reference counts.                                                   *)
Counted(m) ==
  /\ m \in Range(free) => m \notin lost /\ ~Awaited(m)
  /\ m \notin Range(free) /\ m \notin lost =>
       \/ msg[m].ref = 0 /\ Held(m) /\ ~Awaited(m)
       \/ msg[m].ref = 1 /\ Held(m) /\ ~Awaited(m)
       \/ msg[m].ref = 1 /\ ~Held(m) /\ Awaited(m)
       \/ msg[m].ref = 2 /\ Held(m) /\ Awaited(m)
  /\ m \in lost => ~Held(m) /\ (Awaited(m) => msg[m].ref = 2)

AllCounted == \A m \in Messages : Counted(m)

(* A message that has not been through the bus counts one reference for a  *)
(* call and none for anything else.                                        *)
Fresh(m) == msg[m].ref = IF msg[m].type \in Calls THEN 1 ELSE 0

FreshMessages ==
  /\ \A m \in Range(queue[Bus]) : Fresh(m)
  /\ \A t \in Tasks : pc[t] = "invoke" => Fresh(mine[t])
  /\ pc[Bus] = "replicate" => msg[cur[Bus]].ref = 0

Accounts == OnePlace /\ NoRepeats /\ OneWaiter /\ NoCallTwice /\ AllCounted

BusInv ==
  /\ PoolTypes /\ BusTypes /\ TaskTypes /\ HistoryTypes
  /\ Arguments /\ Contents
  /\ Accounts /\ FreshMessages

(***************************************************************************)
(* Sequences without repetition.                                           *)
(***************************************************************************)
LEMMA HeadTaken ==
  ASSUME NEW S, NEW s \in Seq(S), s # << >>, IsInjective(s)
  PROVE  /\ Tail(s) \in Seq(S) /\ Len(Tail(s)) < Len(s)
         /\ IsInjective(Tail(s))
         /\ Head(s) \in Range(s) /\ Head(s) \in S
         /\ Range(Tail(s)) = Range(s) \ {Head(s)}
<1>1. /\ Tail(s) \in Seq(S) /\ Head(s) = s[1] /\ Head(s) \in S
      /\ Len(s) \in Nat \ {0} /\ Len(Tail(s)) = Len(s) - 1
      /\ DOMAIN s = 1 .. Len(s) /\ DOMAIN Tail(s) = 1 .. Len(s) - 1
      /\ \A i \in 1 .. Len(s) - 1 : Tail(s)[i] = s[i + 1]
  BY HeadTailProperties, LenProperties, EmptySeq
<1>2. IsInjective(Tail(s))
  BY <1>1 DEF IsInjective
<1>3. Head(s) \in Range(s)
  BY <1>1 DEF Range
<1>4. ASSUME NEW x \in Range(Tail(s))
      PROVE  x \in Range(s) /\ x # Head(s)
  <2>1. PICK i \in 1 .. Len(s) - 1 : x = s[i + 1]
    BY <1>1, <1>4 DEF Range
  <2>2. i + 1 \in DOMAIN s /\ i + 1 # 1 /\ 1 \in DOMAIN s
    BY <1>1
  <2>3. QED
    BY <2>1, <2>2, <1>1 DEF Range, IsInjective
<1>5. ASSUME NEW x \in Range(s), x # Head(s)
      PROVE  x \in Range(Tail(s))
  <2>1. PICK i \in 1 .. Len(s) : x = s[i]
    BY <1>1, <1>5 DEF Range
  <2>2. i - 1 \in 1 .. Len(s) - 1 /\ (i - 1) + 1 = i
    BY <1>1, <1>5, <2>1
  <2>3. Tail(s)[i - 1] = x
    BY <1>1, <2>1, <2>2
  <2>4. QED
    BY <2>2, <2>3, <1>1 DEF Range
<1>6. Range(Tail(s)) = Range(s) \ {Head(s)}
  BY <1>4, <1>5
<1>7. Len(Tail(s)) < Len(s)
  BY <1>1
<1>8. QED
  BY <1>1, <1>2, <1>3, <1>6, <1>7

LEMMA EndAdded ==
  ASSUME NEW S, NEW s \in Seq(S), NEW e \in S
  PROVE  /\ Append(s, e) \in Seq(S) /\ Len(Append(s, e)) = Len(s) + 1
         /\ Range(Append(s, e)) = Range(s) \cup {e}
         /\ IsInjective(s) /\ e \notin Range(s) => IsInjective(Append(s, e))
<1> DEFINE a == Append(s, e)
<1>1. /\ a \in Seq(S) /\ Len(a) = Len(s) + 1 /\ Len(s) \in Nat
      /\ DOMAIN s = 1 .. Len(s) /\ DOMAIN a = 1 .. Len(s) + 1
      /\ \A i \in 1 .. Len(s) : a[i] = s[i]
      /\ a[Len(s) + 1] = e
  BY AppendProperties, LenProperties
<1> HIDE DEF a
<1>2. \A i : i \in DOMAIN a <=> i \in DOMAIN s \/ i = Len(s) + 1
  BY <1>1
<1>3. Range(a) = Range(s) \cup {e}
  BY <1>1, <1>2 DEF Range
<1>4. IsInjective(s) /\ e \notin Range(s) => IsInjective(a)
  BY <1>1, <1>2 DEF IsInjective, Range
<1>5. QED
  BY <1>1, <1>3, <1>4 DEF a

LEMMA RangeWithin ==
  ASSUME NEW S, NEW s \in Seq(S)
  PROVE  Range(s) \subseteq S
BY DEF Range

(***************************************************************************)
(* How a step can change where messages are and who waits for them.        *)
(***************************************************************************)
Stays == \A m \in Messages, k \in Kinds, t \in Tasks : IsAt(m, k, t)' <=> IsAt(m, k, t)

Moves(x, there, u) ==
  \A m \in Messages, k \in Kinds, t \in Tasks :
    IsAt(m, k, t)' <=> \/ m # x /\ IsAt(m, k, t)
                       \/ m = x /\ k = there /\ t = u

Vanishes(x) ==
  \A m \in Messages, k \in Kinds, t \in Tasks :
    IsAt(m, k, t)' <=> m # x /\ IsAt(m, k, t)

WaitStays == \A m \in Messages, t \in Tasks : Waits(m, t)' <=> Waits(m, t)

WaitMoves(x, u) ==
  \A m \in Messages, t \in Tasks :
    Waits(m, t)' <=> (m # x /\ Waits(m, t)) \/ (m = x /\ t = u)

WaitEnds(x) == \A m \in Messages, t \in Tasks : Waits(m, t)' <=> m # x /\ Waits(m, t)

LEMMA Names == Bus \in Tasks /\ Workers \subseteq Tasks /\ Bus \notin Workers /\ LogService \in Workers
BY TasksAssumption DEF Tasks

LEMMA FreePlace == \A m : m \in Range(free) <=> IsAt(m, "free", Bus)
BY DEF IsAt

LEMMA AfterStays ==
  ASSUME OnePlace, Stays
  PROVE  /\ OnePlace'
         /\ \A m \in Messages : /\ Held(m)' <=> Held(m)
                                /\ m \in Range(free') <=> m \in Range(free)
<1>1. OnePlace'
  <2>1. SUFFICES ASSUME NEW m \in Messages, NEW k \in Kinds, NEW l \in Kinds,
                        NEW t \in Tasks, NEW v \in Tasks, IsAt(m, k, t)', IsAt(m, l, v)'
                 PROVE  k = l /\ t = v
    BY DEF OnePlace
  <2>2. QED
    BY <2>1 DEF OnePlace, Stays
<1>2. \A m \in Messages : Held(m)' <=> Held(m)
  BY DEF Held, Stays
<1>3. \A m \in Messages : m \in Range(free') <=> m \in Range(free)
  BY Names DEF IsAt, Stays, Kinds
<1>4. QED
  BY <1>1, <1>2, <1>3

LEMMA AfterMove ==
  ASSUME OnePlace, NEW x \in Messages, NEW there \in Kinds, NEW u \in Tasks,
         there = "free" => u = Bus, Moves(x, there, u)
  PROVE  /\ OnePlace'
         /\ \A m \in Messages : m # x =>
              (Held(m)' <=> Held(m)) /\ (m \in Range(free') <=> m \in Range(free))
         /\ Held(x)' <=> there # "free"
         /\ x \in Range(free') <=> there = "free"
<1>1. OnePlace'
  <2>1. SUFFICES ASSUME NEW m \in Messages, NEW k \in Kinds, NEW l \in Kinds,
                        NEW t \in Tasks, NEW v \in Tasks, IsAt(m, k, t)', IsAt(m, l, v)'
                 PROVE  k = l /\ t = v
    BY DEF OnePlace
  <2>2. QED
    BY <2>1 DEF OnePlace, Moves
<1>2. \A m \in Messages : m # x => (Held(m)' <=> Held(m))
  BY DEF Held, Moves
<1>3. \A m \in Messages : m # x => (m \in Range(free') <=> m \in Range(free))
  BY Names DEF IsAt, Moves, Kinds
<1>4. Held(x)' <=> there # "free"
  BY DEF Held, Moves
<1>5. x \in Range(free') <=> there = "free"
  <2>1. IsAt(x, "free", Bus)' <=> there = "free" /\ u = Bus
    BY Names DEF Moves, Kinds
  <2>2. QED
    BY <2>1 DEF IsAt
<1>6. QED
  BY <1>1, <1>2, <1>3, <1>4, <1>5

LEMMA AfterVanishing ==
  ASSUME OnePlace, NEW x \in Messages, Vanishes(x)
  PROVE  /\ OnePlace'
         /\ \A m \in Messages : m # x =>
              (Held(m)' <=> Held(m)) /\ (m \in Range(free') <=> m \in Range(free))
         /\ ~Held(x)'
         /\ x \notin Range(free')
<1>1. OnePlace'
  <2>1. SUFFICES ASSUME NEW m \in Messages, NEW k \in Kinds, NEW l \in Kinds,
                        NEW t \in Tasks, NEW v \in Tasks, IsAt(m, k, t)', IsAt(m, l, v)'
                 PROVE  k = l /\ t = v
    BY DEF OnePlace
  <2>2. QED
    BY <2>1 DEF OnePlace, Vanishes
<1>2. \A m \in Messages : m # x => (Held(m)' <=> Held(m))
  BY DEF Held, Vanishes
<1>3. \A m \in Messages : m # x => (m \in Range(free') <=> m \in Range(free))
  BY Names DEF IsAt, Vanishes, Kinds
<1>4. ~Held(x)'
  BY DEF Held, Vanishes
<1>5. x \notin Range(free')
  <2>1. ~IsAt(x, "free", Bus)'
    BY Names DEF Vanishes, Kinds
  <2>2. QED
    BY <2>1 DEF IsAt
<1>6. QED
  BY <1>1, <1>2, <1>3, <1>4, <1>5

LEMMA AfterWaitStays ==
  ASSUME OneWaiter, WaitStays
  PROVE  OneWaiter' /\ \A m \in Messages : Awaited(m)' <=> Awaited(m)
BY Zenon DEF OneWaiter, WaitStays, Awaited

LEMMA AfterWaitMove ==
  ASSUME OneWaiter, NEW x \in Messages, NEW u \in Tasks, WaitMoves(x, u)
  PROVE  /\ OneWaiter'
         /\ \A m \in Messages : m # x => (Awaited(m)' <=> Awaited(m))
         /\ Awaited(x)'
BY Zenon DEF OneWaiter, WaitMoves, Awaited

LEMMA AfterWaitEnd ==
  ASSUME OneWaiter, NEW x \in Messages, WaitEnds(x)
  PROVE  /\ OneWaiter'
         /\ \A m \in Messages : m # x => (Awaited(m)' <=> Awaited(m))
         /\ ~Awaited(x)'
BY Zenon DEF OneWaiter, WaitEnds, Awaited

(* Counts that a step does not touch.                                      *)
LEMMA CountKept ==
  ASSUME NEW m, Counted(m),
         msg'[m].ref = msg[m].ref, m \in lost' <=> m \in lost,
         Held(m)' <=> Held(m), m \in Range(free') <=> m \in Range(free),
         Awaited(m)' <=> Awaited(m)
  PROVE  Counted(m)'
BY Zenon DEF Counted

(***************************************************************************)
(* A step that only moves a task's control.                                *)
(***************************************************************************)
LEMMA ControlPlaces ==
  ASSUME NEW t \in Tasks, NEW label, pc \in [Tasks -> Labels],
         pc' = [pc EXCEPT ![t] = label],
         free' = free, queue' = queue, cur' = cur, mine' = mine, calls' = calls,
         \A u \in Tasks : u # t => ret'[u] = ret[u],
         Handling(t)' <=> Handling(t),
         pc[t] # "invoke" /\ pc[t] # "release_call",
         label # "invoke" /\ label # "release_call"
  PROVE  Stays /\ WaitStays
<1>1. /\ \A u \in Tasks : u # t => pc'[u] = pc[u]
      /\ pc'[t] = label
  OBVIOUS
<1>2. \A u \in Tasks : Handling(u)' <=> Handling(u)
  BY <1>1 DEF Handling
<1>3. \A u \in Tasks : (pc'[u] = "invoke" <=> pc[u] = "invoke")
                    /\ (pc'[u] = "release_call" <=> pc[u] = "release_call")
  BY <1>1
<1>4. Stays
  <2>1. ASSUME NEW m \in Messages, NEW k \in Kinds, NEW u \in Tasks
        PROVE  IsAt(m, k, u)' <=> IsAt(m, k, u)
    BY <1>2, <1>3 DEF IsAt
  <2>2. QED
    BY <2>1 DEF Stays
<1>5. WaitStays
  <2>1. ASSUME NEW m \in Messages, NEW u \in Tasks
        PROVE  Waits(m, u)' <=> Waits(m, u)
    BY <1>3, Names DEF Waits
  <2>2. QED
    BY <2>1 DEF WaitStays
<1>6. QED
  BY <1>4, <1>5

LEMMA AccountsKept ==
  ASSUME Accounts, Stays, WaitStays, lost' = lost,
         \A m \in Messages : msg'[m].ref = msg[m].ref,
         free' = free, queue' = queue, calls' = calls
  PROVE  Accounts'
<1>1. OnePlace' /\ OneWaiter'
  BY AfterStays, AfterWaitStays DEF Accounts
<1>2. NoRepeats' /\ NoCallTwice'
  BY DEF Accounts, NoRepeats, NoCallTwice
<1>3. AllCounted'
  <2>1. ASSUME NEW m \in Messages
        PROVE  Counted(m)'
    BY AfterStays, AfterWaitStays, CountKept DEF Accounts, AllCounted
  <2>2. QED
    BY <2>1 DEF AllCounted
<1>4. QED
  BY <1>1, <1>2, <1>3 DEF Accounts

(* A held message changes hands.                                           *)
LEMMA AccountsHandedOn ==
  ASSUME Accounts, NEW x \in Messages, NEW there \in Kinds \ {"free"}, NEW u \in Tasks,
         Moves(x, there, u), WaitStays, Held(x), x \notin Range(free),
         NoRepeats', NoCallTwice', lost' = lost,
         \A m \in Messages : msg'[m].ref = msg[m].ref
  PROVE  Accounts'
<1>1. /\ OnePlace'
      /\ \A m \in Messages :
           (Held(m)' <=> Held(m)) /\ (m \in Range(free') <=> m \in Range(free))
  BY AfterMove DEF Accounts
<1>2. OneWaiter' /\ \A m \in Messages : Awaited(m)' <=> Awaited(m)
  BY AfterWaitStays DEF Accounts
<1>3. AllCounted'
  <2>1. ASSUME NEW m \in Messages
        PROVE  Counted(m)'
    BY <1>1, <1>2, CountKept DEF Accounts, AllCounted
  <2>2. QED
    BY <2>1 DEF AllCounted
<1>4. QED
  BY <1>1, <1>2, <1>3 DEF Accounts

(* A fresh message is dropped.                                             *)
LEMMA AccountsDropped ==
  ASSUME Accounts, NEW x \in Messages, Vanishes(x), WaitStays,
         Held(x), x \notin Range(free), msg[x].ref < 2, msg[x].ref \in Nat,
         NoRepeats', NoCallTwice', lost' = lost \cup {x},
         \A m \in Messages : msg'[m].ref = msg[m].ref
  PROVE  Accounts'
<1>1. /\ OnePlace' /\ ~Held(x)' /\ x \notin Range(free')
      /\ \A m \in Messages : m # x =>
           (Held(m)' <=> Held(m)) /\ (m \in Range(free') <=> m \in Range(free))
  BY AfterVanishing DEF Accounts
<1>2. OneWaiter' /\ \A m \in Messages : Awaited(m)' <=> Awaited(m)
  BY AfterWaitStays DEF Accounts
<1>3. ~Awaited(x)
  BY DEF Accounts, AllCounted, Counted
<1>4. AllCounted'
  <2>1. ASSUME NEW m \in Messages, m # x
        PROVE  Counted(m)'
    BY <2>1, <1>1, <1>2, CountKept DEF Accounts, AllCounted
  <2>2. Counted(x)'
    BY <1>1, <1>2, <1>3 DEF Counted
  <2>3. QED
    BY <2>1, <2>2 DEF AllCounted
<1>5. QED
  BY <1>1, <1>2, <1>4 DEF Accounts

(***************************************************************************)
(* A task takes the first message of its queue.                            *)
(***************************************************************************)
LEMMA QueueHead ==
  ASSUME NEW t \in Tasks, queue \in [Tasks -> Seq(Messages)], queue[t] # << >>,
         OnePlace, NoRepeats
  PROVE  /\ Head(queue[t]) \in Messages
         /\ IsAt(Head(queue[t]), "queue", t)
         /\ Held(Head(queue[t]))
         /\ Head(queue[t]) \notin Range(free)
         /\ Tail(queue[t]) \in Seq(Messages)
         /\ Len(Tail(queue[t])) < Len(queue[t])
         /\ IsInjective(Tail(queue[t]))
         /\ Range(Tail(queue[t])) = Range(queue[t]) \ {Head(queue[t])}
         /\ \A u \in Tasks : u # t => Head(queue[t]) \notin Range(queue[u])
<1> DEFINE x == Head(queue[t])
<1>1. queue[t] \in Seq(Messages) /\ IsInjective(queue[t])
  BY DEF NoRepeats
<1>2. /\ Tail(queue[t]) \in Seq(Messages) /\ Len(Tail(queue[t])) < Len(queue[t])
      /\ IsInjective(Tail(queue[t])) /\ x \in Range(queue[t]) /\ x \in Messages
      /\ Range(Tail(queue[t])) = Range(queue[t]) \ {x}
  BY <1>1, HeadTaken
<1> HIDE DEF x
<1>3. IsAt(x, "queue", t)
  BY <1>2 DEF IsAt
<1>4. Held(x)
  BY <1>3 DEF Held, Kinds
<1>5. x \notin Range(free)
  BY <1>2, <1>3, FreePlace, Names DEF OnePlace, Kinds
<1>6. ASSUME NEW u \in Tasks, u # t
      PROVE  x \notin Range(queue[u])
  <2>1. IsAt(x, "queue", u) => u = t
    BY <1>2, <1>3, <1>6 DEF OnePlace, Kinds
  <2>2. QED
    BY <2>1, <1>6 DEF IsAt
<1>7. QED
  BY <1>2, <1>3, <1>4, <1>5, <1>6 DEF x

LEMMA TakenPlaces ==
  ASSUME NEW t \in Tasks, queue \in [Tasks -> Seq(Messages)],
         cur \in [Tasks -> Messages], queue[t] # << >>, OnePlace, NoRepeats,
         pc[t] = "idle",
         cur' = [cur EXCEPT ![t] = Head(queue[t])],
         queue' = [queue EXCEPT ![t] = Tail(queue[t])],
         free' = free,
         \A u \in Tasks : u # t => pc'[u] = pc[u] /\ ret'[u] = ret[u] /\ mine'[u] = mine[u],
         pc'[t] # "invoke"
  PROVE  /\ Handling(t)' => Moves(Head(queue[t]), "handler", t)
         /\ ~Handling(t)' => Vanishes(Head(queue[t]))
         /\ NoRepeats'
<1> DEFINE x == Head(queue[t])
<1>1. /\ x \in Messages /\ IsAt(x, "queue", t) /\ x \notin Range(free)
      /\ IsInjective(Tail(queue[t]))
      /\ Range(Tail(queue[t])) = Range(queue[t]) \ {x}
      /\ \A u \in Tasks : u # t => x \notin Range(queue[u])
  BY QueueHead
<1>2. /\ cur'[t] = x /\ queue'[t] = Tail(queue[t])
      /\ \A u \in Tasks : u # t => cur'[u] = cur[u] /\ queue'[u] = queue[u]
  OBVIOUS
<1> HIDE DEF x
<1>3. ~Handling(t)
  BY DEF Handling, Sending
<1>4. \A u \in Tasks : u # t => (Handling(u)' <=> Handling(u))
  BY DEF Handling
<1>5. ASSUME NEW u \in Tasks
      PROVE  (Handling(u) => cur[u] # x) /\ (pc[u] = "invoke" => mine[u] # x)
  <2>1. ~IsAt(x, "handler", u) /\ ~IsAt(x, "sender", u)
    BY <1>1 DEF OnePlace, Kinds
  <2>2. QED
    BY <2>1 DEF IsAt
<1>6. ASSUME NEW m \in Messages, NEW u \in Tasks
      PROVE  /\ m \in Range(free') <=> m # x /\ m \in Range(free)
             /\ m \in Range(queue'[u]) <=> m # x /\ m \in Range(queue[u])
             /\ pc'[u] = "invoke" /\ mine'[u] = m <=> m # x /\ pc[u] = "invoke" /\ mine[u] = m
             /\ u # t => (Handling(u)' /\ cur'[u] = m <=> m # x /\ Handling(u) /\ cur[u] = m)
  <2>1. m \in Range(free') <=> m # x /\ m \in Range(free)
    BY <1>1
  <2>2. m \in Range(queue'[u]) <=> m # x /\ m \in Range(queue[u])
    BY <1>1, <1>2
  <2>3. pc'[u] = "invoke" /\ mine'[u] = m <=> m # x /\ pc[u] = "invoke" /\ mine[u] = m
    BY <1>5
  <2>4. u # t => (Handling(u)' /\ cur'[u] = m <=> m # x /\ Handling(u) /\ cur[u] = m)
    BY <1>2, <1>4, <1>5
  <2>5. QED
    BY <2>1, <2>2, <2>3, <2>4
<1>7. Handling(t)' => Moves(x, "handler", t)
  <2>1. SUFFICES ASSUME Handling(t)', NEW m \in Messages, NEW k \in Kinds, NEW u \in Tasks
                 PROVE  IsAt(m, k, u)' <=> \/ m # x /\ IsAt(m, k, u)
                                           \/ m = x /\ k = "handler" /\ u = t
    BY DEF Moves
  <2>2. Handling(t)' /\ cur'[t] = m <=> m = x
    BY <1>2, <2>1
  <2>3. QED
    BY <1>3, <1>6, <2>2 DEF IsAt, Kinds
<1>8. ~Handling(t)' => Vanishes(x)
  <2>1. SUFFICES ASSUME ~Handling(t)', NEW m \in Messages, NEW k \in Kinds, NEW u \in Tasks
                 PROVE  IsAt(m, k, u)' <=> m # x /\ IsAt(m, k, u)
    BY DEF Vanishes
  <2>2. QED
    BY <1>3, <1>6, <2>1 DEF IsAt, Kinds
<1>9. NoRepeats'
  BY <1>1, <1>2 DEF NoRepeats
<1>10. QED
  BY <1>7, <1>8, <1>9 DEF x

(***************************************************************************)
(* A task hands a message over to a queue, or loses it.                    *)
(***************************************************************************)
LEMMA PostedQueue ==
  ASSUME NEW d \in Tasks, NEW x \in Messages, queue \in [Tasks -> Seq(Messages)],
         \A t \in Tasks : Len(queue[t]) <= QueueSize,
         NoRepeats, x \notin Range(queue[d]), template_msg_post(d, x)
  PROVE  /\ queue' \in [Tasks -> Seq(Messages)]
         /\ \A t \in Tasks : Len(queue'[t]) <= QueueSize /\ IsInjective(queue'[t])
         /\ \/ /\ lost' = lost
               /\ \A t \in Tasks : t # d => queue'[t] = queue[t]
               /\ Range(queue'[d]) = Range(queue[d]) \cup {x}
            \/ /\ lost' = lost \cup {x} /\ queue' = queue
<1>1. CASE ~Fits(d)
  BY <1>1 DEF template_msg_post, NoRepeats
<1>2. CASE Fits(d)
  <2>1. queue' = [queue EXCEPT ![d] = Append(queue[d], x)] /\ lost' = lost
    BY <1>2 DEF template_msg_post
  <2>2. queue[d] \in Seq(Messages) /\ IsInjective(queue[d]) /\ Len(queue[d]) \in Nat
    BY LenProperties DEF NoRepeats
  <2>3. /\ Append(queue[d], x) \in Seq(Messages)
        /\ Len(Append(queue[d], x)) = Len(queue[d]) + 1
        /\ Range(Append(queue[d], x)) = Range(queue[d]) \cup {x}
        /\ IsInjective(Append(queue[d], x))
    BY <2>2, EndAdded
  <2>4. Len(queue[d]) + 1 <= QueueSize
    BY <1>2, <2>2, SizesAssumption DEF Fits
  <2>5. queue'[d] = Append(queue[d], x) /\ \A t \in Tasks : t # d => queue'[t] = queue[t]
    BY <2>1
  <2>6. queue' \in [Tasks -> Seq(Messages)]
    BY <2>1, <2>3
  <2>7. \A t \in Tasks : Len(queue'[t]) <= QueueSize /\ IsInjective(queue'[t])
    BY <2>3, <2>4, <2>5 DEF NoRepeats
  <2>8. QED
    BY <2>1, <2>3, <2>5, <2>6, <2>7
<1>3. QED
  BY <1>1, <1>2

(***************************************************************************)
(* A reference is given back.                                              *)
(***************************************************************************)
LEMMA Released ==
  ASSUME PoolTypes, NoRepeats, NEW x \in Messages, x \notin Range(free),
         mblue_message_release(x)
  PROVE  /\ msg' \in [Messages -> MessageSet]
         /\ free' \in Seq(Messages) /\ IsInjective(free')
         /\ \A m \in Messages : m # x => msg'[m] = msg[m]
         /\ msg'[x] = [msg[x] EXCEPT !.ref = PutRef(x)]
         /\ \/ /\ msg[x].ref \in {0, 1} /\ msg'[x].ref = 0
               /\ Range(free') = Range(free) \cup {x}
            \/ msg[x].ref = 2 /\ msg'[x].ref = 1 /\ free' = free
<1>1. msg[x] \in MessageSet /\ free \in Seq(Messages) /\ IsInjective(free)
  BY DEF PoolTypes, NoRepeats
<1>2. msg[x].ref \in 0 .. 2
  BY <1>1 DEF MessageSet
<1>3. /\ PutRef(x) \in 0 .. 1
      /\ msg[x].ref \in {0, 1} => PutRef(x) = 0
      /\ msg[x].ref = 2 => PutRef(x) = 1
      /\ msg[x].ref \in {0, 1} \/ msg[x].ref = 2
  BY <1>2 DEF PutRef
<1>4. /\ msg' = [msg EXCEPT ![x].ref = PutRef(x)]
      /\ free' = IF PutRef(x) = 0 THEN Append(free, x) ELSE free
  BY DEF mblue_message_release
<1> DEFINE n == PutRef(x)
<1> HIDE DEF n
<1>5. msg' = [msg EXCEPT ![x] = [msg[x] EXCEPT !.ref = n]]
  BY <1>4 DEF n
<1>6. [msg[x] EXCEPT !.ref = n] \in MessageSet /\ [msg[x] EXCEPT !.ref = n].ref = n
  BY <1>1, <1>3 DEF n, MessageSet
<1>7. msg \in [Messages -> MessageSet]
  BY DEF PoolTypes
<1> HIDE DEF MessageSet
<1>8. /\ msg' \in [Messages -> MessageSet]
      /\ msg'[x] = [msg[x] EXCEPT !.ref = n]
      /\ \A m \in Messages : m # x => msg'[m] = msg[m]
  BY <1>5, <1>6, <1>7
<1>9. /\ Append(free, x) \in Seq(Messages) /\ IsInjective(Append(free, x))
      /\ Range(Append(free, x)) = Range(free) \cup {x}
  BY <1>1, EndAdded
<1>10. free' = IF n = 0 THEN Append(free, x) ELSE free
  BY <1>4 DEF n
<1>11. /\ msg[x].ref \in {0, 1} => n = 0
       /\ msg[x].ref = 2 => n = 1
       /\ msg[x].ref \in {0, 1} \/ msg[x].ref = 2
  BY <1>3 DEF n
<1>12. msg'[x].ref = n
  BY <1>6, <1>8
<1>13. CASE msg[x].ref \in {0, 1}
  BY <1>13, <1>1, <1>8, <1>9, <1>10, <1>11, <1>12 DEF n
<1>14. CASE msg[x].ref = 2
  BY <1>14, <1>1, <1>8, <1>9, <1>10, <1>11, <1>12 DEF n
<1>15. QED
  BY <1>11, <1>13, <1>14

(* The free list and the queues stand apart from everything else.          *)
LEMMA PlacesApart ==
  ASSUME OnePlace, NEW x \in Messages, NEW k \in Kinds, NEW t \in Tasks, IsAt(x, k, t)
  PROVE  /\ k # "free" => x \notin Range(free)
         /\ \A u \in Tasks : /\ x \in Range(queue[u]) => k = "queue" /\ u = t
                             /\ Handling(u) /\ cur[u] = x => k = "handler" /\ u = t
                             /\ pc[u] = "invoke" /\ mine[u] = x => k = "sender" /\ u = t
<1>1. k # "free" => x \notin Range(free)
  BY FreePlace, Names DEF OnePlace, Kinds
<1>2. ASSUME NEW u \in Tasks
      PROVE  /\ IsAt(x, "queue", u) => k = "queue" /\ u = t
             /\ IsAt(x, "handler", u) => k = "handler" /\ u = t
             /\ IsAt(x, "sender", u) => k = "sender" /\ u = t
  BY DEF OnePlace, Kinds
<1>3. ASSUME NEW u \in Tasks
      PROVE  /\ x \in Range(queue[u]) => k = "queue" /\ u = t
             /\ Handling(u) /\ cur[u] = x => k = "handler" /\ u = t
             /\ pc[u] = "invoke" /\ mine[u] = x => k = "sender" /\ u = t
  BY <1>2, <1>3 DEF IsAt
<1>4. QED
  BY <1>1, <1>3

(* HandlerEnd and BusEnd.                                                  *)
LEMMA HandlerReleases ==
  ASSUME NEW t \in Tasks, PoolTypes, pc \in [Tasks -> Labels], cur \in [Tasks -> Messages],
         Accounts, pc[t] \in {"handler_end", "bus_end"}, pc' = [pc EXCEPT ![t] = "idle"],
         mblue_message_release(cur[t]),
         queue' = queue, cur' = cur, ret' = ret, mine' = mine, calls' = calls, lost' = lost
  PROVE  Accounts'
<1>0. PICK x \in Messages : x = cur[t]
  OBVIOUS
<1>1. x \in Messages /\ OnePlace /\ NoRepeats
  BY DEF Accounts
<1>2. IsAt(x, "handler", t)
  BY <1>0 DEF IsAt, Handling
<1>3. /\ x \notin Range(free)
      /\ \A u \in Tasks : /\ x \notin Range(queue[u])
                          /\ Handling(u) /\ cur[u] = x => u = t
                          /\ pc[u] = "invoke" => mine[u] # x
  BY <1>1, <1>2, PlacesApart DEF Kinds
<1>4. Held(x)
  BY <1>2 DEF Held, Kinds
<1>5. /\ IsInjective(free')
      /\ \A m \in Messages : m # x => msg'[m] = msg[m]
      /\ \/ /\ msg[x].ref \in {0, 1} /\ msg'[x].ref = 0
            /\ Range(free') = Range(free) \cup {x}
         \/ msg[x].ref = 2 /\ msg'[x].ref = 1 /\ free' = free
  BY <1>0, <1>1, <1>3, Released
<1>6. NoRepeats' /\ NoCallTwice'
  BY <1>5 DEF Accounts, NoRepeats, NoCallTwice
<1>7. /\ pc'[t] = "idle" /\ \A u \in Tasks : u # t => pc'[u] = pc[u]
      /\ ~Handling(t)' /\ \A u \in Tasks : u # t => (Handling(u)' <=> Handling(u))
  <2>1. pc'[t] = "idle" /\ \A u \in Tasks : u # t => pc'[u] = pc[u]
    OBVIOUS
  <2>2. QED
    BY <2>1 DEF Handling, Sending
<1>8. WaitStays
  <2>1. ASSUME NEW m \in Messages, NEW u \in Tasks
        PROVE  Waits(m, u)' <=> Waits(m, u)
    BY <1>7, Names DEF Waits
  <2>2. QED
    BY <2>1 DEF WaitStays
<1>9. OneWaiter' /\ \A m \in Messages : Awaited(m)' <=> Awaited(m)
  BY <1>8, AfterWaitStays DEF Accounts
<1>10. ASSUME NEW m \in Messages, NEW u \in Tasks
       PROVE  /\ m \in Range(queue'[u]) <=> m # x /\ m \in Range(queue[u])
              /\ Handling(u)' /\ cur'[u] = m <=> m # x /\ Handling(u) /\ cur[u] = m
              /\ pc'[u] = "invoke" /\ mine'[u] = m <=> m # x /\ pc[u] = "invoke" /\ mine[u] = m
  <2>1. m \in Range(queue'[u]) <=> m # x /\ m \in Range(queue[u])
    BY <1>3
  <2>2. Handling(u)' /\ cur'[u] = m <=> m # x /\ Handling(u) /\ cur[u] = m
    BY <1>0, <1>3, <1>7
  <2>3. pc'[u] = "invoke" /\ mine'[u] = m <=> m # x /\ pc[u] = "invoke" /\ mine[u] = m
    BY <1>3, <1>7
  <2>4. QED
    BY <2>1, <2>2, <2>3
<1>11. Counted(x)
  BY <1>1 DEF Accounts, AllCounted
<1>12. CASE msg[x].ref \in {0, 1} /\ msg'[x].ref = 0 /\ Range(free') = Range(free) \cup {x}
  <2>1. Moves(x, "free", Bus)
    <3>1. ASSUME NEW m \in Messages, NEW k \in Kinds, NEW u \in Tasks
          PROVE  IsAt(m, k, u)' <=> \/ m # x /\ IsAt(m, k, u)
                                    \/ m = x /\ k = "free" /\ u = Bus
      BY <1>10, <1>12, <1>3 DEF IsAt, Kinds
    <3>2. QED
      BY <3>1 DEF Moves
  <2>2. /\ OnePlace' /\ ~Held(x)' /\ x \in Range(free')
        /\ \A m \in Messages : m # x =>
             (Held(m)' <=> Held(m)) /\ (m \in Range(free') <=> m \in Range(free))
    BY <2>1, <1>1, AfterMove, Names DEF Kinds
  <2>3. x \notin lost /\ ~Awaited(x)
    BY <1>3, <1>4, <1>11, <1>12 DEF Counted
  <2>4. Counted(x)'
    BY <2>2, <2>3, <1>1, <1>9, <1>12 DEF Counted
  <2>5. ASSUME NEW m \in Messages, m # x
        PROVE  Counted(m)'
    BY <2>5, <2>2, <1>5, <1>9, CountKept DEF Accounts, AllCounted
  <2>6. QED
    BY <2>2, <2>4, <2>5, <1>6, <1>9 DEF Accounts, AllCounted
<1>13. CASE msg[x].ref = 2 /\ msg'[x].ref = 1 /\ free' = free
  <2>1. Vanishes(x)
    <3>1. ASSUME NEW m \in Messages, NEW k \in Kinds, NEW u \in Tasks
          PROVE  IsAt(m, k, u)' <=> m # x /\ IsAt(m, k, u)
      BY <1>10, <1>13, <1>3 DEF IsAt, Kinds
    <3>2. QED
      BY <3>1 DEF Vanishes
  <2>2. /\ OnePlace' /\ ~Held(x)' /\ x \notin Range(free')
        /\ \A m \in Messages : m # x =>
             (Held(m)' <=> Held(m)) /\ (m \in Range(free') <=> m \in Range(free))
    BY <2>1, <1>1, AfterVanishing
  <2>3. x \notin lost /\ Awaited(x)
    BY <1>3, <1>4, <1>11, <1>13 DEF Counted
  <2>4. Counted(x)'
    BY <2>2, <2>3, <1>1, <1>9, <1>13 DEF Counted
  <2>5. ASSUME NEW m \in Messages, m # x
        PROVE  Counted(m)'
    BY <2>5, <2>2, <1>5, <1>9, CountKept DEF Accounts, AllCounted
  <2>6. QED
    BY <2>2, <2>4, <2>5, <1>6, <1>9 DEF Accounts, AllCounted
<1>14. QED
  BY <1>5, <1>12, <1>13

(* bus_call_return gives up the reference of the pending call.             *)
LEMMA CallReleased ==
  ASSUME PoolTypes, pc \in [Tasks -> Labels], mine \in [Tasks -> Messages],
         Accounts, pc[Bus] = "release_call", pc' = [pc EXCEPT ![Bus] = "bus_end"],
         mblue_message_release(mine[Bus]),
         queue' = queue, cur' = cur, ret' = ret, mine' = mine, calls' = calls, lost' = lost
  PROVE  Accounts' /\ mine[Bus] \notin Range(free)
<1>0. PICK x \in Messages : x = mine[Bus]
  BY Names
<1>1. OnePlace /\ NoRepeats /\ OneWaiter /\ NoCallTwice /\ Counted(x)
  BY DEF Accounts, AllCounted
<1>2. Waits(x, Bus) /\ Awaited(x)
  BY <1>0, Names DEF Waits, Awaited
<1>3. x \notin Range(free)
  BY <1>1, <1>2 DEF Counted
<1>4. /\ IsInjective(free')
      /\ \A m \in Messages : m # x => msg'[m] = msg[m]
      /\ \/ /\ msg[x].ref \in {0, 1} /\ msg'[x].ref = 0
            /\ Range(free') = Range(free) \cup {x}
         \/ msg[x].ref = 2 /\ msg'[x].ref = 1 /\ free' = free
  BY <1>0, <1>1, <1>3, Released
<1>5. NoRepeats' /\ NoCallTwice'
  BY <1>1, <1>4 DEF NoRepeats, NoCallTwice
<1>6. /\ pc'[Bus] = "bus_end" /\ \A u \in Tasks : u # Bus => pc'[u] = pc[u]
      /\ \A u \in Tasks : Handling(u)' <=> Handling(u)
  <2>1. pc'[Bus] = "bus_end" /\ \A u \in Tasks : u # Bus => pc'[u] = pc[u]
    BY Names
  <2>2. QED
    BY <2>1, Names DEF Handling, Sending
<1>7. WaitEnds(x)
  <2>1. ASSUME NEW m \in Messages, NEW u \in Tasks
        PROVE  Waits(m, u)' <=> m # x /\ Waits(m, u)
    <3>1. CASE u = Bus
      BY <3>1, <1>0, <1>6, Names DEF Waits
    <3>2. CASE u # Bus
      <4>1. Waits(x, u) => u = Bus
        BY <1>1, <1>2, Names DEF OneWaiter
      <4>2. Waits(m, u)' <=> Waits(m, u)
        BY <3>2 DEF Waits
      <4>3. QED
        BY <4>1, <4>2, <3>2
    <3>3. QED
      BY <3>1, <3>2
  <2>2. QED
    BY <2>1 DEF WaitEnds
<1>8. /\ OneWaiter' /\ ~Awaited(x)'
      /\ \A m \in Messages : m # x => (Awaited(m)' <=> Awaited(m))
  BY <1>1, <1>7, AfterWaitEnd
<1>9. ASSUME NEW m \in Messages, NEW u \in Tasks
      PROVE  /\ m \in Range(queue'[u]) <=> m \in Range(queue[u])
             /\ Handling(u)' /\ cur'[u] = m <=> Handling(u) /\ cur[u] = m
             /\ pc'[u] = "invoke" /\ mine'[u] = m <=> pc[u] = "invoke" /\ mine[u] = m
  BY <1>6
<1>10. CASE msg[x].ref \in {0, 1} /\ msg'[x].ref = 0 /\ Range(free') = Range(free) \cup {x}
  <2>1. ~Held(x) /\ x \notin lost
    BY <1>1, <1>2, <1>3, <1>10 DEF Counted
  <2>2. Moves(x, "free", Bus)
    <3>1. ASSUME NEW m \in Messages, NEW k \in Kinds, NEW u \in Tasks
          PROVE  IsAt(m, k, u)' <=> \/ m # x /\ IsAt(m, k, u)
                                    \/ m = x /\ k = "free" /\ u = Bus
      <4>1. k # "free" => ~IsAt(x, k, u)
        BY <2>1 DEF Held
      <4>2. CASE k = "free"
        BY <4>2, <1>10, <1>3 DEF IsAt
      <4>3. CASE k # "free"
        BY <4>1, <4>3, <1>9 DEF IsAt
      <4>4. QED
        BY <4>2, <4>3
    <3>2. QED
      BY <3>1 DEF Moves
  <2>3. /\ OnePlace' /\ ~Held(x)' /\ x \in Range(free')
        /\ \A m \in Messages : m # x =>
             (Held(m)' <=> Held(m)) /\ (m \in Range(free') <=> m \in Range(free))
    BY <2>2, <1>1, AfterMove, Names DEF Kinds
  <2>4. Counted(x)'
    BY <2>1, <2>3, <1>8, <1>10 DEF Counted
  <2>5. ASSUME NEW m \in Messages, m # x
        PROVE  Counted(m)'
    BY <2>5, <2>3, <1>4, <1>8, CountKept DEF Accounts, AllCounted
  <2>6. QED
    BY <2>3, <2>4, <2>5, <1>0, <1>3, <1>5, <1>8 DEF Accounts, AllCounted
<1>11. CASE msg[x].ref = 2 /\ msg'[x].ref = 1 /\ free' = free
  <2>1. Stays
    <3>1. ASSUME NEW m \in Messages, NEW k \in Kinds, NEW u \in Tasks
          PROVE  IsAt(m, k, u)' <=> IsAt(m, k, u)
      BY <1>9, <1>11 DEF IsAt, Kinds
    <3>2. QED
      BY <3>1 DEF Stays
  <2>2. /\ OnePlace'
        /\ \A m \in Messages :
             (Held(m)' <=> Held(m)) /\ (m \in Range(free') <=> m \in Range(free))
    BY <2>1, <1>1, AfterStays
  <2>3. Counted(x)'
    BY <2>2, <1>1, <1>2, <1>3, <1>8, <1>11 DEF Counted
  <2>4. ASSUME NEW m \in Messages, m # x
        PROVE  Counted(m)'
    BY <2>2, <2>4, <1>4, <1>8, CountKept DEF Accounts, AllCounted
  <2>5. QED
    BY <2>2, <2>3, <2>4, <1>0, <1>3, <1>5, <1>8 DEF Accounts, AllCounted
<1>12. QED
  BY <1>4, <1>10, <1>11

(* bus_subscribe gives the message straight back.                          *)
LEMMA SubscribeReleased ==
  ASSUME PoolTypes, pc \in [Tasks -> Labels], mine \in [Tasks -> Messages],
         cur \in [Tasks -> Messages], Accounts, pc[Bus] = "idle", queue[Bus] # << >>,
         msg[Head(queue[Bus])].ref \in {0, 1}, mblue_message_release(Head(queue[Bus])),
         queue' = [queue EXCEPT ![Bus] = Tail(queue[Bus])],
         cur' = [cur EXCEPT ![Bus] = Head(queue[Bus])],
         pc' = pc, ret' = ret, mine' = mine, calls' = calls, lost' = lost
  PROVE  Accounts'
<1>0. OnePlace /\ NoRepeats /\ OneWaiter /\ NoCallTwice
  BY DEF Accounts
<1>1. queue \in [Tasks -> Seq(Messages)]
  BY DEF PoolTypes
<1>2. PICK x \in Messages : x = Head(queue[Bus])
  BY <1>0, <1>1, Names, QueueHead
<1>3. /\ IsAt(x, "queue", Bus) /\ Held(x) /\ x \notin Range(free)
      /\ IsInjective(Tail(queue[Bus]))
      /\ Range(Tail(queue[Bus])) = Range(queue[Bus]) \ {x}
  BY <1>0, <1>1, <1>2, Names, QueueHead
<1>4. \A u \in Tasks : /\ u # Bus => x \notin Range(queue[u])
                       /\ Handling(u) => cur[u] # x
                       /\ pc[u] = "invoke" => mine[u] # x
  BY <1>0, <1>3, PlacesApart, Names DEF Kinds
<1>5. /\ IsInjective(free')
      /\ \A m \in Messages : m # x => msg'[m] = msg[m]
      /\ \/ /\ msg[x].ref \in {0, 1} /\ msg'[x].ref = 0
            /\ Range(free') = Range(free) \cup {x}
         \/ msg[x].ref = 2 /\ msg'[x].ref = 1 /\ free' = free
  BY <1>0, <1>2, <1>3, Released
<1>6. msg'[x].ref = 0 /\ Range(free') = Range(free) \cup {x}
  BY <1>2, <1>5
<1>7. /\ queue'[Bus] = Tail(queue[Bus]) /\ cur'[Bus] = x
      /\ \A u \in Tasks : u # Bus => queue'[u] = queue[u] /\ cur'[u] = cur[u]
  BY <1>1, <1>2, Names
<1>8. NoRepeats' /\ NoCallTwice'
  <2>1. \A u \in Tasks : IsInjective(queue'[u])
    BY <1>0, <1>3, <1>7 DEF NoRepeats
  <2>2. QED
    BY <2>1, <1>0, <1>5 DEF NoRepeats, NoCallTwice
<1>9. ~Handling(Bus) /\ \A u \in Tasks : Handling(u)' <=> Handling(u)
  BY DEF Handling, Sending
<1>10. WaitStays
  <2>1. ASSUME NEW m \in Messages, NEW u \in Tasks
        PROVE  Waits(m, u)' <=> Waits(m, u)
    BY DEF Waits
  <2>2. QED
    BY <2>1 DEF WaitStays
<1>11. Moves(x, "free", Bus)
  <2>1. ASSUME NEW m \in Messages, NEW u \in Tasks
        PROVE  /\ m \in Range(queue'[u]) <=> m # x /\ m \in Range(queue[u])
               /\ Handling(u)' /\ cur'[u] = m <=> m # x /\ Handling(u) /\ cur[u] = m
               /\ pc'[u] = "invoke" /\ mine'[u] = m <=> m # x /\ pc[u] = "invoke" /\ mine[u] = m
    <3>1. m \in Range(queue'[u]) <=> m # x /\ m \in Range(queue[u])
      BY <1>3, <1>4, <1>7
    <3>2. Handling(u)' /\ cur'[u] = m <=> m # x /\ Handling(u) /\ cur[u] = m
      BY <1>4, <1>7, <1>9
    <3>3. QED
      BY <1>4, <3>1, <3>2
  <2>2. ASSUME NEW m \in Messages, NEW k \in Kinds, NEW u \in Tasks
        PROVE  IsAt(m, k, u)' <=> \/ m # x /\ IsAt(m, k, u)
                                  \/ m = x /\ k = "free" /\ u = Bus
    BY <2>1, <1>3, <1>6 DEF IsAt, Kinds
  <2>3. QED
    BY <2>2 DEF Moves
<1>12. /\ OnePlace' /\ ~Held(x)' /\ x \in Range(free')
       /\ \A m \in Messages : m # x =>
            (Held(m)' <=> Held(m)) /\ (m \in Range(free') <=> m \in Range(free))
  BY <1>0, <1>11, AfterMove, Names DEF Kinds
<1>13. OneWaiter' /\ \A m \in Messages : Awaited(m)' <=> Awaited(m)
  BY <1>0, <1>10, AfterWaitStays
<1>14. x \notin lost /\ ~Awaited(x)
  BY <1>2, <1>3 DEF Accounts, AllCounted, Counted
<1>15. Counted(x)'
  BY <1>12, <1>13, <1>14 DEF Counted
<1>16. ASSUME NEW m \in Messages, m # x
       PROVE  Counted(m)'
  BY <1>16, <1>12, <1>5, <1>13, CountKept DEF Accounts, AllCounted
<1>17. QED
  BY <1>8, <1>12, <1>13, <1>15, <1>16 DEF Accounts, AllCounted

(***************************************************************************)
(* A message is taken from the free list.                                  *)
(***************************************************************************)
LEMMA FreeHead ==
  ASSUME PoolTypes, Accounts, free # << >>
  PROVE  /\ Head(free) \in Messages
         /\ Head(free) \in Range(free)
         /\ Tail(free) \in Seq(Messages) /\ IsInjective(Tail(free))
         /\ Range(Tail(free)) = Range(free) \ {Head(free)}
         /\ ~Awaited(Head(free)) /\ Head(free) \notin lost
         /\ \A u \in Tasks : /\ Head(free) \notin Range(queue[u])
                             /\ Handling(u) => cur[u] # Head(free)
                             /\ pc[u] = "invoke" => mine[u] # Head(free)
<1>1. free \in Seq(Messages) /\ IsInjective(free)
  BY DEF PoolTypes, Accounts, NoRepeats
<1>2. PICK x : x = Head(free)
  OBVIOUS
<1>3. /\ x \in Messages /\ x \in Range(free)
      /\ Tail(free) \in Seq(Messages) /\ IsInjective(Tail(free))
      /\ Range(Tail(free)) = Range(free) \ {x}
  BY <1>1, <1>2, HeadTaken
<1>4. ~Awaited(x) /\ x \notin lost
  BY <1>3 DEF Accounts, AllCounted, Counted
<1>5. IsAt(x, "free", Bus) /\ OnePlace
  BY <1>3, FreePlace DEF Accounts
<1>6. \A u \in Tasks : /\ x \notin Range(queue[u])
                       /\ Handling(u) => cur[u] # x
                       /\ pc[u] = "invoke" => mine[u] # x
  BY <1>3, <1>5, PlacesApart, Names DEF Kinds
<1>7. QED
  BY <1>2, <1>3, <1>4, <1>6

(* init_message.                                                           *)
LEMMA AllocAccounts ==
  ASSUME NEW t \in Tasks, PoolTypes, pc \in [Tasks -> Labels],
         mine \in [Tasks -> Messages], Accounts, free # << >>,
         pc[t] = "alloc", pc' = [pc EXCEPT ![t] = "invoke"],
         free' = Tail(free), mine' = [mine EXCEPT ![t] = Head(free)],
         \A m \in Messages : m # Head(free) => msg'[m] = msg[m],
         msg'[Head(free)].ref \in {0, 1},
         queue' = queue, cur' = cur, ret' = ret, calls' = calls, lost' = lost
  PROVE  Accounts'
<1>0. OnePlace /\ NoRepeats /\ OneWaiter /\ NoCallTwice
  BY DEF Accounts
<1>1. PICK x \in Messages : x = Head(free)
  BY FreeHead
<1>2. /\ x \in Range(free) /\ IsInjective(Tail(free))
      /\ Range(Tail(free)) = Range(free) \ {x}
      /\ ~Awaited(x) /\ x \notin lost
      /\ \A u \in Tasks : /\ x \notin Range(queue[u])
                          /\ Handling(u) => cur[u] # x
                          /\ pc[u] = "invoke" => mine[u] # x
  BY <1>1, FreeHead
<1>3. /\ pc'[t] = "invoke" /\ mine'[t] = x
      /\ \A u \in Tasks : u # t => pc'[u] = pc[u] /\ mine'[u] = mine[u]
      /\ \A u \in Tasks : Handling(u)' <=> Handling(u)
  <2>1. /\ pc'[t] = "invoke" /\ mine'[t] = x
        /\ \A u \in Tasks : u # t => pc'[u] = pc[u] /\ mine'[u] = mine[u]
    BY <1>1
  <2>2. QED
    BY <2>1 DEF Handling, Sending
<1>4. NoRepeats' /\ NoCallTwice'
  BY <1>0, <1>2 DEF NoRepeats, NoCallTwice
<1>5. WaitStays
  <2>1. ASSUME NEW m \in Messages, NEW u \in Tasks
        PROVE  Waits(m, u)' <=> Waits(m, u)
    BY <1>3, Names DEF Waits
  <2>2. QED
    BY <2>1 DEF WaitStays
<1>6. Moves(x, "sender", t)
  <2>1. ASSUME NEW m \in Messages, NEW u \in Tasks
        PROVE  /\ m \in Range(queue'[u]) <=> m # x /\ m \in Range(queue[u])
               /\ Handling(u)' /\ cur'[u] = m <=> m # x /\ Handling(u) /\ cur[u] = m
               /\ pc'[u] = "invoke" /\ mine'[u] = m <=>
                    (m # x /\ pc[u] = "invoke" /\ mine[u] = m) \/ (m = x /\ u = t)
    <3>1. /\ m \in Range(queue'[u]) <=> m # x /\ m \in Range(queue[u])
          /\ Handling(u)' /\ cur'[u] = m <=> m # x /\ Handling(u) /\ cur[u] = m
      BY <1>2, <1>3
    <3>2. CASE u = t
      BY <3>1, <3>2, <1>2, <1>3
    <3>3. CASE u # t
      BY <3>1, <3>3, <1>2, <1>3
    <3>4. QED
      BY <3>2, <3>3
  <2>2. ASSUME NEW m \in Messages, NEW k \in Kinds, NEW u \in Tasks
        PROVE  IsAt(m, k, u)' <=> \/ m # x /\ IsAt(m, k, u)
                                  \/ m = x /\ k = "sender" /\ u = t
    BY <2>1, <1>2 DEF IsAt, Kinds
  <2>3. QED
    BY <2>2 DEF Moves
<1>7. /\ OnePlace' /\ Held(x)' /\ x \notin Range(free')
      /\ \A m \in Messages : m # x =>
           (Held(m)' <=> Held(m)) /\ (m \in Range(free') <=> m \in Range(free))
  BY <1>0, <1>6, AfterMove DEF Kinds
<1>8. OneWaiter' /\ \A m \in Messages : Awaited(m)' <=> Awaited(m)
  BY <1>0, <1>5, AfterWaitStays
<1>9. Counted(x)'
  BY <1>1, <1>2, <1>7, <1>8 DEF Counted
<1>10. ASSUME NEW m \in Messages, m # x
       PROVE  Counted(m)'
  BY <1>1, <1>7, <1>8, <1>10, CountKept DEF Accounts, AllCounted
<1>11. QED
  BY <1>4, <1>7, <1>8, <1>9, <1>10 DEF Accounts, AllCounted

(* One iteration of bus_signal's loop.                                     *)
LEMMA ReplicateAccounts ==
  ASSUME NEW d \in Tasks, PoolTypes, pc \in [Tasks -> Labels], Accounts, free # << >>,
         pc[Bus] = "replicate", pc'[Bus] \in {"bus_end", "replicate"},
         \A u \in Tasks : u # Bus => pc'[u] = pc[u],
         free' = Tail(free), template_msg_post(d, Head(free)),
         \A m \in Messages : m # Head(free) => msg'[m] = msg[m],
         msg'[Head(free)].ref = 1,
         mine' = mine, cur' = cur, ret' = ret, calls' = calls
  PROVE  Accounts'
<1>0. OnePlace /\ NoRepeats /\ OneWaiter /\ NoCallTwice
  BY DEF Accounts
<1>1. PICK x \in Messages : x = Head(free)
  BY FreeHead
<1>2. /\ x \in Range(free) /\ IsInjective(Tail(free))
      /\ Range(Tail(free)) = Range(free) \ {x}
      /\ ~Awaited(x) /\ x \notin lost
      /\ \A u \in Tasks : /\ x \notin Range(queue[u])
                          /\ Handling(u) => cur[u] # x
                          /\ pc[u] = "invoke" => mine[u] # x
  BY <1>1, FreeHead
<1>3. \A u \in Tasks : /\ Handling(u)' <=> Handling(u)
                       /\ pc'[u] = "invoke" <=> pc[u] = "invoke"
                       /\ pc'[u] = "release_call" <=> pc[u] = "release_call"
  BY DEF Handling, Sending
<1>4. /\ \A u \in Tasks : IsInjective(queue'[u])
      /\ \/ /\ lost' = lost
            /\ \A u \in Tasks : u # d => queue'[u] = queue[u]
            /\ Range(queue'[d]) = Range(queue[d]) \cup {x}
         \/ /\ lost' = lost \cup {x} /\ queue' = queue
  BY <1>0, <1>1, <1>2, PostedQueue DEF PoolTypes
<1>5. NoRepeats' /\ NoCallTwice'
  BY <1>0, <1>2, <1>4 DEF NoRepeats, NoCallTwice
<1>6. WaitStays
  <2>1. ASSUME NEW m \in Messages, NEW u \in Tasks
        PROVE  Waits(m, u)' <=> Waits(m, u)
    BY <1>3, Names DEF Waits
  <2>2. QED
    BY <2>1 DEF WaitStays
<1>7. OneWaiter' /\ \A m \in Messages : Awaited(m)' <=> Awaited(m)
  BY <1>0, <1>6, AfterWaitStays
<1>8. ASSUME NEW m \in Messages, NEW u \in Tasks
      PROVE  /\ Handling(u)' /\ cur'[u] = m <=> m # x /\ Handling(u) /\ cur[u] = m
             /\ pc'[u] = "invoke" /\ mine'[u] = m <=> m # x /\ pc[u] = "invoke" /\ mine[u] = m
  BY <1>2, <1>3
<1>9. CASE /\ lost' = lost
           /\ \A u \in Tasks : u # d => queue'[u] = queue[u]
           /\ Range(queue'[d]) = Range(queue[d]) \cup {x}
  <2>1. ASSUME NEW m \in Messages, NEW u \in Tasks
        PROVE  m \in Range(queue'[u]) <=>
                 (m # x /\ m \in Range(queue[u])) \/ (m = x /\ u = d)
    BY <1>2, <1>9
  <2>2. Moves(x, "queue", d)
    <3>1. ASSUME NEW m \in Messages, NEW k \in Kinds, NEW u \in Tasks
          PROVE  IsAt(m, k, u)' <=> \/ m # x /\ IsAt(m, k, u)
                                    \/ m = x /\ k = "queue" /\ u = d
      BY <2>1, <1>2, <1>8 DEF IsAt, Kinds
    <3>2. QED
      BY <3>1 DEF Moves
  <2>3. /\ OnePlace' /\ Held(x)' /\ x \notin Range(free')
        /\ \A m \in Messages : m # x =>
             (Held(m)' <=> Held(m)) /\ (m \in Range(free') <=> m \in Range(free))
    BY <1>0, <2>2, AfterMove DEF Kinds
  <2>4. Counted(x)'
    BY <1>1, <1>2, <1>7, <1>9, <2>3 DEF Counted
  <2>5. ASSUME NEW m \in Messages, m # x
        PROVE  Counted(m)'
    BY <1>1, <1>7, <1>9, <2>3, <2>5, CountKept DEF Accounts, AllCounted
  <2>6. QED
    BY <1>5, <1>7, <2>3, <2>4, <2>5 DEF Accounts, AllCounted
<1>10. CASE lost' = lost \cup {x} /\ queue' = queue
  <2>1. Vanishes(x)
    <3>1. ASSUME NEW m \in Messages, NEW k \in Kinds, NEW u \in Tasks
          PROVE  IsAt(m, k, u)' <=> m # x /\ IsAt(m, k, u)
      BY <1>10, <1>2, <1>8 DEF IsAt, Kinds
    <3>2. QED
      BY <3>1 DEF Vanishes
  <2>2. /\ OnePlace' /\ ~Held(x)' /\ x \notin Range(free')
        /\ \A m \in Messages : m # x =>
             (Held(m)' <=> Held(m)) /\ (m \in Range(free') <=> m \in Range(free))
    BY <1>0, <2>1, AfterVanishing
  <2>3. Counted(x)'
    BY <1>2, <1>7, <1>10, <2>2 DEF Counted
  <2>4. ASSUME NEW m \in Messages, m # x
        PROVE  Counted(m)'
    BY <1>1, <1>7, <1>10, <2>2, <2>4, CountKept DEF Accounts, AllCounted
  <2>5. QED
    BY <1>5, <1>7, <2>2, <2>3, <2>4 DEF Accounts, AllCounted
<1>11. QED
  BY <1>4, <1>9, <1>10

(***************************************************************************)
(* ipc_invoke hands the message over.                                      *)
(***************************************************************************)
LEMMA PostAccounts ==
  ASSUME NEW t \in Tasks, NEW d \in Tasks, PoolTypes, pc \in [Tasks -> Labels],
         mine \in [Tasks -> Messages], Accounts, pc[t] = "invoke", Fresh(mine[t]),
         pc' = [pc EXCEPT ![t] = "test"], template_msg_post(d, mine[t]),
         \A m \in Messages : msg'[m].ref = msg[m].ref,
         free' = free, mine' = mine, cur' = cur, ret' = ret, calls' = calls
  PROVE  Accounts'
<1>0. OnePlace /\ NoRepeats /\ OneWaiter /\ NoCallTwice
  BY DEF Accounts
<1>1. PICK x \in Messages : x = mine[t]
  OBVIOUS
<1>2. IsAt(x, "sender", t) /\ Held(x)
  BY <1>1 DEF IsAt, Held, Kinds
<1>3. /\ x \notin Range(free)
      /\ \A u \in Tasks : /\ x \notin Range(queue[u])
                          /\ Handling(u) => cur[u] # x
                          /\ pc[u] = "invoke" /\ mine[u] = x => u = t
  BY <1>0, <1>2, PlacesApart DEF Kinds
<1>4. /\ pc'[t] = "test" /\ \A u \in Tasks : u # t => pc'[u] = pc[u]
      /\ \A u \in Tasks : Handling(u)' <=> Handling(u)
  <2>1. pc'[t] = "test" /\ \A u \in Tasks : u # t => pc'[u] = pc[u]
    OBVIOUS
  <2>2. QED
    BY <2>1 DEF Handling, Sending
<1>5. /\ \A u \in Tasks : IsInjective(queue'[u])
      /\ \/ /\ lost' = lost
            /\ \A u \in Tasks : u # d => queue'[u] = queue[u]
            /\ Range(queue'[d]) = Range(queue[d]) \cup {x}
         \/ /\ lost' = lost \cup {x} /\ queue' = queue
  BY <1>0, <1>1, <1>3, PostedQueue DEF PoolTypes
<1>6. NoRepeats' /\ NoCallTwice'
  BY <1>0, <1>5 DEF NoRepeats, NoCallTwice
<1>7. WaitStays
  <2>1. ASSUME NEW m \in Messages, NEW u \in Tasks
        PROVE  Waits(m, u)' <=> Waits(m, u)
    BY <1>4, Names DEF Waits
  <2>2. QED
    BY <2>1 DEF WaitStays
<1>8. ASSUME NEW m \in Messages, NEW u \in Tasks
      PROVE  /\ Handling(u)' /\ cur'[u] = m <=> m # x /\ Handling(u) /\ cur[u] = m
             /\ pc'[u] = "invoke" /\ mine'[u] = m <=> m # x /\ pc[u] = "invoke" /\ mine[u] = m
  <2>1. Handling(u)' /\ cur'[u] = m <=> m # x /\ Handling(u) /\ cur[u] = m
    BY <1>3, <1>4
  <2>2. pc'[u] = "invoke" /\ mine'[u] = m <=> m # x /\ pc[u] = "invoke" /\ mine[u] = m
    BY <1>1, <1>3, <1>4
  <2>3. QED
    BY <2>1, <2>2
<1>9. CASE /\ lost' = lost
           /\ \A u \in Tasks : u # d => queue'[u] = queue[u]
           /\ Range(queue'[d]) = Range(queue[d]) \cup {x}
  <2>1. ASSUME NEW m \in Messages, NEW u \in Tasks
        PROVE  m \in Range(queue'[u]) <=>
                 (m # x /\ m \in Range(queue[u])) \/ (m = x /\ u = d)
    BY <1>3, <1>9
  <2>2. Moves(x, "queue", d)
    <3>1. ASSUME NEW m \in Messages, NEW k \in Kinds, NEW u \in Tasks
          PROVE  IsAt(m, k, u)' <=> \/ m # x /\ IsAt(m, k, u)
                                    \/ m = x /\ k = "queue" /\ u = d
      BY <2>1, <1>3, <1>8 DEF IsAt, Kinds
    <3>2. QED
      BY <3>1 DEF Moves
  <2>3. QED
    BY <2>2, <1>2, <1>3, <1>6, <1>7, <1>9, AccountsHandedOn DEF Kinds
<1>10. CASE lost' = lost \cup {x} /\ queue' = queue
  <2>1. Vanishes(x)
    <3>1. ASSUME NEW m \in Messages, NEW k \in Kinds, NEW u \in Tasks
          PROVE  IsAt(m, k, u)' <=> m # x /\ IsAt(m, k, u)
      BY <1>10, <1>3, <1>8 DEF IsAt, Kinds
    <3>2. QED
      BY <3>1 DEF Vanishes
  <2>2. msg[x].ref \in Nat /\ msg[x].ref < 2
    BY <1>1 DEF Fresh
  <2>3. QED
    BY <2>1, <2>2, <1>2, <1>3, <1>6, <1>7, <1>10, AccountsDropped
<1>11. QED
  BY <1>5, <1>9, <1>10

(***************************************************************************)
(* bus_call notes the call and passes the message on.                      *)
(***************************************************************************)
LEMMA CallAccounts ==
  ASSUME NEW w \in Workers, PoolTypes, BusTypes, pc[Bus] = "idle",
         mine \in [Tasks -> Messages], cur \in [Tasks -> Messages],
         Accounts, queue[Bus] # << >>,
         NEW call \in CallSet, call.m = Head(queue[Bus]),
         msg[Head(queue[Bus])].ref = 1, msg'[Head(queue[Bus])].ref = 2,
         \A m \in Messages : m # Head(queue[Bus]) => msg'[m] = msg[m],
         calls' = [calls EXCEPT ![w] = Append(calls[w], call)],
         cur' = [cur EXCEPT ![Bus] = Head(queue[Bus])],
         queue'[Bus] = Tail(queue[Bus]),
         \A u \in Tasks : u # Bus /\ u # w => queue'[u] = queue[u],
         \/ lost' = lost /\ queue'[w] = Append(queue[w], Head(queue[Bus]))
         \/ lost' = lost \cup {Head(queue[Bus])} /\ queue'[w] = queue[w],
         pc' = pc, free' = free, mine' = mine, ret' = ret
  PROVE  Accounts'
<1>0. OnePlace /\ NoRepeats /\ OneWaiter /\ NoCallTwice
  BY DEF Accounts
<1>1. /\ queue \in [Tasks -> Seq(Messages)] /\ calls \in [Workers -> Seq(CallSet)]
      /\ w \in Tasks /\ w # Bus /\ Bus \in Tasks
  BY Names DEF PoolTypes, BusTypes
<1>2. PICK x \in Messages : x = Head(queue[Bus])
  BY <1>0, <1>1, QueueHead
<1>3. /\ IsAt(x, "queue", Bus) /\ Held(x) /\ x \notin Range(free)
      /\ IsInjective(Tail(queue[Bus]))
      /\ Range(Tail(queue[Bus])) = Range(queue[Bus]) \ {x}
  BY <1>0, <1>1, <1>2, QueueHead
<1>4. \A u \in Tasks : /\ u # Bus => x \notin Range(queue[u])
                       /\ Handling(u) => cur[u] # x
                       /\ pc[u] = "invoke" => mine[u] # x
  BY <1>0, <1>1, <1>3, PlacesApart DEF Kinds
<1>5. ~Handling(Bus) /\ \A u \in Tasks : Handling(u)' <=> Handling(u)
  BY DEF Handling, Sending
<1>6. ~Awaited(x) /\ x \notin lost
  BY <1>2, <1>3 DEF Accounts, AllCounted, Counted
<1>7. /\ IsInjective(Append(queue[w], x))
      /\ Range(Append(queue[w], x)) = Range(queue[w]) \cup {x}
  <2>1. queue[w] \in Seq(Messages) /\ IsInjective(queue[w]) /\ x \notin Range(queue[w])
    BY <1>0, <1>1, <1>4 DEF NoRepeats
  <2>2. QED
    BY <2>1, EndAdded
<1>8. NoRepeats'
  <2>1. \A u \in Tasks : IsInjective(queue'[u])
    BY <1>0, <1>2, <1>3, <1>7 DEF NoRepeats
  <2>2. QED
    BY <2>1, <1>0 DEF NoRepeats
<1>9. \A i \in DOMAIN calls[w] : calls[w][i].m # x
  BY <1>1, <1>6 DEF Awaited, Waits
<1> DEFINE c == calls[w]
           e == Append(calls[w], call)
<1>10. /\ Len(c) \in Nat /\ DOMAIN c = 1 .. Len(c) /\ DOMAIN e = 1 .. Len(c) + 1
       /\ \A i \in 1 .. Len(c) : e[i] = c[i]
       /\ e[Len(c) + 1] = call
  <2>1. c \in Seq(CallSet)
    BY <1>1
  <2> HIDE DEF c, CallSet
  <2>2. QED
    BY <2>1, AppendProperties, LenProperties DEF c
<1>11. /\ calls'[w] = e
       /\ \A v \in Workers : v # w => calls'[v] = calls[v]
  BY <1>1
<1> HIDE DEF e
<1>12. \A i : i \in DOMAIN e <=> i \in DOMAIN c \/ i = Len(c) + 1
  BY <1>10
<1>13. NoCallTwice'
  <2>1. ASSUME NEW v \in Workers, NEW i \in DOMAIN calls'[v], NEW j \in DOMAIN calls'[v],
               calls'[v][i].m = calls'[v][j].m
        PROVE  i = j
    <3>1. CASE v # w
      BY <2>1, <3>1, <1>0, <1>11 DEF NoCallTwice
    <3>2. CASE v = w
      <4>1. /\ i \in DOMAIN c \/ i = Len(c) + 1
            /\ j \in DOMAIN c \/ j = Len(c) + 1
            /\ e[i].m = e[j].m
        BY <2>1, <3>2, <1>11, <1>12
      <4>2. \A n \in DOMAIN c : e[n] = c[n] /\ e[n].m # x
        BY <1>9, <1>10
      <4>3. e[Len(c) + 1].m = x
        BY <1>2, <1>10
      <4>4. \A n, o \in DOMAIN c : c[n].m = c[o].m => n = o
        BY <1>0 DEF NoCallTwice
      <4>5. QED
        BY <4>1, <4>2, <4>3, <4>4
    <3>3. QED
      BY <3>1, <3>2
  <2>2. QED
    BY <2>1 DEF NoCallTwice
<1>14. WaitMoves(x, w)
  <2>1. ASSUME NEW m \in Messages, NEW u \in Tasks
        PROVE  Waits(m, u)' <=> (m # x /\ Waits(m, u)) \/ (m = x /\ u = w)
    <3>1. ~Waits(x, u)
      BY <1>6 DEF Awaited
    <3>2. CASE u # w
      <4>1. Waits(m, u)' <=> Waits(m, u)
        BY <3>2, <1>11 DEF Waits
      <4>2. QED
        BY <3>1, <3>2, <4>1
    <3>3. CASE u = w
      <4>1. Waits(m, w)' <=> \E i \in DOMAIN e : e[i].m = m
        BY <1>1, <1>11 DEF Waits
      <4>2. Waits(m, w) <=> \E i \in DOMAIN c : c[i].m = m
        BY <1>1 DEF Waits
      <4>3. (\E i \in DOMAIN e : e[i].m = m) <=> (\E i \in DOMAIN c : c[i].m = m) \/ m = x
        BY <1>2, <1>10, <1>12
      <4>4. QED
        BY <3>1, <3>3, <4>1, <4>2, <4>3
    <3>4. QED
      BY <3>2, <3>3
  <2>2. QED
    BY <2>1 DEF WaitMoves
<1>15. /\ OneWaiter' /\ Awaited(x)'
       /\ \A m \in Messages : m # x => (Awaited(m)' <=> Awaited(m))
  BY <1>0, <1>1, <1>14, AfterWaitMove
<1>16. ASSUME NEW m \in Messages, NEW u \in Tasks
       PROVE  /\ Handling(u)' /\ cur'[u] = m <=> m # x /\ Handling(u) /\ cur[u] = m
              /\ pc'[u] = "invoke" /\ mine'[u] = m <=> m # x /\ pc[u] = "invoke" /\ mine[u] = m
  <2>1. u # Bus => cur'[u] = cur[u]
    OBVIOUS
  <2>2. QED
    BY <2>1, <1>4, <1>5
<1>17. CASE lost' = lost /\ queue'[w] = Append(queue[w], x)
  <2>1. ASSUME NEW m \in Messages, NEW u \in Tasks
        PROVE  m \in Range(queue'[u]) <=>
                 (m # x /\ m \in Range(queue[u])) \/ (m = x /\ u = w)
    BY <1>1, <1>3, <1>4, <1>7, <1>17
  <2>2. Moves(x, "queue", w)
    <3>1. ASSUME NEW m \in Messages, NEW k \in Kinds, NEW u \in Tasks
          PROVE  IsAt(m, k, u)' <=> \/ m # x /\ IsAt(m, k, u)
                                    \/ m = x /\ k = "queue" /\ u = w
      BY <2>1, <1>3, <1>16 DEF IsAt, Kinds
    <3>2. QED
      BY <3>1 DEF Moves
  <2>3. /\ OnePlace' /\ Held(x)' /\ x \notin Range(free')
        /\ \A m \in Messages : m # x =>
             (Held(m)' <=> Held(m)) /\ (m \in Range(free') <=> m \in Range(free))
    BY <1>0, <1>1, <2>2, AfterMove DEF Kinds
  <2>4. Counted(x)'
    BY <1>2, <1>6, <1>15, <1>17, <2>3 DEF Counted
  <2>5. ASSUME NEW m \in Messages, m # x
        PROVE  Counted(m)'
    BY <1>2, <1>15, <1>17, <2>3, <2>5, CountKept DEF Accounts, AllCounted
  <2>6. QED
    BY <1>8, <1>13, <1>15, <2>3, <2>4, <2>5 DEF Accounts, AllCounted
<1>18. CASE lost' = lost \cup {x} /\ queue'[w] = queue[w]
  <2>1. ASSUME NEW m \in Messages, NEW u \in Tasks
        PROVE  m \in Range(queue'[u]) <=> m # x /\ m \in Range(queue[u])
    BY <1>1, <1>3, <1>4, <1>18
  <2>2. Vanishes(x)
    <3>1. ASSUME NEW m \in Messages, NEW k \in Kinds, NEW u \in Tasks
          PROVE  IsAt(m, k, u)' <=> m # x /\ IsAt(m, k, u)
      BY <2>1, <1>3, <1>16 DEF IsAt, Kinds
    <3>2. QED
      BY <3>1 DEF Vanishes
  <2>3. /\ OnePlace' /\ ~Held(x)' /\ x \notin Range(free')
        /\ \A m \in Messages : m # x =>
             (Held(m)' <=> Held(m)) /\ (m \in Range(free') <=> m \in Range(free))
    BY <1>0, <2>2, AfterVanishing
  <2>4. Counted(x)'
    BY <1>2, <1>15, <1>18, <2>3 DEF Counted
  <2>5. ASSUME NEW m \in Messages, m # x
        PROVE  Counted(m)'
    BY <1>2, <1>15, <1>18, <2>3, <2>5, CountKept DEF Accounts, AllCounted
  <2>6. QED
    BY <1>8, <1>13, <1>15, <2>3, <2>4, <2>5 DEF Accounts, AllCounted
<1>19. QED
  BY <1>2, <1>17, <1>18

(***************************************************************************)
(* bus_call_return takes a pending call off its list.                      *)
(***************************************************************************)
LEMMA FirstFound ==
  ASSUME NEW S \in SUBSET Nat, S # {}
  PROVE  First(S) \in S
<1>1. PICK x \in S : \A y \in S : ~(<<y, x>> \in OpToRel(<, Nat))
  BY NatLessThanWellFounded, WFMin
<1>2. \A y \in S : ~(y < x)
  BY <1>1 DEF OpToRel
<1>3. \A y \in S : x <= y
  BY <1>2
<1>4. QED
  BY <1>3 DEF First

LEMMA FunctionIsSeq ==
  ASSUME NEW S, NEW n \in Nat, NEW f \in [1 .. n -> S]
  PROVE  f \in Seq(S)
BY SeqDef

LEMMA OneTakenOff ==
  ASSUME NEW S, NEW s \in Seq(S), NEW i \in 1 .. Len(s)
  PROVE  /\ Without(s, i) \in Seq(S)
         /\ DOMAIN Without(s, i) = 1 .. Len(s) - 1
         /\ \A j \in 1 .. Len(s) - 1 :
              Without(s, i)[j] = s[IF j < i THEN j ELSE j + 1]
<1>1. Len(s) \in Nat /\ DOMAIN s = 1 .. Len(s) /\ \A j \in 1 .. Len(s) : s[j] \in S
  BY LenProperties, ElementOfSeq
<1>2. /\ DOMAIN Without(s, i) = 1 .. Len(s) - 1
      /\ \A j \in 1 .. Len(s) - 1 : Without(s, i)[j] = IF j < i THEN s[j] ELSE s[j + 1]
  BY DEF Without
<1>3. \A j \in 1 .. Len(s) - 1 : Without(s, i)[j] \in S
  <2>1. \A j \in 1 .. Len(s) - 1 : j \in 1 .. Len(s) /\ j + 1 \in 1 .. Len(s)
    BY <1>1
  <2>2. QED
    BY <1>1, <1>2, <2>1
<1>4. Len(s) - 1 \in Nat
  BY <1>1
<1>5. Without(s, i) \in [1 .. Len(s) - 1 -> S]
  BY <1>3 DEF Without
<1>6. Without(s, i) \in Seq(S)
  BY <1>4, <1>5, FunctionIsSeq
<1>7. QED
  BY <1>2, <1>6

LEMMA ReturnAccounts ==
  ASSUME NEW w \in Workers, PoolTypes, BusTypes, pc \in [Tasks -> Labels],
         mine \in [Tasks -> Messages], cur \in [Tasks -> Messages],
         Accounts, pc[Bus] = "idle", queue[Bus] # << >>,
         NEW i \in 1 .. Len(calls[w]),
         cur' = [cur EXCEPT ![Bus] = Head(queue[Bus])],
         queue' = [queue EXCEPT ![Bus] = Tail(queue[Bus])],
         calls' = [calls EXCEPT ![w] = Without(calls[w], i)],
         mine' = [mine EXCEPT ![Bus] = calls[w][i].m],
         pc' = [pc EXCEPT ![Bus] = "release_call"],
         msg' = msg, free' = free, ret' = ret, lost' = lost
  PROVE  Accounts'
<1>0. OnePlace /\ NoRepeats /\ OneWaiter /\ NoCallTwice
  BY DEF Accounts
<1>1. /\ queue \in [Tasks -> Seq(Messages)] /\ calls \in [Workers -> Seq(CallSet)]
      /\ w \in Tasks /\ w # Bus /\ Bus \in Tasks
  BY Names DEF PoolTypes, BusTypes
<1>2. PICK x \in Messages : x = Head(queue[Bus])
  BY <1>0, <1>1, QueueHead
<1>3. Held(x) /\ x \notin Range(free)
  BY <1>0, <1>1, <1>2, QueueHead
<1>4. /\ pc'[Bus] = "release_call"
      /\ \A u \in Tasks : u # Bus => pc'[u] = pc[u] /\ ret'[u] = ret[u] /\ mine'[u] = mine[u]
      /\ Handling(Bus)'
  <2>1. /\ pc'[Bus] = "release_call"
        /\ \A u \in Tasks : u # Bus => pc'[u] = pc[u] /\ ret'[u] = ret[u] /\ mine'[u] = mine[u]
    BY <1>1
  <2>2. QED
    BY <2>1 DEF Handling
<1>5. Moves(x, "handler", Bus) /\ NoRepeats'
  BY <1>0, <1>1, <1>2, <1>4, TakenPlaces
<1>6. /\ OnePlace'
      /\ \A m \in Messages :
           (Held(m)' <=> Held(m)) /\ (m \in Range(free') <=> m \in Range(free))
  BY <1>0, <1>1, <1>3, <1>5, AfterMove DEF Kinds
<1> DEFINE c == calls[w]
           e == Without(calls[w], i)
<1>7. /\ c \in Seq(CallSet) /\ Len(c) \in Nat /\ DOMAIN c = 1 .. Len(c)
      /\ i \in DOMAIN c /\ c[i] \in CallSet
  BY <1>1, LenProperties, ElementOfSeq
<1>8. /\ DOMAIN e = 1 .. Len(c) - 1
      /\ \A j \in 1 .. Len(c) - 1 : e[j] = c[IF j < i THEN j ELSE j + 1]
  BY <1>7, OneTakenOff
<1>9. PICK y \in Messages : y = c[i].m
  BY <1>7 DEF CallSet
<1>10. /\ calls'[w] = e
       /\ \A v \in Workers : v # w => calls'[v] = calls[v]
       /\ mine'[Bus] = y
  BY <1>1, <1>9
<1>11. \A j, n \in DOMAIN c : c[j].m = c[n].m => j = n
  BY <1>0 DEF NoCallTwice
<1> HIDE DEF c, e
<1>12. \A j \in 1 .. Len(c) - 1 : /\ (IF j < i THEN j ELSE j + 1) \in DOMAIN c
                                  /\ (IF j < i THEN j ELSE j + 1) # i
  BY <1>7
<1>13. NoCallTwice'
  <2>1. ASSUME NEW v \in Workers, NEW j \in DOMAIN calls'[v], NEW n \in DOMAIN calls'[v],
               calls'[v][j].m = calls'[v][n].m
        PROVE  j = n
    <3>1. CASE v # w
      BY <2>1, <3>1, <1>0, <1>10 DEF NoCallTwice
    <3>2. CASE v = w
      <4>1. j \in 1 .. Len(c) - 1 /\ n \in 1 .. Len(c) - 1 /\ e[j].m = e[n].m
        BY <2>1, <3>2, <1>8, <1>10
      <4>2. (IF j < i THEN j ELSE j + 1) = (IF n < i THEN n ELSE n + 1)
        BY <4>1, <1>8, <1>11, <1>12
      <4>3. QED
        BY <4>1, <4>2, <1>7
    <3>3. QED
      BY <3>1, <3>2
  <2>2. QED
    BY <2>1 DEF NoCallTwice
<1>14. \A m : (\E j \in DOMAIN e : e[j].m = m) <=> m # y /\ \E n \in DOMAIN c : c[n].m = m
  <2>1. ASSUME NEW j \in DOMAIN e
        PROVE  e[j].m # y /\ \E n \in DOMAIN c : c[n].m = e[j].m
    <3>1. PICK n \in DOMAIN c : n # i /\ e[j] = c[n]
      BY <1>8, <1>12
    <3>2. QED
      BY <3>1, <1>7, <1>9, <1>11
  <2>2. ASSUME NEW n \in DOMAIN c, c[n].m # y
        PROVE  \E j \in DOMAIN e : e[j].m = c[n].m
    <3>1. CASE n < i
      <4>1. n \in 1 .. Len(c) - 1
        BY <3>1, <1>7
      <4>2. e[n] = c[n]
        BY <3>1, <4>1, <1>8
      <4>3. QED
        BY <4>1, <4>2, <1>8
    <3>2. CASE ~(n < i)
      <4>1. n \in 1 .. Len(c) /\ n # i /\ i \in 1 .. Len(c) /\ Len(c) \in Nat
        BY <1>7, <1>9, <2>2 DEF c
      <4>2. n - 1 \in 1 .. Len(c) - 1 /\ ~(n - 1 < i) /\ (n - 1) + 1 = n
        BY <4>1, <3>2
      <4>3. e[n - 1] = c[n]
        BY <4>2, <1>8
      <4>4. QED
        BY <4>2, <4>3, <1>8
    <3>3. QED
      BY <3>1, <3>2
  <2>3. QED
    BY <2>1, <2>2
<1>15. Waits(y, w)
  BY <1>7, <1>9 DEF Waits, c
<1>16. WaitMoves(y, Bus)
  <2>1. ASSUME NEW m \in Messages, NEW u \in Tasks
        PROVE  Waits(m, u)' <=> (m # y /\ Waits(m, u)) \/ (m = y /\ u = Bus)
    <3>1. CASE u = Bus
      BY <3>1, <1>1, <1>4, <1>10 DEF Waits
    <3>2. CASE u = w
      <4>1. Waits(m, w)' <=> \E j \in DOMAIN e : e[j].m = m
        BY <1>1, <1>10 DEF Waits
      <4>2. Waits(m, w) <=> \E j \in DOMAIN c : c[j].m = m
        BY <1>1 DEF Waits, c
      <4>3. QED
        BY <3>2, <4>1, <4>2, <1>1, <1>14
    <3>3. CASE u # Bus /\ u # w
      <4>1. Waits(m, u)' <=> Waits(m, u)
        BY <3>3, <1>10 DEF Waits
      <4>2. ~Waits(y, u)
        BY <3>3, <1>0, <1>1, <1>15 DEF OneWaiter
      <4>3. QED
        BY <3>3, <4>1, <4>2
    <3>4. QED
      BY <3>1, <3>2, <3>3
  <2>2. QED
    BY <2>1 DEF WaitMoves
<1>17. Awaited(y)
  BY <1>1, <1>15 DEF Awaited
<1>18. OneWaiter' /\ \A m \in Messages : Awaited(m)' <=> Awaited(m)
  BY <1>0, <1>1, <1>16, <1>17, AfterWaitMove
<1>19. AllCounted'
  <2>1. ASSUME NEW m \in Messages
        PROVE  Counted(m)'
    BY <1>6, <1>18, CountKept DEF Accounts, AllCounted
  <2>2. QED
    BY <2>1 DEF AllCounted
<1>20. QED
  BY <1>5, <1>6, <1>13, <1>18, <1>19 DEF Accounts

(***************************************************************************)
(* The steps.  Core is what the steps that only move a task's control keep *)
(* for the same reason.                                                    *)
(***************************************************************************)
Core == PoolTypes /\ BusTypes /\ Contents /\ Accounts /\ FreshMessages

LEMMA ControlCore ==
  ASSUME BusInv, NEW t \in Tasks, NEW label, pc' = [pc EXCEPT ![t] = label],
         sequence' \in 0 .. SeqLimit - 1,
         msg' = msg, free' = free, queue' = queue, cur' = cur, mine' = mine,
         calls' = calls, publish' = publish, todo' = todo, lost' = lost,
         \A u \in Tasks : u # t => ret'[u] = ret[u],
         Handling(t)' <=> Handling(t),
         pc[t] # "invoke" /\ pc[t] # "release_call",
         label \notin {"invoke", "release_call", "replicate", "test"}
  PROVE  Core'
<1>1. pc \in [Tasks -> Labels]
  BY DEF BusInv, TaskTypes
<1>2. pc'[t] = label /\ \A u \in Tasks : u # t => pc'[u] = pc[u]
  BY <1>1
<1>3. Stays /\ WaitStays
  BY <1>1, ControlPlaces
<1>4. Accounts'
  BY <1>3, AccountsKept DEF BusInv
<1>5. PoolTypes'
  BY DEF BusInv, PoolTypes
<1>6. \A u \in Tasks : /\ pc'[u] = "invoke" => pc[u] = "invoke"
                       /\ pc'[u] = "replicate" => pc[u] = "replicate"
                       /\ pc'[u] = "test" => pc[u] = "test"
  BY <1>2
<1>7. BusTypes'
  BY <1>6, Names DEF BusInv, BusTypes
<1>8. Contents'
  BY <1>6 DEF BusInv, Contents, WellMade
<1>9. FreshMessages'
  BY <1>6, Names DEF BusInv, FreshMessages, Fresh
<1>10. QED
  BY <1>4, <1>5, <1>7, <1>8, <1>9 DEF Core

LEMMA Together ==
  ASSUME Core', TaskTypes', HistoryTypes', Arguments'
  PROVE  BusInv'
BY DEF Core, BusInv

(* The arguments of the tasks that did not move.                           *)
LEMMA OtherArguments ==
  ASSUME Arguments, NEW t \in Tasks,
         \A u \in Tasks : u # t => pc'[u] = pc[u] /\ arg'[u] = arg[u],
         pc'[t] \in {"seq_inc", "seq_ret", "alloc"} => WellMade(arg'[t])
  PROVE  Arguments'
<1>1. ASSUME NEW u \in Tasks, pc'[u] \in {"seq_inc", "seq_ret", "alloc"}
      PROVE  WellMade(arg'[u])
  BY <1>1 DEF Arguments
<1>2. QED
  BY <1>1 DEF Arguments, WellMade

LEMMA SequenceIncrementStep ==
  ASSUME BusInv, NEW t \in Tasks, SequenceIncrement(t)
  PROVE  BusInv'
<1>1. /\ pc[t] = "seq_inc" /\ pc' = [pc EXCEPT ![t] = "seq_ret"]
      /\ sequence' = IF sequence + 1 = SeqLimit THEN 0 ELSE sequence + 1
      /\ UNCHANGED <<msg, free, queue, cur, mine, calls, publish, todo, lost>>
      /\ UNCHANGED <<ret, arg, waitOn, op, out, deferred, issued, callSem>>
      /\ UNCHANGED <<heap, executed, result, faults>>
  BY DEF SequenceIncrement, At, Goto, poolVars, busVars, taskVars, history
<1>2. pc \in [Tasks -> Labels] /\ sequence \in 0 .. SeqLimit - 1
  BY DEF BusInv, TaskTypes, PoolTypes
<1>3. pc'[t] = "seq_ret" /\ \A u \in Tasks : u # t => pc'[u] = pc[u]
  BY <1>1, <1>2
<1>4. Handling(t)' <=> Handling(t)
  BY <1>1, <1>3 DEF Handling, Sending
<1>5. sequence' \in 0 .. SeqLimit - 1
  BY <1>1, <1>2, SizesAssumption
<1>6. Core'
  BY <1>1, <1>4, <1>5, ControlCore
<1>7. TaskTypes'
  BY <1>1, <1>3 DEF BusInv, TaskTypes, Labels
<1>8. HistoryTypes'
  BY <1>1 DEF BusInv, HistoryTypes
<1>9. WellMade(arg'[t])
  BY <1>1 DEF BusInv, Arguments
<1>10. Arguments'
  BY <1>1, <1>3, <1>9, OtherArguments DEF BusInv
<1>11. QED
  BY <1>6, <1>7, <1>8, <1>10, Together

LEMMA SequenceReturnStep ==
  ASSUME BusInv, NEW t \in Tasks, SequenceReturn(t)
  PROVE  BusInv'
<1>1. /\ pc[t] = "seq_ret" /\ pc' = [pc EXCEPT ![t] = "alloc"]
      /\ arg' = [arg EXCEPT ![t].seq = sequence]
      /\ UNCHANGED <<msg, free, queue, cur, mine, calls, publish, todo, lost>>
      /\ UNCHANGED <<sequence, ret, waitOn, op, out, deferred, issued, callSem>>
      /\ UNCHANGED <<heap, executed, result, faults>>
  BY DEF SequenceReturn, At, Goto, poolVars, busVars, history
<1>2. /\ pc \in [Tasks -> Labels] /\ sequence \in 0 .. SeqLimit - 1
      /\ arg \in [Tasks -> ArgumentSet]
  BY DEF BusInv, TaskTypes, PoolTypes
<1>3. pc'[t] = "alloc" /\ \A u \in Tasks : u # t => pc'[u] = pc[u]
  BY <1>1, <1>2
<1>4. Handling(t)' <=> Handling(t)
  BY <1>1, <1>3 DEF Handling, Sending
<1>5. Core'
  BY <1>1, <1>2, <1>4, ControlCore
<1> DEFINE a == [arg[t] EXCEPT !.seq = sequence]
<1>6. /\ a \in ArgumentSet
      /\ a.type = arg[t].type /\ a.load = arg[t].load /\ a.extra = arg[t].extra
  BY <1>2 DEF ArgumentSet
<1>7. WellMade(arg[t])
  BY <1>1 DEF BusInv, Arguments
<1>8. WellMade(a)
  BY <1>6, <1>7 DEF WellMade
<1>9. arg' = [arg EXCEPT ![t] = a]
  BY <1>1
<1> HIDE DEF a
<1>10. arg' \in [Tasks -> ArgumentSet] /\ arg'[t] = a /\ \A u \in Tasks : u # t => arg'[u] = arg[u]
  BY <1>2, <1>6, <1>9
<1>11. TaskTypes'
  BY <1>1, <1>3, <1>10 DEF BusInv, TaskTypes, Labels
<1>12. HistoryTypes'
  BY <1>1 DEF BusInv, HistoryTypes
<1>13. Arguments'
  BY <1>3, <1>8, <1>10, OtherArguments DEF BusInv
<1>14. QED
  BY <1>5, <1>11, <1>12, <1>13, Together

(* A task leaves send_message for the point it was called from.            *)
LEMMA LeaveSend ==
  ASSUME BusInv, NEW t \in Tasks, pc[t] \in {"alloc", "test", "pend"},
         pc' = [pc EXCEPT ![t] = ret[t]],
         callSem' \in [Tasks -> Nat],
         UNCHANGED <<msg, free, queue, cur, mine, calls, publish, todo, lost>>,
         UNCHANGED <<sequence, ret, arg, waitOn, op, out, deferred, issued>>,
         UNCHANGED <<heap, executed, result, faults>>
  PROVE  BusInv'
<1>1. /\ msg' = msg /\ free' = free /\ queue' = queue /\ cur' = cur /\ mine' = mine
      /\ calls' = calls /\ publish' = publish /\ todo' = todo /\ lost' = lost
      /\ ret' = ret /\ arg' = arg /\ sequence' = sequence
  OBVIOUS
<1>2. /\ pc \in [Tasks -> Labels] /\ ret[t] \in Returns /\ sequence \in 0 .. SeqLimit - 1
  BY DEF BusInv, TaskTypes, PoolTypes
<1>3. pc'[t] = ret[t] /\ \A u \in Tasks : u # t => pc'[u] = pc[u]
  BY <1>2
<1>4. Handling(t)' <=> Handling(t)
  BY <1>1, <1>2, <1>3 DEF Handling, Sending, Returns
<1>5. ret[t] \notin {"invoke", "release_call", "replicate", "test"}
  BY <1>2 DEF Returns
<1>6. Core'
  BY <1>1, <1>2, <1>4, <1>5, ControlCore
<1>7. pc' \in [Tasks -> Labels]
  BY <1>2 DEF Labels, Returns
<1>8. \A u \in Tasks : pc'[u] \in {"replicate", "release_call", "dead"} => u = Bus
  BY <1>2, <1>3 DEF BusInv, TaskTypes, Returns
<1>9. TaskTypes'
  BY <1>1, <1>7, <1>8 DEF BusInv, TaskTypes
<1>10. HistoryTypes'
  BY DEF BusInv, HistoryTypes
<1>11. Arguments'
  <2>1. pc'[t] \notin {"seq_inc", "seq_ret", "alloc"}
    BY <1>2, <1>3 DEF Returns
  <2>2. QED
    BY <1>1, <1>3, <2>1, OtherArguments DEF BusInv
<1>12. QED
  BY <1>6, <1>9, <1>10, <1>11, Together

LEMMA NoMessageStep ==
  ASSUME BusInv, NEW t \in Tasks, NoMessage(t)
  PROVE  BusInv'
<1>1. /\ pc[t] = "alloc" /\ pc' = [pc EXCEPT ![t] = ret[t]]
      /\ callSem' = callSem
      /\ UNCHANGED <<msg, free, queue, cur, mine, calls, publish, todo, lost>>
      /\ UNCHANGED <<sequence, ret, arg, waitOn, op, out, deferred, issued>>
      /\ UNCHANGED <<heap, executed, result, faults>>
  BY DEF NoMessage, At, Goto, poolVars, busVars, taskVars, history
<1>2. callSem' \in [Tasks -> Nat]
  BY <1>1 DEF BusInv, TaskTypes
<1>3. QED
  BY <1>1, <1>2, LeaveSend

LEMMA InvokePendStep ==
  ASSUME BusInv, NEW t \in Tasks, InvokePend(t)
  PROVE  BusInv'
<1>1. /\ pc[t] = "pend" /\ pc' = [pc EXCEPT ![t] = ret[t]]
      /\ callSem[waitOn[t]] > 0
      /\ callSem' = [callSem EXCEPT ![waitOn[t]] = callSem[waitOn[t]] - 1]
      /\ UNCHANGED <<msg, free, queue, cur, mine, calls, publish, todo, lost>>
      /\ UNCHANGED <<sequence, ret, arg, waitOn, op, out, deferred, issued>>
      /\ UNCHANGED <<heap, executed, result, faults>>
  BY DEF InvokePend, At, Goto, poolVars, busVars, taskVars, history
<1>2. callSem \in [Tasks -> Nat] /\ waitOn[t] \in Tasks
  BY DEF BusInv, TaskTypes
<1>3. callSem' \in [Tasks -> Nat]
  BY <1>1, <1>2
<1>4. QED
  BY <1>1, <1>3, LeaveSend

LEMMA InvokeTestStep ==
  ASSUME BusInv, NEW t \in Tasks, InvokeTest(t)
  PROVE  BusInv'
<1>1. /\ pc[t] = "test" /\ callSem' = callSem
      /\ UNCHANGED <<msg, free, queue, cur, mine, calls, publish, todo, lost>>
      /\ UNCHANGED <<sequence, ret, arg, op, out, deferred, issued>>
      /\ UNCHANGED <<heap, executed, result, faults>>
  BY DEF InvokeTest, At, poolVars, busVars, history
<1>2. callSem' \in [Tasks -> Nat]
  BY <1>1 DEF BusInv, TaskTypes
<1>3. CASE msg[mine[t]].type = "SYNC_CALL"
  <2>1. waitOn' = [waitOn EXCEPT ![t] = msg[mine[t]].src] /\ pc' = [pc EXCEPT ![t] = "pend"]
    BY <1>3 DEF InvokeTest, Set, Goto
  <2>2. /\ pc \in [Tasks -> Labels] /\ waitOn \in [Tasks -> Tasks]
        /\ sequence \in 0 .. SeqLimit - 1
    BY DEF BusInv, TaskTypes, PoolTypes
  <2>3. msg[mine[t]].src \in Tasks
    BY <1>1 DEF BusInv, Contents
  <2>4. waitOn' \in [Tasks -> Tasks]
    BY <2>1, <2>2, <2>3
  <2>5. pc'[t] = "pend" /\ \A u \in Tasks : u # t => pc'[u] = pc[u]
    BY <2>1, <2>2
  <2>6. Handling(t)' <=> Handling(t)
    BY <1>1, <2>5 DEF Handling, Sending
  <2>7. Core'
    BY <1>1, <2>1, <2>2, <2>6, ControlCore
  <2>8. pc' \in [Tasks -> Labels]
    BY <2>1, <2>2 DEF Labels
  <2>9. TaskTypes'
    BY <1>1, <2>4, <2>5, <2>8 DEF BusInv, TaskTypes
  <2>10. HistoryTypes'
    BY <1>1 DEF BusInv, HistoryTypes
  <2>11. Arguments'
    BY <1>1, <2>5, OtherArguments DEF BusInv
  <2>12. QED
    BY <2>7, <2>9, <2>10, <2>11, Together
<1>4. CASE msg[mine[t]].type # "SYNC_CALL"
  <2>1. waitOn' = waitOn /\ pc' = [pc EXCEPT ![t] = ret[t]]
    BY <1>4 DEF InvokeTest, Goto
  <2>2. QED
    BY <1>1, <1>2, <2>1, LeaveSend
<1>5. QED
  BY <1>3, <1>4

LEMMA RequestEndStep ==
  ASSUME BusInv, NEW t \in Tasks, RequestEnd(t)
  PROVE  BusInv'
<1>1. /\ pc[t] = "op_end" /\ pc' = [pc EXCEPT ![t] = "idle"]
      /\ op' = [op EXCEPT ![t] = NULL]
      /\ result' = IF arg[t].type = "SYNC_CALL" THEN [result EXCEPT ![op[t]] = out[t]] ELSE result
      /\ UNCHANGED <<msg, free, queue, cur, mine, calls, publish, todo, lost>>
      /\ UNCHANGED <<sequence, ret, arg, waitOn, out, deferred, issued, callSem>>
      /\ UNCHANGED <<heap, executed, faults>>
  BY DEF RequestEnd, At, Goto, Set, poolVars, busVars, history
<1>2. /\ pc \in [Tasks -> Labels] /\ sequence \in 0 .. SeqLimit - 1
      /\ op \in [Tasks -> Requests \cup {NULL}] /\ out[t] \in Values
      /\ result \in [Requests -> Values]
  BY DEF BusInv, TaskTypes, PoolTypes, HistoryTypes
<1>3. pc'[t] = "idle" /\ \A u \in Tasks : u # t => pc'[u] = pc[u]
  BY <1>1, <1>2
<1>4. Handling(t)' <=> Handling(t)
  BY <1>1, <1>3 DEF Handling, Sending
<1>5. Core'
  BY <1>1, <1>2, <1>4, ControlCore
<1>6. op' \in [Tasks -> Requests \cup {NULL}] /\ result' \in [Requests -> Values]
  BY <1>1, <1>2
<1>7. pc' \in [Tasks -> Labels]
  BY <1>1, <1>2 DEF Labels
<1>8. TaskTypes'
  BY <1>1, <1>3, <1>6, <1>7 DEF BusInv, TaskTypes
<1>9. HistoryTypes'
  BY <1>1, <1>6 DEF BusInv, HistoryTypes
<1>10. Arguments'
  BY <1>1, <1>3, OtherArguments DEF BusInv
<1>11. QED
  BY <1>5, <1>8, <1>9, <1>10, Together

LEMMA NewRequest ==
  ASSUME NEW t \in Tasks, issued \in [Tasks -> Nat], issued[t] < Budget[t]
  PROVE  <<t, issued[t] + 1>> \in Requests
<1>1. Budget[t] \in Nat /\ issued[t] \in Nat
  BY SizesAssumption
<1>2. issued[t] + 1 \in 1 .. Budget[t]
  BY <1>1
<1>3. QED
  BY <1>2 DEF Requests

LEMMA MakeRequestStep ==
  ASSUME BusInv, NEW t \in Workers, NEW o \in Ops[t], MakeRequest(t, o)
  PROVE  BusInv'
<1> DEFINE id == <<t, issued[t] + 1>>
           load == IF o.type = "SUBSCRIBE" THEN NULL ELSE id
           extra == CASE o.type \in Calls -> id [] o.type = "SUBSCRIBE" -> t [] OTHER -> NULL
           a == [type |-> o.type, major |-> o.major, minor |-> o.minor,
                 dst |-> o.dst, seq |-> 0, load |-> load, extra |-> extra]
<1>1. /\ pc[t] = "idle" /\ pc' = [pc EXCEPT ![t] = "seq_inc"]
      /\ issued[t] < Budget[t]
      /\ issued' = [issued EXCEPT ![t] = issued[t] + 1]
      /\ arg' = [arg EXCEPT ![t] = a]
      /\ ret' = [ret EXCEPT ![t] = "op_end"]
      /\ op' = [op EXCEPT ![t] = id]
      /\ out' = [out EXCEPT ![t] = GARBAGE]
      /\ heap' = IF load = NULL THEN heap ELSE heap \cup {load}
      /\ UNCHANGED <<msg, free, queue, cur, mine, calls, publish, todo, lost>>
      /\ UNCHANGED <<sequence, waitOn, deferred, callSem>>
      /\ UNCHANGED <<executed, result, faults>>
  BY DEF MakeRequest, Send, At, Goto, Set, poolVars, busVars, history
<1>2. /\ pc \in [Tasks -> Labels] /\ sequence \in 0 .. SeqLimit - 1
      /\ op \in [Tasks -> Requests \cup {NULL}] /\ out \in [Tasks -> Values]
      /\ arg \in [Tasks -> ArgumentSet] /\ ret \in [Tasks -> Returns]
      /\ issued \in [Tasks -> Nat] /\ heap \subseteq Requests /\ t \in Tasks
  BY Names DEF BusInv, TaskTypes, PoolTypes, HistoryTypes
<1>3. /\ pc'[t] = "seq_inc" /\ ret'[t] = "op_end"
      /\ \A u \in Tasks : u # t => pc'[u] = pc[u] /\ ret'[u] = ret[u]
  BY <1>1, <1>2
<1>4. Handling(t)' <=> Handling(t)
  BY <1>1, <1>3 DEF Handling, Sending
<1>5. Core'
  BY <1>1, <1>2, <1>3, <1>4, ControlCore
<1>6. id \in Requests
  BY <1>1, <1>2, NewRequest
<1>7. o \in [type : Types \ {"CALL_RETURN"}, major : Workers,
             minor : Methods, dst : Workers \cup {NULL}]
  BY OpsAssumption
<1>8. /\ load \in Values
      /\ load # NULL => load \in Requests
      /\ o.type \in Calls => load \in Requests
  BY <1>6 DEF Values, Calls
<1>9. /\ extra \in Values \cup Workers
      /\ o.type \in Calls => extra \in Requests
      /\ o.type = "SUBSCRIBE" => extra \in Workers
  BY <1>6 DEF Values, Calls
<1> HIDE DEF extra, load, id
<1>10. a \in ArgumentSet
  BY <1>7, <1>8, <1>9, SizesAssumption DEF ArgumentSet
<1>11. WellMade(a)
  BY <1>8, <1>9 DEF WellMade
<1> HIDE DEF a
<1>12. /\ arg' \in [Tasks -> ArgumentSet] /\ arg'[t] = a
       /\ \A u \in Tasks : u # t => arg'[u] = arg[u]
  BY <1>1, <1>2, <1>10
<1>13. /\ op' \in [Tasks -> Requests \cup {NULL}] /\ out' \in [Tasks -> Values]
       /\ ret' \in [Tasks -> Returns] /\ issued' \in [Tasks -> Nat]
       /\ pc' \in [Tasks -> Labels]
  BY <1>1, <1>2, <1>6 DEF Values, Returns, Labels
<1>14. heap' \subseteq Requests
  BY <1>1, <1>2, <1>8
<1>15. TaskTypes'
  BY <1>1, <1>3, <1>12, <1>13 DEF BusInv, TaskTypes
<1>16. HistoryTypes'
  BY <1>1, <1>14 DEF BusInv, HistoryTypes
<1>17. Arguments'
  BY <1>2, <1>3, <1>11, <1>12, OtherArguments DEF BusInv
<1>18. QED
  BY <1>5, <1>15, <1>16, <1>17, Together

(* The arguments of ipc_return.                                            *)
LEMMA ReturnMade ==
  ASSUME msg \in [Messages -> MessageSet], NEW m \in Messages, NEW load \in Values
  PROVE  CallReturn(m, load) \in ArgumentSet /\ WellMade(CallReturn(m, load))
<1>1. msg[m].seq \in 0 .. SeqLimit - 1 /\ msg[m].major \in Workers
  BY DEF MessageSet
<1>2. NULL \in Values
  BY DEF Values
<1>3. CallReturn(m, load) \in ArgumentSet
  BY <1>1, <1>2 DEF CallReturn, ArgumentSet, Types, Methods
<1>4. QED
  BY <1>3 DEF CallReturn, WellMade, Calls

LEMMA AnswerDeferredStep ==
  ASSUME BusInv, NEW t \in Tasks, AnswerDeferred(t)
  PROVE  BusInv'
<1>1. PICK d \in deferred[t] :
        /\ deferred' = [deferred EXCEPT ![t] = deferred[t] \ {d}]
        /\ arg' = [arg EXCEPT ![t] = CallReturn(d.m, d.load)]
        /\ ret' = [ret EXCEPT ![t] = "idle"]
  BY DEF AnswerDeferred, Send, Set
<1>2. /\ pc[t] = "idle" /\ pc' = [pc EXCEPT ![t] = "alloc"]
      /\ UNCHANGED <<msg, free, queue, cur, mine, calls, publish, todo, lost>>
      /\ UNCHANGED <<sequence, waitOn, op, out, issued, callSem>>
      /\ UNCHANGED <<heap, executed, result, faults>>
  BY DEF AnswerDeferred, At, Goto, poolVars, busVars, history
<1>3. /\ pc \in [Tasks -> Labels] /\ sequence \in 0 .. SeqLimit - 1
      /\ arg \in [Tasks -> ArgumentSet] /\ ret \in [Tasks -> Returns]
      /\ deferred \in [Tasks -> SUBSET DeferredSet] /\ msg \in [Messages -> MessageSet]
  BY DEF BusInv, TaskTypes, PoolTypes
<1>4. /\ pc'[t] = "alloc" /\ ret'[t] = "idle"
      /\ \A u \in Tasks : u # t => pc'[u] = pc[u] /\ ret'[u] = ret[u]
  BY <1>1, <1>2, <1>3
<1>5. Handling(t)' <=> Handling(t)
  BY <1>2, <1>4 DEF Handling, Sending
<1>6. Core'
  BY <1>2, <1>3, <1>4, <1>5, ControlCore
<1>7. d.m \in Messages /\ d.load \in Values
  BY <1>3 DEF DeferredSet, Values
<1> DEFINE a == CallReturn(d.m, d.load)
<1>8. a \in ArgumentSet /\ WellMade(a)
  BY <1>3, <1>7, ReturnMade
<1>9. arg' = [arg EXCEPT ![t] = a]
  BY <1>1
<1> HIDE DEF a
<1>10. /\ arg' \in [Tasks -> ArgumentSet] /\ arg'[t] = a
       /\ \A u \in Tasks : u # t => arg'[u] = arg[u]
  BY <1>3, <1>8, <1>9
<1>11. /\ ret' \in [Tasks -> Returns] /\ pc' \in [Tasks -> Labels]
       /\ deferred' \in [Tasks -> SUBSET DeferredSet]
  BY <1>1, <1>2, <1>3 DEF Returns, Labels
<1>12. TaskTypes'
  BY <1>2, <1>4, <1>10, <1>11 DEF BusInv, TaskTypes
<1>13. HistoryTypes'
  BY <1>2 DEF BusInv, HistoryTypes
<1>14. Arguments'
  BY <1>4, <1>8, <1>10, OtherArguments DEF BusInv
<1>15. QED
  BY <1>6, <1>12, <1>13, <1>14, Together

LEMMA BusReplicateNullStep ==
  ASSUME BusInv, BusReplicateNull
  PROVE  BusInv'
<1>1. /\ pc[Bus] = "replicate" /\ pc' = [pc EXCEPT ![Bus] = "dead"]
      /\ faults' = faults \cup {"null_replica"}
      /\ UNCHANGED <<msg, free, queue, cur, mine, calls, publish, todo, lost>>
      /\ UNCHANGED <<sequence, ret, arg, waitOn, op, out, deferred, issued, callSem>>
      /\ UNCHANGED <<heap, executed, result>>
  BY DEF BusReplicateNull, At, Goto, poolVars, busVars, taskVars
<1>2. pc \in [Tasks -> Labels] /\ sequence \in 0 .. SeqLimit - 1 /\ Bus \in Tasks
  BY Names DEF BusInv, TaskTypes, PoolTypes
<1>3. pc'[Bus] = "dead" /\ \A u \in Tasks : u # Bus => pc'[u] = pc[u]
  BY <1>1, <1>2
<1>4. Handling(Bus)' <=> Handling(Bus)
  BY <1>1, <1>3 DEF Handling, Sending
<1>5. Core'
  BY <1>1, <1>2, <1>4, ControlCore
<1>6. pc' \in [Tasks -> Labels]
  BY <1>1, <1>2 DEF Labels
<1>7. TaskTypes'
  BY <1>1, <1>3, <1>6 DEF BusInv, TaskTypes
<1>8. HistoryTypes'
  BY <1>1 DEF BusInv, HistoryTypes
<1>9. Arguments'
  BY <1>1, <1>2, <1>3, OtherArguments DEF BusInv
<1>10. QED
  BY <1>5, <1>7, <1>8, <1>9, Together

(* A task takes a message and keeps it until its handler ends.             *)
LEMMA TakeCore ==
  ASSUME BusInv, NEW t \in Tasks, pc[t] = "idle", queue[t] # << >>,
         cur' = [cur EXCEPT ![t] = Head(queue[t])],
         queue' = [queue EXCEPT ![t] = Tail(queue[t])],
         msg' = msg, free' = free, mine' = mine, calls' = calls, publish' = publish,
         lost' = lost, sequence' = sequence, todo' \in Seq(Workers),
         \A u \in Tasks : u # t => pc'[u] = pc[u] /\ ret'[u] = ret[u],
         Handling(t)', pc'[t] \notin {"invoke", "release_call", "test"},
         pc'[Bus] = "replicate" => todo' # << >>,
         pc'[t] = "replicate" => msg[Head(queue[t])].ref = 0
  PROVE  Core'
<1>1. /\ queue \in [Tasks -> Seq(Messages)] /\ cur \in [Tasks -> Messages]
      /\ OnePlace /\ NoRepeats /\ OneWaiter /\ NoCallTwice /\ Accounts
  BY DEF BusInv, PoolTypes, TaskTypes, Accounts
<1>2. PICK x \in Messages : x = Head(queue[t])
  BY <1>1, QueueHead
<1>3. /\ Held(x) /\ x \notin Range(free)
      /\ Tail(queue[t]) \in Seq(Messages) /\ Len(Tail(queue[t])) < Len(queue[t])
      /\ Range(Tail(queue[t])) = Range(queue[t]) \ {x}
  BY <1>1, <1>2, QueueHead
<1>4. Moves(x, "handler", t) /\ NoRepeats'
  BY <1>1, <1>2, TakenPlaces
<1>5. /\ queue'[t] = Tail(queue[t]) /\ cur'[t] = x
      /\ \A u \in Tasks : u # t => queue'[u] = queue[u] /\ cur'[u] = cur[u]
  BY <1>1, <1>2
<1>6. WaitStays
  <2>1. pc'[Bus] = "release_call" <=> pc[Bus] = "release_call"
    BY Names
  <2>2. ASSUME NEW m \in Messages, NEW u \in Tasks
        PROVE  Waits(m, u)' <=> Waits(m, u)
    BY <2>1 DEF Waits
  <2>3. QED
    BY <2>2 DEF WaitStays
<1>7. NoCallTwice'
  BY <1>1 DEF NoCallTwice
<1>8. Accounts'
  BY <1>1, <1>3, <1>4, <1>6, <1>7, AccountsHandedOn DEF Kinds
<1>9. PoolTypes'
  <2>1. queue' \in [Tasks -> Seq(Messages)]
    BY <1>1, <1>3
  <2>2. \A u \in Tasks : Len(queue'[u]) <= QueueSize
    <3>1. Len(queue[t]) \in Nat /\ Len(Tail(queue[t])) \in Nat /\ Len(queue[t]) <= QueueSize
      BY <1>1, <1>3, LenProperties DEF BusInv, PoolTypes
    <3>2. Len(Tail(queue[t])) <= QueueSize
      BY <1>3, <3>1, SizesAssumption
    <3>3. QED
      BY <1>5, <3>2 DEF BusInv, PoolTypes
  <2>3. QED
    BY <2>1, <2>2 DEF BusInv, PoolTypes
<1>10. BusTypes'
  BY DEF BusInv, BusTypes
<1>11. \A u \in Tasks : pc'[u] \in {"invoke", "test"} => pc[u] = pc'[u]
  OBVIOUS
<1>12. Contents'
  BY <1>11 DEF BusInv, Contents, WellMade
<1>13. FreshMessages'
  <2>1. \A m \in Range(queue'[Bus]) : m \in Range(queue[Bus])
    BY <1>3, <1>5, Names
  <2>2. pc'[Bus] = "replicate" => msg[cur'[Bus]].ref = 0
    BY <1>2, <1>5, Names DEF BusInv, FreshMessages
  <2>3. QED
    BY <1>11, <2>1, <2>2 DEF BusInv, FreshMessages, Fresh
<1>14. QED
  BY <1>8, <1>9, <1>10, <1>12, <1>13 DEF Core

LEMMA CurTyped ==
  ASSUME BusInv, NEW t \in Tasks, queue[t] # << >>
  PROVE  [cur EXCEPT ![t] = Head(queue[t])] \in [Tasks -> Messages]
<1>1. /\ queue \in [Tasks -> Seq(Messages)] /\ cur \in [Tasks -> Messages]
      /\ OnePlace /\ NoRepeats
  BY DEF BusInv, PoolTypes, TaskTypes, Accounts
<1>2. Head(queue[t]) \in Messages
  BY <1>1, QueueHead
<1>3. QED
  BY <1>1, <1>2

LEMMA TakenMade ==
  ASSUME BusInv, NEW t \in Tasks, queue[t] # << >>
  PROVE  /\ Head(queue[t]) \in Messages
         /\ WellMade(msg[Head(queue[t])]) /\ msg[Head(queue[t])].src \in Tasks
         /\ msg[Head(queue[t])] \in MessageSet
         /\ t = Bus => Fresh(Head(queue[t]))
<1>1. /\ queue \in [Tasks -> Seq(Messages)] /\ OnePlace /\ NoRepeats
      /\ msg \in [Messages -> MessageSet]
  BY DEF BusInv, PoolTypes, Accounts
<1>2. PICK x \in Messages : x = Head(queue[t])
  BY <1>1, QueueHead
<1>3. x \notin Range(free) /\ x \in Range(queue[t])
  <2>1. IsAt(x, "queue", t) /\ x \notin Range(free)
    BY <1>1, <1>2, QueueHead
  <2>2. QED
    BY <2>1 DEF IsAt
<1>4. WellMade(msg[x]) /\ msg[x].src \in Tasks
  BY <1>3 DEF BusInv, Contents
<1>5. t = Bus => Fresh(x)
  BY <1>3 DEF BusInv, FreshMessages
<1>6. msg[x] \in MessageSet
  BY <1>1
<1>7. QED
  BY <1>2, <1>4, <1>5, <1>6

LEMMA HandleSignalStep ==
  ASSUME BusInv, NEW t \in Workers, HandleSignal(t)
  PROVE  BusInv'
<1>1. /\ pc[t] = "idle" /\ pc' = [pc EXCEPT ![t] = "handler_end"]
      /\ queue[t] # << >>
      /\ cur' = [cur EXCEPT ![t] = Head(queue[t])]
      /\ queue' = [queue EXCEPT ![t] = Tail(queue[t])]
      /\ UNCHANGED <<msg, free, mine, calls, publish, todo, lost>>
      /\ UNCHANGED <<sequence, ret, arg, waitOn, op, out, deferred, issued, callSem>>
      /\ UNCHANGED <<heap, executed, result, faults>>
  BY DEF HandleSignal, Receive, Set, At, Goto, poolVars, busVars
<1>2. pc \in [Tasks -> Labels] /\ t \in Tasks /\ todo \in Seq(Workers) /\ t # Bus
  BY Names DEF BusInv, TaskTypes, BusTypes
<1>3. pc'[t] = "handler_end" /\ \A u \in Tasks : u # t => pc'[u] = pc[u]
  BY <1>1, <1>2
<1>4. Handling(t)'
  BY <1>3 DEF Handling
<1>5. pc'[Bus] = "replicate" => todo' # << >>
  BY <1>1, <1>2, <1>3, Names DEF BusInv, BusTypes
<1>6. Core'
  BY <1>1, <1>2, <1>3, <1>4, <1>5, TakeCore
<1>7. cur' \in [Tasks -> Messages]
  BY <1>1, <1>2, CurTyped
<1>8. pc' \in [Tasks -> Labels]
  BY <1>1, <1>2 DEF Labels
<1>9. TaskTypes'
  BY <1>1, <1>3, <1>7, <1>8 DEF BusInv, TaskTypes
<1>10. HistoryTypes'
  BY <1>1 DEF BusInv, HistoryTypes
<1>11. Arguments'
  BY <1>1, <1>2, <1>3, OtherArguments DEF BusInv
<1>12. QED
  BY <1>6, <1>9, <1>10, <1>11, Together

LEMMA HandleCallStep ==
  ASSUME BusInv, NEW t \in Workers, HandleCall(t)
  PROVE  BusInv'
<1>1. /\ pc[t] = "idle" /\ queue[t] # << >>
      /\ cur' = [cur EXCEPT ![t] = Head(queue[t])]
      /\ queue' = [queue EXCEPT ![t] = Tail(queue[t])]
      /\ UNCHANGED <<msg, free, mine, calls, publish, todo, lost>>
      /\ UNCHANGED <<sequence, waitOn, op, out, issued, callSem>>
      /\ UNCHANGED <<heap, result, faults>>
  BY DEF HandleCall, Receive, Set, At, poolVars, busVars
<1>2. /\ pc \in [Tasks -> Labels] /\ t \in Tasks /\ todo \in Seq(Workers) /\ t # Bus
      /\ arg \in [Tasks -> ArgumentSet] /\ ret \in [Tasks -> Returns]
      /\ deferred \in [Tasks -> SUBSET DeferredSet] /\ executed \in [Requests -> Nat]
      /\ msg \in [Messages -> MessageSet]
  BY Names DEF BusInv, TaskTypes, BusTypes, HistoryTypes, PoolTypes
<1>3. PICK m \in Messages : /\ m = Head(queue[t]) /\ WellMade(msg[m])
                            /\ msg[m].type \in Calls
  BY <1>1, <1>2, TakenMade DEF HandleCall, Receive
<1>4. PICK load \in Requests : load = msg[m].load
  BY <1>3 DEF WellMade
<1> DEFINE answer == IF msg[m].minor = "defer" THEN PENDING ELSE load
           a == CallReturn(m, answer)
<1>5. /\ executed' = executed \/ executed' = [executed EXCEPT ![load] = executed[load] + 1]
      /\ \/ deferred' = deferred
         \/ deferred' = [deferred EXCEPT ![t] = deferred[t] \cup {[m |-> m, load |-> load]}]
      /\ \/ /\ arg' = [arg EXCEPT ![t] = a] /\ ret' = [ret EXCEPT ![t] = "handler_end"]
            /\ pc' = [pc EXCEPT ![t] = "alloc"]
         \/ pc' = [pc EXCEPT ![t] = "handler_end"] /\ UNCHANGED <<arg, ret>>
  BY <1>3, <1>4 DEF HandleCall, Send, Set, Goto
<1>6. answer \in Values
  BY DEF Values
<1>7. a \in ArgumentSet /\ WellMade(a)
  BY <1>2, <1>6, ReturnMade
<1> HIDE DEF a
<1>8. /\ pc' \in [Tasks -> Labels] /\ arg' \in [Tasks -> ArgumentSet]
      /\ ret' \in [Tasks -> Returns]
      /\ \A u \in Tasks : u # t => pc'[u] = pc[u] /\ arg'[u] = arg[u] /\ ret'[u] = ret[u]
      /\ \/ pc'[t] = "alloc" /\ ret'[t] = "handler_end" /\ arg'[t] = a
         \/ pc'[t] = "handler_end"
  <2>1. "alloc" \in Labels /\ "handler_end" \in Labels /\ "handler_end" \in Returns
    BY DEF Labels, Returns
  <2>2. CASE /\ arg' = [arg EXCEPT ![t] = a] /\ ret' = [ret EXCEPT ![t] = "handler_end"]
             /\ pc' = [pc EXCEPT ![t] = "alloc"]
    BY <2>1, <2>2, <1>2, <1>7
  <2>3. CASE pc' = [pc EXCEPT ![t] = "handler_end"] /\ UNCHANGED <<arg, ret>>
    BY <2>1, <2>3, <1>2
  <2>4. QED
    BY <2>2, <2>3, <1>5
<1>9. Handling(t)'
  BY <1>8 DEF Handling, Sending
<1>10. pc'[Bus] = "replicate" => todo' # << >>
  BY <1>1, <1>2, <1>8, Names DEF BusInv, BusTypes
<1>11. Core'
  BY <1>1, <1>2, <1>8, <1>9, <1>10, TakeCore
<1>12. cur' \in [Tasks -> Messages]
  BY <1>1, <1>2, CurTyped
<1>13. executed' \in [Requests -> Nat]
  BY <1>2, <1>5
<1>14. deferred' \in [Tasks -> SUBSET DeferredSet]
  <2>1. [m |-> m, load |-> load] \in DeferredSet
    BY DEF DeferredSet
  <2>2. QED
    BY <2>1, <1>2, <1>5
<1>15. TaskTypes'
  BY <1>1, <1>8, <1>12, <1>14 DEF BusInv, TaskTypes
<1>16. HistoryTypes'
  BY <1>1, <1>13 DEF BusInv, HistoryTypes
<1>17. Arguments'
  BY <1>2, <1>7, <1>8, OtherArguments DEF BusInv
<1>18. QED
  BY <1>11, <1>15, <1>16, <1>17, Together

(* LOGGER: the bus starts a call of its own, or goes on.                   *)
LEMMA LoggerFacts ==
  ASSUME BusInv, NEW label \in Returns, Logger(label)
  PROVE  /\ pc' \in [Tasks -> Labels] /\ arg' \in [Tasks -> ArgumentSet]
         /\ ret' \in [Tasks -> Returns] /\ issued' \in [Tasks -> Nat]
         /\ heap' \subseteq Requests
         /\ \A u \in Tasks : u # Bus =>
              pc'[u] = pc[u] /\ arg'[u] = arg[u] /\ ret'[u] = ret[u]
         /\ \/ pc'[Bus] = "seq_inc" /\ ret'[Bus] = label /\ WellMade(arg'[Bus])
            \/ pc'[Bus] = label
<1>1. /\ pc \in [Tasks -> Labels] /\ Bus \in Tasks
      /\ arg \in [Tasks -> ArgumentSet] /\ ret \in [Tasks -> Returns]
      /\ issued \in [Tasks -> Nat] /\ heap \subseteq Requests
  BY Names DEF BusInv, TaskTypes, HistoryTypes
<1> DEFINE id == <<Bus, issued[Bus] + 1>>
           a == [type |-> "ASYNC_CALL", major |-> LogService, minor |-> "reply",
                 dst |-> NULL, seq |-> 0, load |-> id, extra |-> id]
<1>2. "seq_inc" \in Labels /\ label \in Labels
  BY DEF Labels, Returns
<1>3. CASE issued[Bus] < Budget[Bus]
  <2>1. /\ issued' = [issued EXCEPT ![Bus] = issued[Bus] + 1]
        /\ heap' = heap \cup {id}
        /\ arg' = [arg EXCEPT ![Bus] = a] /\ ret' = [ret EXCEPT ![Bus] = label]
        /\ pc' = [pc EXCEPT ![Bus] = "seq_inc"]
    BY <1>3 DEF Logger, Send, Set, Goto
  <2>2. id \in Requests
    BY <1>1, <1>3, NewRequest
  <2> HIDE DEF id
  <2>3. a \in ArgumentSet
    BY <2>2, Names, SizesAssumption DEF ArgumentSet, Types, Calls, Methods, Values
  <2>4. WellMade(a)
    BY <2>2 DEF WellMade
  <2> HIDE DEF a
  <2>5. /\ issued' \in [Tasks -> Nat] /\ heap' \subseteq Requests
        /\ ret' \in [Tasks -> Returns] /\ pc' \in [Tasks -> Labels]
    BY <1>1, <1>2, <2>1, <2>2
  <2>6. arg' \in [Tasks -> ArgumentSet] /\ arg'[Bus] = a
    BY <1>1, <2>1, <2>3
  <2>7. QED
    BY <1>1, <2>1, <2>4, <2>5, <2>6
<1>4. CASE ~(issued[Bus] < Budget[Bus])
  <2>1. pc' = [pc EXCEPT ![Bus] = label] /\ UNCHANGED <<issued, heap, arg, ret>>
    BY <1>4 DEF Logger, Goto
  <2>2. QED
    BY <1>1, <1>2, <2>1
<1>5. QED
  BY <1>3, <1>4

(* The bus logs what it found and then ends its handler.                   *)
LEMMA TakeAndLog ==
  ASSUME BusInv, pc[Bus] = "idle", queue[Bus] # << >>, Logger("bus_end"),
         cur' = [cur EXCEPT ![Bus] = Head(queue[Bus])],
         queue' = [queue EXCEPT ![Bus] = Tail(queue[Bus])],
         UNCHANGED <<msg, free, mine, calls, publish, todo, lost>>,
         UNCHANGED <<sequence, waitOn, op, out, deferred, callSem>>,
         UNCHANGED <<executed, result, faults>>
  PROVE  BusInv'
<1>1. /\ msg' = msg /\ free' = free /\ mine' = mine /\ calls' = calls
      /\ publish' = publish /\ todo' = todo /\ lost' = lost /\ sequence' = sequence
  OBVIOUS
<1>2. "bus_end" \in Returns
  BY DEF Returns
<1>3. /\ pc' \in [Tasks -> Labels] /\ arg' \in [Tasks -> ArgumentSet]
      /\ ret' \in [Tasks -> Returns] /\ issued' \in [Tasks -> Nat]
      /\ heap' \subseteq Requests
      /\ \A u \in Tasks : u # Bus =>
           pc'[u] = pc[u] /\ arg'[u] = arg[u] /\ ret'[u] = ret[u]
      /\ \/ pc'[Bus] = "seq_inc" /\ ret'[Bus] = "bus_end" /\ WellMade(arg'[Bus])
         \/ pc'[Bus] = "bus_end"
  BY <1>2, LoggerFacts
<1>4. Handling(Bus)'
  BY <1>3 DEF Handling, Sending
<1>5. Bus \in Tasks /\ todo \in Seq(Workers)
  BY Names DEF BusInv, BusTypes
<1>6. pc'[Bus] \notin {"invoke", "release_call", "test", "replicate"}
  BY <1>3
<1>7. Core'
  BY <1>1, <1>3, <1>4, <1>5, <1>6, TakeCore
<1>8. cur' \in [Tasks -> Messages]
  BY <1>5, CurTyped
<1>9. \A u \in Tasks : pc'[u] \in {"replicate", "release_call", "dead"} => u = Bus
  BY <1>3 DEF BusInv, TaskTypes
<1>10. TaskTypes'
  BY <1>1, <1>3, <1>8, <1>9 DEF BusInv, TaskTypes
<1>11. HistoryTypes'
  BY <1>3 DEF BusInv, HistoryTypes
<1>12. Arguments'
  BY <1>3, <1>5, OtherArguments DEF BusInv
<1>13. QED
  BY <1>7, <1>10, <1>11, <1>12, Together

LEMMA BusSignalNobodyStep ==
  ASSUME BusInv, BusSignalNobody
  PROVE  BusInv'
<1>1. /\ pc[Bus] = "idle" /\ queue[Bus] # << >> /\ Logger("bus_end")
      /\ cur' = [cur EXCEPT ![Bus] = Head(queue[Bus])]
      /\ queue' = [queue EXCEPT ![Bus] = Tail(queue[Bus])]
      /\ UNCHANGED <<msg, free, mine, calls, publish, todo, lost>>
      /\ UNCHANGED <<sequence, waitOn, op, out, deferred, callSem>>
      /\ UNCHANGED <<executed, result, faults>>
  BY DEF BusSignalNobody, Receive, Set, At, poolVars, busVars, history
<1>2. QED
  BY <1>1, TakeAndLog

LEMMA BusReturnNoneStep ==
  ASSUME BusInv, BusReturnNone
  PROVE  BusInv'
<1>1. /\ pc[Bus] = "idle" /\ queue[Bus] # << >> /\ Logger("bus_end")
      /\ cur' = [cur EXCEPT ![Bus] = Head(queue[Bus])]
      /\ queue' = [queue EXCEPT ![Bus] = Tail(queue[Bus])]
      /\ UNCHANGED <<msg, free, mine, calls, publish, todo, lost>>
      /\ UNCHANGED <<sequence, waitOn, op, out, deferred, callSem>>
      /\ UNCHANGED <<executed, result, faults>>
  BY DEF BusReturnNone, Receive, Set, At, poolVars, busVars, history
<1>2. QED
  BY <1>1, TakeAndLog

(* The bus takes a message and goes on at a point of its handler.          *)
LEMMA TakeAndGo ==
  ASSUME BusInv, pc[Bus] = "idle", queue[Bus] # << >>,
         NEW label \in {"bus_end", "replicate"}, pc' = [pc EXCEPT ![Bus] = label],
         cur' = [cur EXCEPT ![Bus] = Head(queue[Bus])],
         queue' = [queue EXCEPT ![Bus] = Tail(queue[Bus])],
         todo' \in Seq(Workers),
         label = "replicate" => todo' # << >> /\ msg[Head(queue[Bus])].ref = 0,
         UNCHANGED <<msg, free, mine, calls, publish, lost>>,
         UNCHANGED <<sequence, ret, arg, waitOn, op, out, deferred, issued, callSem>>,
         UNCHANGED <<heap, executed, result, faults>>
  PROVE  BusInv'
<1>1. /\ msg' = msg /\ free' = free /\ mine' = mine /\ calls' = calls
      /\ publish' = publish /\ lost' = lost /\ sequence' = sequence
      /\ ret' = ret /\ arg' = arg
  OBVIOUS
<1>2. Bus \in Tasks /\ pc \in [Tasks -> Labels]
  BY Names DEF BusInv, TaskTypes
<1>3. pc'[Bus] = label /\ \A u \in Tasks : u # Bus => pc'[u] = pc[u]
  BY <1>2
<1>4. Handling(Bus)'
  BY <1>3 DEF Handling
<1>5. Core'
  BY <1>1, <1>2, <1>3, <1>4, TakeCore
<1>6. cur' \in [Tasks -> Messages]
  BY <1>2, CurTyped
<1>7. pc' \in [Tasks -> Labels]
  BY <1>2 DEF Labels
<1>8. \A u \in Tasks : pc'[u] \in {"replicate", "release_call", "dead"} => u = Bus
  BY <1>3 DEF BusInv, TaskTypes
<1>9. TaskTypes'
  BY <1>1, <1>6, <1>7, <1>8 DEF BusInv, TaskTypes
<1>10. HistoryTypes'
  BY DEF BusInv, HistoryTypes
<1>11. Arguments'
  BY <1>1, <1>2, <1>3, OtherArguments DEF BusInv
<1>12. QED
  BY <1>5, <1>9, <1>10, <1>11, Together

LEMMA BusReturnStrayStep ==
  ASSUME BusInv, BusReturnStray
  PROVE  BusInv'
<1>1. /\ pc[Bus] = "idle" /\ queue[Bus] # << >> /\ pc' = [pc EXCEPT ![Bus] = "bus_end"]
      /\ cur' = [cur EXCEPT ![Bus] = Head(queue[Bus])]
      /\ queue' = [queue EXCEPT ![Bus] = Tail(queue[Bus])]
      /\ todo' = todo
      /\ UNCHANGED <<msg, free, mine, calls, publish, lost>>
      /\ UNCHANGED <<sequence, ret, arg, waitOn, op, out, deferred, issued, callSem>>
      /\ UNCHANGED <<heap, executed, result, faults>>
  BY DEF BusReturnStray, Receive, Set, Goto, At, poolVars, busVars, history
<1>2. todo' \in Seq(Workers)
  BY <1>1 DEF BusInv, BusTypes
<1>3. QED
  BY <1>1, <1>2, TakeAndGo

LEMMA BusSignalStep ==
  ASSUME BusInv, BusSignal
  PROVE  BusInv'
<1>1. /\ pc[Bus] = "idle" /\ queue[Bus] # << >> /\ pc' = [pc EXCEPT ![Bus] = "replicate"]
      /\ msg[Head(queue[Bus])].type \in {"SIGNAL"}
      /\ cur' = [cur EXCEPT ![Bus] = Head(queue[Bus])]
      /\ queue' = [queue EXCEPT ![Bus] = Tail(queue[Bus])]
      /\ publish[Major] # << >> /\ todo' = publish[Major]
      /\ UNCHANGED <<msg, free, mine, calls, publish, lost>>
      /\ UNCHANGED <<sequence, ret, arg, waitOn, op, out, deferred, issued, callSem>>
      /\ UNCHANGED <<heap, executed, result, faults>>
  BY DEF BusSignal, Receive, Set, Goto, At, poolVars, history
<1>2. Fresh(Head(queue[Bus])) /\ msg[Head(queue[Bus])] \in MessageSet
  BY <1>1, TakenMade, Names
<1>3. Major \in Workers
  BY <1>2 DEF Major, MessageSet
<1>4. todo' \in Seq(Workers)
  BY <1>1, <1>3 DEF BusInv, BusTypes
<1>5. msg[Head(queue[Bus])].ref = 0
  BY <1>1, <1>2 DEF Fresh, Calls
<1>6. QED
  BY <1>1, <1>4, <1>5, TakeAndGo

(* The contents of the messages when one is released.                      *)
LEMMA ReleaseContents ==
  ASSUME BusInv, NEW x \in Messages, x \notin Range(free), mblue_message_release(x),
         mine' = mine,
         \A m \in Range(queue'[Bus]) : m \in Range(queue[Bus]) /\ m # x,
         \A u \in Tasks : pc'[u] = "invoke" => pc[u] = "invoke" /\ mine[u] # x,
         \A u \in Tasks : pc'[u] = "test" => pc[u] = "test",
         pc'[Bus] = "replicate" =>
           pc[Bus] = "replicate" /\ cur'[Bus] = cur[Bus] /\ cur[Bus] # x
  PROVE  /\ Contents' /\ FreshMessages'
         /\ msg' \in [Messages -> MessageSet] /\ free' \in Seq(Messages)
<1>1. /\ msg' \in [Messages -> MessageSet] /\ free' \in Seq(Messages)
      /\ \A m \in Messages : m # x => msg'[m] = msg[m]
      /\ msg'[x] = [msg[x] EXCEPT !.ref = PutRef(x)]
      /\ \A m : m \in Range(free) => m \in Range(free')
  BY Released DEF BusInv, Accounts
<1>2. msg[x] \in MessageSet /\ mine \in [Tasks -> Messages] /\ cur \in [Tasks -> Messages]
  BY DEF BusInv, PoolTypes, TaskTypes
<1>3. /\ msg'[x].type = msg[x].type /\ msg'[x].load = msg[x].load
      /\ msg'[x].extra = msg[x].extra /\ msg'[x].src = msg[x].src
  BY <1>1, <1>2 DEF MessageSet
<1>4. ASSUME NEW m \in Messages
      PROVE  /\ msg'[m].src = msg[m].src
             /\ WellMade(msg[m]) => WellMade(msg'[m])
  <2>1. CASE m = x
    BY <2>1, <1>3 DEF WellMade
  <2>2. CASE m # x
    BY <2>2, <1>1
  <2>3. QED
    BY <2>1, <2>2
<1>5. ASSUME NEW m \in Messages, m \notin Range(free')
      PROVE  WellMade(msg'[m]) /\ msg'[m].src \in Tasks
  BY <1>1, <1>4, <1>5 DEF BusInv, Contents
<1>6. ASSUME NEW u \in Tasks, pc'[u] = "test"
      PROVE  msg'[mine'[u]].src \in Tasks
  BY <1>2, <1>4, <1>6 DEF BusInv, Contents
<1>7. Contents'
  BY <1>5, <1>6 DEF Contents, WellMade
<1>8. \A m \in Messages : m # x /\ Fresh(m) => Fresh(m)'
  BY <1>1 DEF Fresh
<1>9. Range(queue[Bus]) \subseteq Messages
  BY Names, RangeWithin DEF BusInv, PoolTypes
<1>10. \A m \in Range(queue'[Bus]) : Fresh(m)'
  BY <1>8, <1>9 DEF BusInv, FreshMessages
<1>11. ASSUME NEW u \in Tasks, pc'[u] = "invoke"
       PROVE  msg'[mine'[u]].ref = IF msg'[mine'[u]].type \in Calls THEN 1 ELSE 0
  BY <1>1, <1>2, <1>11 DEF BusInv, FreshMessages, Fresh
<1>12. pc'[Bus] = "replicate" => msg'[cur'[Bus]].ref = 0
  BY <1>1, <1>2, Names DEF BusInv, FreshMessages
<1>13. FreshMessages'
  BY <1>10, <1>11, <1>12 DEF FreshMessages, Fresh
<1>14. QED
  BY <1>1, <1>7, <1>13

(* A handler ends.                                                         *)
LEMMA EndStep ==
  ASSUME BusInv, NEW t \in Tasks, pc[t] \in {"handler_end", "bus_end"},
         pc' = [pc EXCEPT ![t] = "idle"], mblue_message_release(cur[t]),
         heap' \subseteq heap, faults' \subseteq faults \cup {"double_free"},
         UNCHANGED <<queue, cur, mine, calls, publish, todo, lost>>,
         UNCHANGED <<sequence, ret, arg, waitOn, op, out, deferred, issued, callSem>>,
         UNCHANGED <<executed, result>>
  PROVE  BusInv'
<1>1. /\ queue' = queue /\ cur' = cur /\ mine' = mine /\ calls' = calls /\ lost' = lost
      /\ ret' = ret /\ arg' = arg
  OBVIOUS
<1>2. /\ pc \in [Tasks -> Labels] /\ cur \in [Tasks -> Messages] /\ PoolTypes /\ Accounts
      /\ OnePlace
  BY DEF BusInv, TaskTypes, Accounts
<1>3. Accounts'
  BY <1>1, <1>2, HandlerReleases
<1>4. PICK x \in Messages : x = cur[t]
  BY <1>2
<1>5. IsAt(x, "handler", t)
  BY <1>4 DEF IsAt, Handling
<1>6. /\ x \notin Range(free)
      /\ \A u \in Tasks : /\ x \notin Range(queue[u])
                          /\ Handling(u) /\ cur[u] = x => u = t
                          /\ pc[u] = "invoke" => mine[u] # x
  BY <1>2, <1>5, PlacesApart DEF Kinds
<1>7. pc'[t] = "idle" /\ \A u \in Tasks : u # t => pc'[u] = pc[u]
  BY <1>2
<1>8. pc'[Bus] = "replicate" => pc[Bus] = "replicate" /\ cur[Bus] # x
  BY <1>6, <1>7, Names DEF Handling
<1>9. /\ Contents' /\ FreshMessages'
      /\ msg' \in [Messages -> MessageSet] /\ free' \in Seq(Messages)
  <2>1. \A m \in Range(queue'[Bus]) : m \in Range(queue[Bus]) /\ m # x
    BY <1>1, <1>6, Names
  <2>2. \A u \in Tasks : /\ pc'[u] = "invoke" => pc[u] = "invoke" /\ mine[u] # x
                         /\ pc'[u] = "test" => pc[u] = "test"
    BY <1>6, <1>7
  <2>3. QED
    BY <1>1, <1>4, <1>6, <1>8, <2>1, <2>2, ReleaseContents
<1>10. PoolTypes'
  BY <1>9 DEF BusInv, PoolTypes
<1>11. BusTypes'
  BY <1>8 DEF BusInv, BusTypes
<1>12. Core'
  BY <1>3, <1>9, <1>10, <1>11 DEF Core
<1>13. pc' \in [Tasks -> Labels]
  BY <1>2 DEF Labels
<1>14. TaskTypes'
  BY <1>1, <1>7, <1>13 DEF BusInv, TaskTypes
<1>15. HistoryTypes'
  BY DEF BusInv, HistoryTypes
<1>16. Arguments'
  BY <1>1, <1>7, OtherArguments DEF BusInv
<1>17. QED
  BY <1>12, <1>14, <1>15, <1>16, Together

LEMMA HandlerEndStep ==
  ASSUME BusInv, NEW t \in Tasks, HandlerEnd(t)
  PROVE  BusInv'
<1>1. /\ pc[t] = "handler_end" /\ pc' = [pc EXCEPT ![t] = "idle"]
      /\ mblue_message_release(cur[t])
      /\ heap' \subseteq heap /\ faults' \subseteq faults \cup {"double_free"}
      /\ UNCHANGED <<queue, cur, mine, calls, publish, todo, lost>>
      /\ UNCHANGED <<sequence, ret, arg, waitOn, op, out, deferred, issued, callSem>>
      /\ UNCHANGED <<executed, result>>
  BY DEF HandlerEnd, FreePayload, At, Goto, busVars, taskVars
<1>2. QED
  BY <1>1, EndStep

LEMMA BusEndStep ==
  ASSUME BusInv, BusEnd
  PROVE  BusInv'
<1>1. /\ pc[Bus] = "bus_end" /\ pc' = [pc EXCEPT ![Bus] = "idle"]
      /\ mblue_message_release(cur[Bus])
      /\ heap' = heap /\ faults' = faults
      /\ UNCHANGED <<queue, cur, mine, calls, publish, todo, lost>>
      /\ UNCHANGED <<sequence, ret, arg, waitOn, op, out, deferred, issued, callSem>>
      /\ UNCHANGED <<executed, result>>
  BY DEF BusEnd, At, Goto, busVars, taskVars, history
<1>2. heap' \subseteq heap /\ faults' \subseteq faults \cup {"double_free"}
  BY <1>1
<1>3. QED
  BY <1>1, <1>2, Names, EndStep

LEMMA BusReleaseCallStep ==
  ASSUME BusInv, BusReleaseCall
  PROVE  BusInv'
<1>1. /\ pc[Bus] = "release_call" /\ pc' = [pc EXCEPT ![Bus] = "bus_end"]
      /\ mblue_message_release(mine[Bus])
      /\ UNCHANGED <<queue, cur, mine, calls, publish, todo, lost>>
      /\ UNCHANGED <<sequence, ret, arg, waitOn, op, out, deferred, issued, callSem>>
      /\ UNCHANGED <<heap, executed, result, faults>>
  BY DEF BusReleaseCall, At, Goto, busVars, taskVars, history
<1>2. /\ pc \in [Tasks -> Labels] /\ mine \in [Tasks -> Messages] /\ PoolTypes /\ Accounts
      /\ OnePlace /\ Bus \in Tasks
  BY Names DEF BusInv, TaskTypes, Accounts
<1>3. PICK x \in Messages : x = mine[Bus]
  BY <1>2
<1>4. Accounts' /\ x \notin Range(free)
  BY <1>1, <1>2, <1>3, CallReleased
<1>5. Awaited(x) /\ Counted(x)
  BY <1>1, <1>2, <1>3 DEF Awaited, Waits, Accounts, AllCounted
<1>6. \A m \in Range(queue[Bus]) : m # x
  <2>1. ASSUME x \in Range(queue[Bus])
        PROVE  FALSE
    <3>1. Fresh(x) /\ IsAt(x, "queue", Bus)
      BY <2>1 DEF BusInv, FreshMessages, IsAt
    <3>2. Held(x)
      BY <3>1, <1>2 DEF Held, Kinds
    <3>3. x \notin lost /\ msg[x].ref = 2
      BY <3>2, <1>4, <1>5 DEF Counted
    <3>4. QED
      BY <3>1, <3>3 DEF Fresh
  <2>2. QED
    BY <2>1
<1>7. \A u \in Tasks : pc[u] = "invoke" => mine[u] # x
  <2>1. ASSUME NEW u \in Tasks, pc[u] = "invoke", mine[u] = x
        PROVE  FALSE
    <3>1. Fresh(x) /\ IsAt(x, "sender", u)
      BY <2>1 DEF BusInv, FreshMessages, IsAt
    <3>2. Held(x)
      BY <3>1, <1>2 DEF Held, Kinds
    <3>3. x \notin lost /\ msg[x].ref = 2
      BY <3>2, <1>4, <1>5 DEF Counted
    <3>4. QED
      BY <3>1, <3>3 DEF Fresh
  <2>2. QED
    BY <2>1
<1>8. pc'[Bus] = "bus_end" /\ \A u \in Tasks : u # Bus => pc'[u] = pc[u]
  BY <1>1, <1>2
<1>9. /\ Contents' /\ FreshMessages'
      /\ msg' \in [Messages -> MessageSet] /\ free' \in Seq(Messages)
  <2>1. \A u \in Tasks : /\ pc'[u] = "invoke" => pc[u] = "invoke" /\ mine[u] # x
                         /\ pc'[u] = "test" => pc[u] = "test"
    BY <1>7, <1>8
  <2>2. pc'[Bus] # "replicate" /\ mblue_message_release(x) /\ mine' = mine
    BY <1>1, <1>3, <1>8
  <2>3. \A m \in Range(queue'[Bus]) : m \in Range(queue[Bus]) /\ m # x
    BY <1>1, <1>6
  <2>4. QED
    BY <1>4, <2>1, <2>2, <2>3, ReleaseContents
<1>10. PoolTypes'
  BY <1>1, <1>9 DEF BusInv, PoolTypes
<1>11. BusTypes'
  BY <1>1, <1>8 DEF BusInv, BusTypes
<1>12. Core'
  BY <1>4, <1>9, <1>10, <1>11 DEF Core
<1>13. pc' \in [Tasks -> Labels]
  BY <1>1, <1>2 DEF Labels
<1>14. TaskTypes'
  BY <1>1, <1>8, <1>13 DEF BusInv, TaskTypes
<1>15. HistoryTypes'
  BY <1>1 DEF BusInv, HistoryTypes
<1>16. Arguments'
  BY <1>1, <1>2, <1>8, OtherArguments DEF BusInv
<1>17. QED
  BY <1>12, <1>14, <1>15, <1>16, Together

(* A queue that has lost its head is still a queue.                        *)
LEMMA TakenTypes ==
  ASSUME BusInv, NEW t \in Tasks, queue[t] # << >>,
         queue' = [queue EXCEPT ![t] = Tail(queue[t])]
  PROVE  /\ queue' \in [Tasks -> Seq(Messages)]
         /\ \A u \in Tasks : Len(queue'[u]) <= QueueSize
         /\ queue'[t] = Tail(queue[t])
         /\ \A u \in Tasks : u # t => queue'[u] = queue[u]
         /\ Range(queue'[t]) = Range(queue[t]) \ {Head(queue[t])}
<1>1. /\ queue \in [Tasks -> Seq(Messages)] /\ OnePlace /\ NoRepeats
      /\ \A u \in Tasks : Len(queue[u]) <= QueueSize
  BY DEF BusInv, PoolTypes, Accounts
<1>2. /\ Tail(queue[t]) \in Seq(Messages) /\ Len(Tail(queue[t])) < Len(queue[t])
      /\ Range(Tail(queue[t])) = Range(queue[t]) \ {Head(queue[t])}
  BY <1>1, QueueHead
<1>3. /\ queue'[t] = Tail(queue[t])
      /\ \A u \in Tasks : u # t => queue'[u] = queue[u]
      /\ queue' \in [Tasks -> Seq(Messages)]
  BY <1>1, <1>2
<1>4. Len(Tail(queue[t])) <= QueueSize
  <2>1. Len(queue[t]) \in Nat /\ Len(Tail(queue[t])) \in Nat /\ Len(queue[t]) <= QueueSize
    BY <1>1, <1>2, LenProperties
  <2>2. QED
    BY <1>2, <2>1, SizesAssumption
<1>5. QED
  BY <1>1, <1>2, <1>3, <1>4

LEMMA BusSubscribeStep ==
  ASSUME BusInv, BusSubscribe
  PROVE  BusInv'
<1>1. /\ pc[Bus] = "idle" /\ queue[Bus] # << >>
      /\ msg[Head(queue[Bus])].type = "SUBSCRIBE"
      /\ mblue_message_release(Head(queue[Bus]))
      /\ cur' = [cur EXCEPT ![Bus] = Head(queue[Bus])]
      /\ queue' = [queue EXCEPT ![Bus] = Tail(queue[Bus])]
      /\ publish' = [publish EXCEPT ![Major] =
                       Append(publish[Major], msg[Head(queue[Bus])].extra)]
      /\ pc' = pc
      /\ UNCHANGED <<mine, calls, todo, lost>>
      /\ UNCHANGED <<sequence, ret, arg, waitOn, op, out, deferred, issued, callSem>>
      /\ UNCHANGED <<heap, executed, result, faults>>
  BY DEF BusSubscribe, Receive, Set, At, history
<1>2. /\ pc \in [Tasks -> Labels] /\ mine \in [Tasks -> Messages]
      /\ cur \in [Tasks -> Messages] /\ PoolTypes /\ Accounts /\ OnePlace /\ NoRepeats
      /\ queue \in [Tasks -> Seq(Messages)] /\ publish \in [Workers -> Seq(Workers)]
      /\ Bus \in Tasks
  BY Names DEF BusInv, TaskTypes, PoolTypes, BusTypes, Accounts
<1>3. /\ Fresh(Head(queue[Bus])) /\ WellMade(msg[Head(queue[Bus])])
      /\ msg[Head(queue[Bus])] \in MessageSet
  BY <1>1, <1>2, TakenMade
<1>4. msg[Head(queue[Bus])].ref \in {0, 1}
  BY <1>3 DEF Fresh
<1>5. Accounts'
  BY <1>1, <1>2, <1>4, SubscribeReleased
<1>6. PICK x \in Messages : x = Head(queue[Bus])
  BY <1>1, <1>2, QueueHead
<1>7. IsAt(x, "queue", Bus) /\ x \notin Range(free)
  BY <1>1, <1>2, <1>6, QueueHead
<1>8. \A u \in Tasks : pc[u] = "invoke" => mine[u] # x
  BY <1>2, <1>7, PlacesApart DEF Kinds
<1>9. /\ queue' \in [Tasks -> Seq(Messages)]
      /\ \A u \in Tasks : Len(queue'[u]) <= QueueSize
      /\ Range(queue'[Bus]) = Range(queue[Bus]) \ {x}
  BY <1>1, <1>2, <1>6, TakenTypes
<1>10. /\ Contents' /\ FreshMessages'
       /\ msg' \in [Messages -> MessageSet] /\ free' \in Seq(Messages)
  <2>1. \A m \in Range(queue'[Bus]) : m \in Range(queue[Bus]) /\ m # x
    BY <1>9
  <2>2. pc'[Bus] # "replicate" /\ mine' = mine /\ pc' = pc /\ mblue_message_release(x)
    BY <1>1, <1>6
  <2>3. QED
    BY <1>7, <1>8, <2>1, <2>2, ReleaseContents
<1>11. PoolTypes'
  BY <1>1, <1>9, <1>10 DEF BusInv, PoolTypes
<1>12. BusTypes'
  <2>1. Major \in Workers
    BY <1>3 DEF Major, MessageSet
  <2>2. msg[Head(queue[Bus])].extra \in Workers
    BY <1>1, <1>3 DEF WellMade
  <2>3. Append(publish[Major], msg[Head(queue[Bus])].extra) \in Seq(Workers)
    BY <1>2, <2>1, <2>2
  <2>4. publish' \in [Workers -> Seq(Workers)]
    BY <1>1, <1>2, <2>3
  <2>5. QED
    BY <1>1, <2>4 DEF BusInv, BusTypes
<1>13. Core'
  BY <1>5, <1>10, <1>11, <1>12 DEF Core
<1>14. cur' \in [Tasks -> Messages]
  BY <1>1, <1>2, CurTyped
<1>15. TaskTypes'
  BY <1>1, <1>14 DEF BusInv, TaskTypes
<1>16. HistoryTypes'
  BY <1>1 DEF BusInv, HistoryTypes
<1>17. Arguments'
  BY <1>1, <1>2, OtherArguments DEF BusInv
<1>18. QED
  BY <1>13, <1>15, <1>16, <1>17, Together

LEMMA BusCallUnknownStep ==
  ASSUME BusInv, BusCallUnknown
  PROVE  BusInv'
<1>1. /\ pc[Bus] = "idle" /\ queue[Bus] # << >> /\ Logger("idle")
      /\ cur' = [cur EXCEPT ![Bus] = Head(queue[Bus])]
      /\ queue' = [queue EXCEPT ![Bus] = Tail(queue[Bus])]
      /\ lost' = lost \cup {Head(queue[Bus])}
      /\ UNCHANGED <<msg, free, mine, calls, publish, todo>>
      /\ UNCHANGED <<sequence, waitOn, op, out, deferred, callSem>>
      /\ UNCHANGED <<executed, result, faults>>
  BY DEF BusCallUnknown, Receive, Set, At, poolVars, busVars, history
<1>2. /\ queue \in [Tasks -> Seq(Messages)] /\ cur \in [Tasks -> Messages]
      /\ Accounts /\ OnePlace /\ NoRepeats /\ NoCallTwice /\ Bus \in Tasks
  BY Names DEF BusInv, TaskTypes, PoolTypes, Accounts
<1>3. "idle" \in Returns
  BY DEF Returns
<1>4. /\ pc' \in [Tasks -> Labels] /\ arg' \in [Tasks -> ArgumentSet]
      /\ ret' \in [Tasks -> Returns] /\ issued' \in [Tasks -> Nat]
      /\ heap' \subseteq Requests
      /\ \A u \in Tasks : u # Bus =>
           pc'[u] = pc[u] /\ arg'[u] = arg[u] /\ ret'[u] = ret[u]
      /\ \/ pc'[Bus] = "seq_inc" /\ ret'[Bus] = "idle" /\ WellMade(arg'[Bus])
         \/ pc'[Bus] = "idle"
  BY <1>1, <1>3, LoggerFacts
<1>5. ~Handling(Bus)' /\ pc'[Bus] \in {"seq_inc", "idle"}
  BY <1>4 DEF Handling, Sending
<1>6. PICK x \in Messages : x = Head(queue[Bus])
  BY <1>1, <1>2, QueueHead
<1>7. Held(x) /\ x \notin Range(free) /\ Fresh(x)
  BY <1>1, <1>2, <1>6, QueueHead, TakenMade
<1>8. Vanishes(x) /\ NoRepeats'
  BY <1>1, <1>2, <1>4, <1>5, <1>6, TakenPlaces
<1>9. WaitStays
  <2>1. pc'[Bus] # "release_call" /\ pc[Bus] # "release_call"
    BY <1>1, <1>5
  <2>2. ASSUME NEW m \in Messages, NEW u \in Tasks
        PROVE  Waits(m, u)' <=> Waits(m, u)
    BY <1>1, <2>1 DEF Waits
  <2>3. QED
    BY <2>2 DEF WaitStays
<1>10. NoCallTwice'
  BY <1>1, <1>2 DEF NoCallTwice
<1>11. msg[x].ref \in Nat /\ msg[x].ref < 2
  BY <1>7 DEF Fresh
<1>12. Accounts'
  BY <1>1, <1>2, <1>6, <1>7, <1>8, <1>9, <1>10, <1>11, AccountsDropped
<1>13. /\ queue' \in [Tasks -> Seq(Messages)]
       /\ \A u \in Tasks : Len(queue'[u]) <= QueueSize
       /\ Range(queue'[Bus]) = Range(queue[Bus]) \ {x}
  BY <1>1, <1>2, <1>6, TakenTypes
<1>14. PoolTypes'
  BY <1>1, <1>6, <1>13 DEF BusInv, PoolTypes
<1>15. BusTypes'
  BY <1>1, <1>5 DEF BusInv, BusTypes
<1>16. \A u \in Tasks : pc'[u] \in {"invoke", "test", "replicate"} => pc[u] = pc'[u]
  BY <1>4, <1>5
<1>17. Contents'
  BY <1>1, <1>16 DEF BusInv, Contents, WellMade
<1>18. FreshMessages'
  BY <1>1, <1>5, <1>13, <1>16 DEF BusInv, FreshMessages, Fresh
<1>19. Core'
  BY <1>12, <1>14, <1>15, <1>17, <1>18 DEF Core
<1>20. cur' \in [Tasks -> Messages]
  BY <1>1, <1>2, CurTyped
<1>21. \A u \in Tasks : pc'[u] \in {"replicate", "release_call", "dead"} => u = Bus
  BY <1>4 DEF BusInv, TaskTypes
<1>22. TaskTypes'
  BY <1>1, <1>4, <1>20, <1>21 DEF BusInv, TaskTypes
<1>23. HistoryTypes'
  BY <1>1, <1>4 DEF BusInv, HistoryTypes
<1>24. Arguments'
  BY <1>2, <1>4, OtherArguments DEF BusInv
<1>25. QED
  BY <1>19, <1>22, <1>23, <1>24, Together

(* The contents of the messages when one is written.                       *)
LEMMA WrittenContents ==
  ASSUME BusInv, NEW x \in Messages, \A m \in Messages : m # x => msg'[m] = msg[m],
         WellMade(msg'[x]), msg'[x].src \in Tasks,
         \A m \in Messages : m # x /\ m \notin Range(free') => m \notin Range(free),
         \A u \in Tasks : pc'[u] = "test" =>
           (pc[u] = "test" /\ mine'[u] = mine[u]) \/ mine'[u] = x,
         \A m \in Range(queue'[Bus]) :
           (m # x /\ m \in Range(queue[Bus])) \/ (m = x /\ Fresh(x)'),
         \A u \in Tasks : pc'[u] = "invoke" =>
           (pc[u] = "invoke" /\ mine'[u] = mine[u] /\ mine[u] # x) \/ (mine'[u] = x /\ Fresh(x)'),
         pc'[Bus] = "replicate" =>
           pc[Bus] = "replicate" /\ cur'[Bus] = cur[Bus] /\ cur[Bus] # x
  PROVE  Contents' /\ FreshMessages'
<1>1. mine \in [Tasks -> Messages] /\ cur \in [Tasks -> Messages]
  BY DEF BusInv, TaskTypes
<1>2. ASSUME NEW m \in Messages, m \notin Range(free')
      PROVE  WellMade(msg'[m]) /\ msg'[m].src \in Tasks
  <2>1. CASE m = x
    BY <2>1
  <2>2. CASE m # x
    BY <2>2, <1>2 DEF BusInv, Contents
  <2>3. QED
    BY <2>1, <2>2
<1>3. ASSUME NEW u \in Tasks, pc'[u] = "test"
      PROVE  msg'[mine'[u]].src \in Tasks
  <2>1. CASE mine'[u] = x
    BY <2>1
  <2>2. CASE mine'[u] # x
    BY <1>1, <1>3, <2>2 DEF BusInv, Contents
  <2>3. QED
    BY <2>1, <2>2
<1>4. Contents'
  BY <1>2, <1>3 DEF Contents, WellMade
<1>5. \A m \in Messages : m # x /\ Fresh(m) => Fresh(m)'
  BY DEF Fresh
<1>6. Range(queue[Bus]) \subseteq Messages
  BY Names, RangeWithin DEF BusInv, PoolTypes
<1>7. \A m \in Range(queue'[Bus]) : Fresh(m)'
  BY <1>5, <1>6 DEF BusInv, FreshMessages
<1>8. ASSUME NEW u \in Tasks, pc'[u] = "invoke"
      PROVE  msg'[mine'[u]].ref = IF msg'[mine'[u]].type \in Calls THEN 1 ELSE 0
  <2>1. CASE mine'[u] = x
    BY <2>1, <1>8 DEF Fresh
  <2>2. CASE mine'[u] # x
    BY <1>1, <1>8, <2>2 DEF BusInv, FreshMessages, Fresh
  <2>3. QED
    BY <2>1, <2>2
<1>9. pc'[Bus] = "replicate" => msg'[cur'[Bus]].ref = 0
  BY <1>1, Names DEF BusInv, FreshMessages
<1>10. FreshMessages'
  BY <1>7, <1>8, <1>9 DEF FreshMessages, Fresh
<1>11. QED
  BY <1>4, <1>10

LEMMA InitMessageStep ==
  ASSUME BusInv, NEW t \in Tasks, InitMessage(t)
  PROVE  BusInv'
<1> DEFINE a == arg[t]
           r == [seq |-> a.seq, ref |-> IF a.type \in Calls THEN 1 ELSE 0,
                 type |-> a.type, major |-> a.major, minor |-> a.minor,
                 src |-> t, dst |-> a.dst, load |-> a.load, extra |-> a.extra]
<1>1. /\ pc[t] = "alloc" /\ pc' = [pc EXCEPT ![t] = "invoke"] /\ free # << >>
      /\ msg' = [msg EXCEPT ![Head(free)] = r]
      /\ mine' = [mine EXCEPT ![t] = Head(free)]
      /\ free' = Tail(free)
      /\ UNCHANGED <<queue, cur, calls, publish, todo, lost>>
      /\ UNCHANGED <<sequence, ret, arg, waitOn, op, out, deferred, issued, callSem>>
      /\ UNCHANGED <<heap, executed, result, faults>>
  BY DEF InitMessage, Set, At, Goto, busVars, history
<1>2. /\ pc \in [Tasks -> Labels] /\ mine \in [Tasks -> Messages] /\ PoolTypes /\ Accounts
      /\ msg \in [Messages -> MessageSet] /\ a \in ArgumentSet /\ WellMade(a)
  BY <1>1 DEF BusInv, TaskTypes, PoolTypes, Arguments
<1>3. PICK x \in Messages : x = Head(free)
  BY <1>1, <1>2, FreeHead
<1>4. /\ x \in Range(free) /\ Tail(free) \in Seq(Messages)
      /\ Range(Tail(free)) = Range(free) \ {x}
      /\ \A u \in Tasks : /\ x \notin Range(queue[u])
                          /\ Handling(u) => cur[u] # x
                          /\ pc[u] = "invoke" => mine[u] # x
  BY <1>1, <1>2, <1>3, FreeHead
<1>5. /\ r \in MessageSet /\ r.ref \in {0, 1} /\ r.src = t
      /\ r.ref = IF r.type \in Calls THEN 1 ELSE 0
  BY <1>2 DEF ArgumentSet, MessageSet, Tasks
<1>6. WellMade(r)
  BY <1>2 DEF WellMade
<1> HIDE DEF r, a
<1>7. /\ msg' \in [Messages -> MessageSet] /\ msg'[x] = r
      /\ \A m \in Messages : m # x => msg'[m] = msg[m]
  BY <1>1, <1>2, <1>3, <1>5
<1>8. Accounts'
  BY <1>1, <1>2, <1>3, <1>5, <1>7, AllocAccounts
<1>9. /\ pc'[t] = "invoke" /\ mine'[t] = x
      /\ \A u \in Tasks : u # t => pc'[u] = pc[u] /\ mine'[u] = mine[u]
  BY <1>1, <1>2, <1>3
<1>10. Fresh(x)'
  BY <1>5, <1>7 DEF Fresh
<1>11. pc'[Bus] = "replicate" => pc[Bus] = "replicate" /\ cur[Bus] # x
  BY <1>4, <1>9, Names DEF Handling
<1>12. Contents' /\ FreshMessages'
  <2>1. WellMade(msg'[x]) /\ msg'[x].src \in Tasks
    BY <1>5, <1>6, <1>7
  <2>2. \A m \in Messages : m # x /\ m \notin Range(free') => m \notin Range(free)
    BY <1>1, <1>4
  <2>3. \A u \in Tasks :
          /\ pc'[u] = "test" => pc[u] = "test" /\ mine'[u] = mine[u]
          /\ pc'[u] = "invoke" =>
               (pc[u] = "invoke" /\ mine'[u] = mine[u] /\ mine[u] # x) \/ mine'[u] = x
    BY <1>4, <1>9
  <2>4. \A m \in Range(queue'[Bus]) : m # x /\ m \in Range(queue[Bus])
    BY <1>1, <1>4, Names
  <2>5. QED
    BY <1>1, <1>7, <1>10, <1>11, <2>1, <2>2, <2>3, <2>4, WrittenContents
<1>13. PoolTypes'
  BY <1>1, <1>4, <1>7 DEF BusInv, PoolTypes
<1>14. BusTypes'
  BY <1>1, <1>11 DEF BusInv, BusTypes
<1>15. Core'
  BY <1>8, <1>12, <1>13, <1>14 DEF Core
<1>16. pc' \in [Tasks -> Labels] /\ mine' \in [Tasks -> Messages]
  BY <1>1, <1>2, <1>3 DEF Labels
<1>17. \A u \in Tasks : pc'[u] \in {"replicate", "release_call", "dead"} => u = Bus
  BY <1>9 DEF BusInv, TaskTypes
<1>18. TaskTypes'
  BY <1>1, <1>16, <1>17 DEF BusInv, TaskTypes
<1>19. HistoryTypes'
  BY <1>1 DEF BusInv, HistoryTypes
<1>20. Arguments'
  BY <1>1, <1>9, OtherArguments DEF BusInv
<1>21. QED
  BY <1>15, <1>18, <1>19, <1>20, Together

LEMMA InvokePostStep ==
  ASSUME BusInv, NEW t \in Tasks, InvokePost(t)
  PROVE  BusInv'
<1>1. /\ pc \in [Tasks -> Labels] /\ mine \in [Tasks -> Messages] /\ PoolTypes /\ Accounts
      /\ msg \in [Messages -> MessageSet] /\ OnePlace /\ NoRepeats
      /\ queue \in [Tasks -> Seq(Messages)] /\ \A u \in Tasks : Len(queue[u]) <= QueueSize
  BY DEF BusInv, TaskTypes, PoolTypes, Accounts
<1>2. PICK x \in Messages : x = mine[t]
  BY <1>1
<1>3. PICK d \in Tasks : d = IF msg[x].dst = NULL THEN Bus ELSE msg[x].dst
  BY <1>1, Names DEF MessageSet
<1>4. /\ pc[t] = "invoke" /\ pc' = [pc EXCEPT ![t] = "test"]
      /\ msg' = [msg EXCEPT ![x].dst = d]
      /\ template_msg_post(d, x)
      /\ UNCHANGED <<free, mine, cur, calls, publish, todo>>
      /\ UNCHANGED <<sequence, ret, arg, waitOn, op, out, deferred, issued, callSem>>
      /\ UNCHANGED <<heap, executed, result, faults>>
  BY <1>2, <1>3 DEF InvokePost, At, Goto, busVars, taskVars, history
<1> DEFINE r == [msg[x] EXCEPT !.dst = d]
<1>5. msg' = [msg EXCEPT ![x] = r]
  BY <1>4
<1>6. /\ r \in MessageSet /\ r.ref = msg[x].ref /\ r.type = msg[x].type
      /\ r.load = msg[x].load /\ r.extra = msg[x].extra /\ r.src = msg[x].src
  BY <1>1 DEF MessageSet
<1> HIDE DEF r
<1>7. /\ msg' \in [Messages -> MessageSet] /\ msg'[x] = r
      /\ \A m \in Messages : m # x => msg'[m] = msg[m]
  BY <1>1, <1>5, <1>6
<1>8. Fresh(x)
  BY <1>2, <1>4 DEF BusInv, FreshMessages
<1>9. \A m \in Messages : msg'[m].ref = msg[m].ref
  BY <1>6, <1>7
<1>10. Accounts'
  BY <1>1, <1>2, <1>4, <1>8, <1>9, PostAccounts
<1>11. IsAt(x, "sender", t)
  BY <1>2, <1>4 DEF IsAt
<1>12. /\ x \notin Range(free)
       /\ \A u \in Tasks : /\ x \notin Range(queue[u])
                           /\ Handling(u) => cur[u] # x
                           /\ pc[u] = "invoke" /\ mine[u] = x => u = t
  BY <1>1, <1>11, PlacesApart DEF Kinds
<1>13. pc'[t] = "test" /\ \A u \in Tasks : u # t => pc'[u] = pc[u]
  BY <1>1, <1>4
<1>14. /\ queue' \in [Tasks -> Seq(Messages)]
       /\ \A u \in Tasks : Len(queue'[u]) <= QueueSize
       /\ lost' \subseteq lost \cup {x}
       /\ \A u \in Tasks : Range(queue'[u]) \subseteq Range(queue[u]) \cup {x}
  <2>1. /\ queue' \in [Tasks -> Seq(Messages)]
        /\ \A u \in Tasks : Len(queue'[u]) <= QueueSize
        /\ \/ /\ lost' = lost
              /\ \A u \in Tasks : u # d => queue'[u] = queue[u]
              /\ Range(queue'[d]) = Range(queue[d]) \cup {x}
           \/ /\ lost' = lost \cup {x} /\ queue' = queue
    BY <1>1, <1>4, <1>12, PostedQueue
  <2>2. QED
    BY <2>1
<1>15. pc'[Bus] = "replicate" => pc[Bus] = "replicate" /\ cur[Bus] # x
  BY <1>12, <1>13, Names DEF Handling
<1>16. Fresh(x)'
  BY <1>6, <1>7, <1>8 DEF Fresh
<1>17. Contents' /\ FreshMessages'
  <2>1. WellMade(msg[x]) /\ msg[x].src \in Tasks
    BY <1>12 DEF BusInv, Contents
  <2>2. WellMade(msg'[x]) /\ msg'[x].src \in Tasks
    BY <1>6, <1>7, <2>1 DEF WellMade
  <2>3. \A u \in Tasks :
          /\ pc'[u] = "test" => (pc[u] = "test" /\ mine'[u] = mine[u]) \/ mine'[u] = x
          /\ pc'[u] = "invoke" => pc[u] = "invoke" /\ mine'[u] = mine[u] /\ mine[u] # x
    BY <1>2, <1>4, <1>12, <1>13
  <2>4. \A m \in Range(queue'[Bus]) : (m # x /\ m \in Range(queue[Bus])) \/ m = x
    BY <1>14, Names
  <2>5. QED
    BY <1>4, <1>7, <1>15, <1>16, <2>2, <2>3, <2>4, WrittenContents
<1>18. PoolTypes'
  BY <1>4, <1>7, <1>14 DEF BusInv, PoolTypes
<1>19. BusTypes'
  BY <1>4, <1>15 DEF BusInv, BusTypes
<1>20. Core'
  BY <1>10, <1>17, <1>18, <1>19 DEF Core
<1>21. pc' \in [Tasks -> Labels]
  BY <1>1, <1>4 DEF Labels
<1>22. TaskTypes'
  BY <1>4, <1>13, <1>21 DEF BusInv, TaskTypes
<1>23. HistoryTypes'
  BY <1>4 DEF BusInv, HistoryTypes
<1>24. Arguments'
  BY <1>4, <1>13, OtherArguments DEF BusInv
<1>25. QED
  BY <1>20, <1>22, <1>23, <1>24, Together

LEMMA BusReplicateStep ==
  ASSUME BusInv, BusReplicate
  PROVE  BusInv'
<1>1. /\ pc \in [Tasks -> Labels] /\ mine \in [Tasks -> Messages] /\ PoolTypes /\ Accounts
      /\ cur \in [Tasks -> Messages]
      /\ msg \in [Messages -> MessageSet] /\ OnePlace /\ NoRepeats /\ Bus \in Tasks
      /\ queue \in [Tasks -> Seq(Messages)] /\ \A u \in Tasks : Len(queue[u]) <= QueueSize
      /\ todo \in Seq(Workers)
  BY Names DEF BusInv, TaskTypes, PoolTypes, BusTypes, Accounts
<1>2. PICK s \in Messages : s = cur[Bus]
  BY <1>1
<1>3. pc[Bus] = "replicate" /\ free # << >> /\ todo # << >>
  BY DEF BusReplicate, At, BusInv, BusTypes
<1>4. PICK x \in Messages : x = Head(free)
  BY <1>1, <1>3, FreeHead
<1>5. /\ Head(todo) \in Workers /\ Tail(todo) \in Seq(Workers)
      /\ Len(todo) # 1 => Tail(todo) # << >>
  <2>1. /\ Head(todo) \in Workers /\ Tail(todo) \in Seq(Workers)
        /\ Len(Tail(todo)) = Len(todo) - 1 /\ Len(todo) \in Nat
    BY <1>1, <1>3, HeadTailProperties, LenProperties
  <2>2. Len(todo) # 1 => Len(Tail(todo)) # 0
    BY <2>1
  <2>3. QED
    BY <2>1, <2>2, EmptySeq
<1>6. PICK d \in Workers : d = Head(todo)
  BY <1>5
<1>7. d \in Tasks /\ d # Bus
  BY Names
<1> DEFINE r == [msg[s] EXCEPT !.ref = GetRef(s), !.dst = d]
           label == IF Len(todo) = 1 THEN "bus_end" ELSE "replicate"
<1>8. /\ msg' = [msg EXCEPT ![x] = r]
      /\ template_msg_post(d, x)
      /\ free' = Tail(free) /\ todo' = Tail(todo)
      /\ pc' = [pc EXCEPT ![Bus] = label]
      /\ UNCHANGED <<mine, cur, calls, publish>>
      /\ UNCHANGED <<sequence, ret, arg, waitOn, op, out, deferred, issued, callSem>>
      /\ UNCHANGED <<heap, executed, result, faults>>
  BY <1>2, <1>4, <1>6 DEF BusReplicate, Goto, taskVars, history
<1>9. /\ x \in Range(free) /\ Tail(free) \in Seq(Messages)
      /\ Range(Tail(free)) = Range(free) \ {x}
      /\ \A u \in Tasks : /\ x \notin Range(queue[u])
                          /\ Handling(u) => cur[u] # x
                          /\ pc[u] = "invoke" => mine[u] # x
  BY <1>1, <1>3, <1>4, FreeHead
<1>10. /\ Handling(Bus) /\ IsAt(s, "handler", Bus) /\ s # x
  BY <1>1, <1>2, <1>3, <1>9 DEF Handling, IsAt
<1>11. s \notin Range(free)
  BY <1>1, <1>10, PlacesApart DEF Kinds
<1>12. WellMade(msg[s]) /\ msg[s].src \in Tasks
  BY <1>11 DEF BusInv, Contents
<1>13. msg[s].ref = 0
  BY <1>2, <1>3 DEF BusInv, FreshMessages
<1>14. GetRef(s) = 1
  BY <1>13 DEF GetRef
<1>15. /\ r \in MessageSet /\ r.ref = 1 /\ r.type = msg[s].type /\ r.load = msg[s].load
       /\ r.extra = msg[s].extra /\ r.src = msg[s].src
  <2>1. r = [msg[s] EXCEPT !.ref = 1, !.dst = d]
    BY <1>14
  <2>2. msg[s] \in MessageSet /\ 1 \in 0 .. 2
    BY <1>1
  <2> HIDE DEF r
  <2>3. r = [seq |-> msg[s].seq, ref |-> 1, type |-> msg[s].type,
             major |-> msg[s].major, minor |-> msg[s].minor, src |-> msg[s].src,
             dst |-> d, load |-> msg[s].load, extra |-> msg[s].extra]
    BY <2>1, <2>2 DEF MessageSet
  <2>4. QED
    BY <2>2, <2>3, <1>7 DEF MessageSet
<1> HIDE DEF r
<1>16. /\ msg' \in [Messages -> MessageSet] /\ msg'[x] = r
       /\ \A m \in Messages : m # x => msg'[m] = msg[m]
  BY <1>1, <1>8, <1>15
<1>17. /\ pc'[Bus] = label /\ label \in {"bus_end", "replicate"}
       /\ \A u \in Tasks : u # Bus => pc'[u] = pc[u]
  BY <1>1, <1>8
<1> HIDE DEF label
<1>18. Accounts'
  BY <1>1, <1>3, <1>4, <1>7, <1>8, <1>15, <1>16, <1>17, ReplicateAccounts
<1>19. /\ queue' \in [Tasks -> Seq(Messages)]
       /\ \A u \in Tasks : Len(queue'[u]) <= QueueSize
       /\ lost' \subseteq lost \cup {x}
       /\ queue'[Bus] = queue[Bus]
  <2>1. /\ queue' \in [Tasks -> Seq(Messages)]
        /\ \A u \in Tasks : Len(queue'[u]) <= QueueSize
        /\ \/ /\ lost' = lost
              /\ \A u \in Tasks : u # d => queue'[u] = queue[u]
              /\ Range(queue'[d]) = Range(queue[d]) \cup {x}
           \/ /\ lost' = lost \cup {x} /\ queue' = queue
    BY <1>1, <1>7, <1>8, <1>9, PostedQueue
  <2>2. QED
    BY <2>1, <1>1, <1>7
<1>20. Contents' /\ FreshMessages'
  <2>1. WellMade(msg'[x]) /\ msg'[x].src \in Tasks
    BY <1>12, <1>15, <1>16 DEF WellMade
  <2>2. \A m \in Messages : m # x /\ m \notin Range(free') => m \notin Range(free)
    BY <1>8, <1>9
  <2>3. \A u \in Tasks :
          /\ pc'[u] = "test" => pc[u] = "test" /\ mine'[u] = mine[u]
          /\ pc'[u] = "invoke" => pc[u] = "invoke" /\ mine'[u] = mine[u] /\ mine[u] # x
    BY <1>8, <1>9, <1>17
  <2>4. \A m \in Range(queue'[Bus]) : m # x /\ m \in Range(queue[Bus])
    BY <1>1, <1>9, <1>19
  <2>5. pc'[Bus] = "replicate" =>
          pc[Bus] = "replicate" /\ cur'[Bus] = cur[Bus] /\ cur[Bus] # x
    BY <1>2, <1>3, <1>8, <1>10
  <2>6. QED
    BY <1>16, <2>1, <2>2, <2>3, <2>4, <2>5, WrittenContents
<1>21. PoolTypes'
  BY <1>8, <1>9, <1>16, <1>19 DEF BusInv, PoolTypes
<1>22. BusTypes'
  BY <1>5, <1>8, <1>17 DEF BusInv, BusTypes, label
<1>23. Core'
  BY <1>18, <1>20, <1>21, <1>22 DEF Core
<1>24. pc' \in [Tasks -> Labels]
  BY <1>1, <1>8, <1>17 DEF Labels
<1>25. \A u \in Tasks : pc'[u] \in {"replicate", "release_call", "dead"} => u = Bus
  BY <1>17 DEF BusInv, TaskTypes
<1>26. TaskTypes'
  BY <1>8, <1>24, <1>25 DEF BusInv, TaskTypes
<1>27. HistoryTypes'
  BY <1>8 DEF BusInv, HistoryTypes
<1>28. Arguments'
  BY <1>1, <1>8, <1>17, OtherArguments DEF BusInv
<1>29. QED
  BY <1>23, <1>26, <1>27, <1>28, Together

LEMMA BusCallStep ==
  ASSUME BusInv, BusCall
  PROVE  BusInv'
<1>1. /\ pc \in [Tasks -> Labels] /\ mine \in [Tasks -> Messages] /\ PoolTypes /\ Accounts
      /\ cur \in [Tasks -> Messages] /\ BusTypes
      /\ msg \in [Messages -> MessageSet] /\ OnePlace /\ NoRepeats /\ Bus \in Tasks
      /\ queue \in [Tasks -> Seq(Messages)] /\ \A u \in Tasks : Len(queue[u]) <= QueueSize
      /\ calls \in [Workers -> Seq(CallSet)]
  BY Names DEF BusInv, TaskTypes, PoolTypes, BusTypes, Accounts
<1>2. pc[Bus] = "idle" /\ queue[Bus] # << >> /\ Major \in Registered
  BY DEF BusCall, At
<1>3. PICK x \in Messages : x = Head(queue[Bus])
  BY <1>1, <1>2, QueueHead
<1>4. PICK w \in Workers : w = Major
  BY <1>2, TasksAssumption
<1>5. w \in Tasks /\ w # Bus
  BY Names
<1> DEFINE r == [msg[x] EXCEPT !.ref = GetRef(x), !.dst = w]
           call == [m |-> x, type |-> msg[x].type, info |-> msg[x].extra]
<1>6. /\ msg[x].type \in Calls
      /\ calls' = [calls EXCEPT ![w] = Append(calls[w], call)]
      /\ cur' = [cur EXCEPT ![Bus] = x]
      /\ lost' = IF Fits(w) THEN lost ELSE lost \cup {x}
      /\ pc' = pc /\ free' = free /\ mine' = mine
      /\ UNCHANGED <<publish, todo>>
      /\ UNCHANGED <<sequence, ret, arg, waitOn, op, out, deferred, issued, callSem>>
      /\ UNCHANGED <<heap, executed, result, faults>>
  BY <1>3, <1>4 DEF BusCall, Set, history
<1>7. msg' = [msg EXCEPT ![x] = r]
  BY <1>3, <1>4 DEF BusCall
<1>8. /\ queue'[Bus] = Tail(queue[Bus])
      /\ \A u \in Tasks : u # Bus /\ u # w => queue'[u] = queue[u]
      /\ queue'[w] = IF Fits(w) THEN Append(queue[w], x) ELSE queue[w]
      /\ DOMAIN queue' = Tasks
  <2>1. queue' = [queue EXCEPT ![Bus] = Tail(@), ![w] = IF Fits(w) THEN Append(@, x) ELSE @]
    BY <1>3, <1>4 DEF BusCall
  <2>2. QED
    BY <2>1, <1>1, <1>5
<1>9. Fresh(x) /\ WellMade(msg[x]) /\ msg[x].src \in Tasks
  BY <1>1, <1>2, <1>3, TakenMade
<1>10. msg[x].ref = 1
  BY <1>6, <1>9 DEF Fresh
<1>11. GetRef(x) = 2
  BY <1>10 DEF GetRef
<1>12. /\ r \in MessageSet /\ r.ref = 2 /\ r.type = msg[x].type /\ r.load = msg[x].load
       /\ r.extra = msg[x].extra /\ r.src = msg[x].src
  <2>1. r = [msg[x] EXCEPT !.ref = 2, !.dst = w]
    BY <1>11
  <2>2. msg[x] \in MessageSet /\ 2 \in 0 .. 2
    BY <1>1
  <2> HIDE DEF r
  <2>3. r = [seq |-> msg[x].seq, ref |-> 2, type |-> msg[x].type,
             major |-> msg[x].major, minor |-> msg[x].minor, src |-> msg[x].src,
             dst |-> w, load |-> msg[x].load, extra |-> msg[x].extra]
    BY <2>1, <2>2 DEF MessageSet
  <2>4. QED
    BY <2>2, <2>3, <1>5 DEF MessageSet
<1>13. call \in CallSet /\ call.m = x
  BY <1>6, <1>9 DEF CallSet, WellMade
<1> HIDE DEF r, call
<1>14. /\ msg' \in [Messages -> MessageSet] /\ msg'[x] = r
       /\ \A m \in Messages : m # x => msg'[m] = msg[m]
  BY <1>1, <1>7, <1>12
<1>15. Accounts'
  <2>1. \/ lost' = lost /\ queue'[w] = Append(queue[w], x)
        \/ lost' = lost \cup {x} /\ queue'[w] = queue[w]
    BY <1>6, <1>8
  <2>2. QED
    <3>1. /\ msg'[x].ref = 2 /\ ret' = ret /\ pc' = pc /\ free' = free /\ mine' = mine
          /\ calls' = [calls EXCEPT ![w] = Append(calls[w], call)]
          /\ cur' = [cur EXCEPT ![Bus] = x]
      BY <1>6, <1>12, <1>14
    <3>2. /\ msg[Head(queue[Bus])].ref = 1 /\ msg'[Head(queue[Bus])].ref = 2
          /\ call.m = Head(queue[Bus])
          /\ \A m \in Messages : m # Head(queue[Bus]) => msg'[m] = msg[m]
          /\ cur' = [cur EXCEPT ![Bus] = Head(queue[Bus])]
          /\ \/ lost' = lost /\ queue'[w] = Append(queue[w], Head(queue[Bus]))
             \/ lost' = lost \cup {Head(queue[Bus])} /\ queue'[w] = queue[w]
      BY <1>3, <1>10, <1>13, <1>14, <2>1, <3>1
    <3>3. queue'[Bus] = Tail(queue[Bus]) /\ \A u \in Tasks : u # Bus /\ u # w => queue'[u] = queue[u]
      BY <1>8
    <3>4. QED
      BY <1>1, <1>2, <1>13, <3>1, <3>2, <3>3, CallAccounts
<1>16. /\ IsAt(x, "queue", Bus) /\ Tail(queue[Bus]) \in Seq(Messages)
       /\ Len(Tail(queue[Bus])) < Len(queue[Bus])
       /\ Range(Tail(queue[Bus])) = Range(queue[Bus]) \ {x}
  BY <1>1, <1>2, <1>3, QueueHead
<1>17. /\ queue' \in [Tasks -> Seq(Messages)]
       /\ \A u \in Tasks : Len(queue'[u]) <= QueueSize
  <2>1. /\ queue[Bus] \in Seq(Messages) /\ queue[w] \in Seq(Messages)
        /\ Len(queue[Bus]) \in Nat /\ Len(Tail(queue[Bus])) \in Nat /\ Len(queue[w]) \in Nat
        /\ Len(queue[Bus]) <= QueueSize /\ Len(queue[w]) <= QueueSize
    BY <1>1, <1>5, <1>16, LenProperties
  <2>2. Len(Tail(queue[Bus])) <= QueueSize
    BY <1>16, <2>1, SizesAssumption
  <2>3. Append(queue[w], x) \in Seq(Messages) /\ Len(Append(queue[w], x)) = Len(queue[w]) + 1
    BY <2>1, EndAdded
  <2>4. Fits(w) => Len(Append(queue[w], x)) <= QueueSize
    BY <2>1, <2>3, SizesAssumption DEF Fits
  <2>5. ASSUME NEW u \in Tasks
        PROVE  queue'[u] \in Seq(Messages) /\ Len(queue'[u]) <= QueueSize
    <3>1. CASE u = Bus
      BY <3>1, <1>8, <1>16, <2>2
    <3>2. CASE u = w
      <4>1. CASE Fits(w)
        BY <3>2, <4>1, <1>8, <2>3, <2>4
      <4>2. CASE ~Fits(w)
        BY <3>2, <4>2, <1>8, <2>1
      <4>3. QED
        BY <4>1, <4>2
    <3>3. CASE u # Bus /\ u # w
      BY <3>3, <1>1, <1>8
    <3>4. QED
      BY <3>1, <3>2, <3>3
  <2>6. queue' = [u \in Tasks |-> queue'[u]]
    <3>1. queue' = [queue EXCEPT ![Bus] = Tail(@), ![w] = IF Fits(w) THEN Append(@, x) ELSE @]
      BY <1>3, <1>4 DEF BusCall
    <3>2. QED
      BY <3>1, <1>1
  <2>7. QED
    BY <2>5, <2>6
<1>18. Contents' /\ FreshMessages'
  <2>1. WellMade(msg'[x]) /\ msg'[x].src \in Tasks
    BY <1>9, <1>12, <1>14 DEF WellMade
  <2>2. \A u \in Tasks : /\ pc'[u] = pc[u] /\ mine'[u] = mine[u]
                         /\ pc[u] = "invoke" => mine[u] # x
    BY <1>1, <1>6, <1>16, PlacesApart DEF Kinds
  <2>3. \A m \in Range(queue'[Bus]) : m # x /\ m \in Range(queue[Bus])
    BY <1>8, <1>16
  <2>4. pc'[Bus] # "replicate"
    BY <1>2, <1>6
  <2>5. QED
    BY <1>6, <1>14, <2>1, <2>2, <2>3, <2>4, WrittenContents
<1>19. PoolTypes'
  BY <1>6, <1>14, <1>17 DEF BusInv, PoolTypes
<1>20. BusTypes'
  <2>1. Append(calls[w], call) \in Seq(CallSet)
    <3>1. calls[w] \in Seq(CallSet)
      BY <1>1
    <3> HIDE DEF CallSet
    <3>2. QED
      BY <3>1, <1>13, AppendProperties
  <2>2. calls' \in [Workers -> Seq(CallSet)]
    BY <1>1, <1>6, <2>1
  <2>3. QED
    BY <1>6, <2>2 DEF BusInv, BusTypes
<1>21. Core'
  BY <1>15, <1>18, <1>19, <1>20 DEF Core
<1>22. cur' \in [Tasks -> Messages]
  BY <1>1, <1>6
<1>23. TaskTypes'
  BY <1>6, <1>22 DEF BusInv, TaskTypes
<1>24. HistoryTypes'
  BY <1>6 DEF BusInv, HistoryTypes
<1>25. Arguments'
  BY <1>6 DEF BusInv, Arguments, WellMade
<1>26. QED
  BY <1>21, <1>23, <1>24, <1>25, Together

LEMMA BusReturnStep ==
  ASSUME BusInv, BusReturn
  PROVE  BusInv'
<1>1. /\ pc \in [Tasks -> Labels] /\ mine \in [Tasks -> Messages] /\ PoolTypes /\ Accounts
      /\ cur \in [Tasks -> Messages] /\ BusTypes
      /\ msg \in [Messages -> MessageSet] /\ OnePlace /\ NoRepeats /\ Bus \in Tasks
      /\ queue \in [Tasks -> Seq(Messages)] /\ calls \in [Workers -> Seq(CallSet)]
      /\ out \in [Tasks -> Values] /\ callSem \in [Tasks -> Nat]
      /\ result \in [Requests -> Values]
      /\ faults \subseteq {"double_free", "null_replica", "dead_frame"}
  BY Names DEF BusInv, TaskTypes, PoolTypes, BusTypes, HistoryTypes, Accounts
<1>2. /\ pc[Bus] = "idle" /\ queue[Bus] # << >>
      /\ cur' = [cur EXCEPT ![Bus] = Head(queue[Bus])]
      /\ queue' = [queue EXCEPT ![Bus] = Tail(queue[Bus])]
      /\ Matching(Major, msg[Head(queue[Bus])].seq) # {}
      /\ pc' = [pc EXCEPT ![Bus] = "release_call"]
      /\ UNCHANGED <<msg, free, publish, todo, lost>>
      /\ UNCHANGED <<sequence, ret, arg, waitOn, op, deferred, issued>>
      /\ UNCHANGED <<heap, executed>>
  BY DEF BusReturn, Receive, Set, At, Goto, poolVars
<1>3. PICK x \in Messages : x = Head(queue[Bus])
  BY <1>1, <1>2, QueueHead
<1>4. PICK w \in Workers : w = Major
  BY <1>1, <1>3 DEF Major, MessageSet
<1>5. calls[w] \in Seq(CallSet) /\ Len(calls[w]) \in Nat /\ DOMAIN calls[w] = 1 .. Len(calls[w])
  BY <1>1, LenProperties
<1>6. PICK i \in 1 .. Len(calls[w]) : i = First(Matching(Major, msg[Head(queue[Bus])].seq))
  <2>1. Matching(Major, msg[Head(queue[Bus])].seq) \subseteq 1 .. Len(calls[w])
    BY <1>4, <1>5 DEF Matching
  <2>2. 1 .. Len(calls[w]) \subseteq Nat
    OBVIOUS
  <2>3. QED
    BY <2>1, <2>2, <1>2, FirstFound
<1>7. calls[w][i] \in CallSet
  BY <1>5, ElementOfSeq
<1>8. PICK call \in CallSet : call = calls[w][i]
  BY <1>7
<1>9. call.m \in Messages /\ call.info \in Requests
  BY DEF CallSet
<1>10. /\ calls' = [calls EXCEPT ![w] = Without(calls[w], i)]
       /\ mine' = [mine EXCEPT ![Bus] = calls[w][i].m]
       /\ \/ /\ out' = [out EXCEPT ![msg[call.m].src] = msg[x].load] \/ out' = out
             /\ faults' \subseteq faults \cup {"dead_frame"}
             /\ callSem' = [callSem EXCEPT ![msg[call.m].src] = callSem[msg[call.m].src] + 1]
             /\ result' = result
          \/ /\ result' = [result EXCEPT ![call.info] = msg[x].load]
             /\ UNCHANGED <<out, callSem, faults>>
  BY <1>3, <1>4, <1>6, <1>8 DEF BusReturn, Notify, Set
<1>11. Accounts'
  BY <1>1, <1>2, <1>6, <1>10, ReturnAccounts
<1>12. Waits(call.m, w) /\ Awaited(call.m)
  BY <1>5, <1>8, Names DEF Waits, Awaited
<1>13. call.m \notin Range(free)
  BY <1>1, <1>9, <1>12 DEF Accounts, AllCounted, Counted
<1>14. msg[call.m].src \in Tasks /\ msg[x].load \in Values
  BY <1>1, <1>9, <1>13 DEF BusInv, Contents, MessageSet
<1>15. out' \in [Tasks -> Values] /\ callSem' \in [Tasks -> Nat]
  <2>1. PICK task \in Tasks, v \in Values : task = msg[call.m].src /\ v = msg[x].load
    BY <1>14
  <2>2. /\ out' = [out EXCEPT ![task] = v] \/ out' = out
        /\ callSem' = [callSem EXCEPT ![task] = callSem[task] + 1] \/ callSem' = callSem
    BY <1>10, <2>1
  <2>3. out' \in [Tasks -> Values]
    BY <1>1, <2>2
  <2>4. callSem[task] + 1 \in Nat
    BY <1>1
  <2>5. callSem' \in [Tasks -> Nat]
    BY <1>1, <2>2, <2>4
  <2>6. QED
    BY <2>3, <2>5
<1>16. result' \in [Requests -> Values]
  BY <1>1, <1>9, <1>10, <1>14
<1>17. faults' \subseteq {"double_free", "null_replica", "dead_frame"}
  BY <1>1, <1>10
<1>18. /\ queue' \in [Tasks -> Seq(Messages)]
       /\ \A u \in Tasks : Len(queue'[u]) <= QueueSize
       /\ Range(queue'[Bus]) = Range(queue[Bus]) \ {x}
  BY <1>1, <1>2, <1>3, TakenTypes
<1>19. /\ pc'[Bus] = "release_call"
       /\ \A u \in Tasks : u # Bus => pc'[u] = pc[u] /\ mine'[u] = mine[u]
       /\ mine' \in [Tasks -> Messages] /\ pc' \in [Tasks -> Labels]
  BY <1>1, <1>2, <1>8, <1>9, <1>10 DEF Labels
<1>20. PoolTypes'
  BY <1>2, <1>18 DEF BusInv, PoolTypes
<1>21. BusTypes'
  <2>1. Without(calls[w], i) \in Seq(CallSet)
    BY <1>5, OneTakenOff
  <2>2. calls' \in [Workers -> Seq(CallSet)]
    BY <1>1, <1>10, <2>1
  <2>3. QED
    BY <1>2, <1>19, <2>2 DEF BusInv, BusTypes
<1>22. \A u \in Tasks : pc'[u] \in {"invoke", "test", "replicate"} =>
         pc[u] = pc'[u] /\ mine'[u] = mine[u] /\ u # Bus
  BY <1>19
<1>23. Contents'
  BY <1>2, <1>22 DEF BusInv, Contents, WellMade
<1>24. FreshMessages'
  BY <1>2, <1>18, <1>19, <1>22 DEF BusInv, FreshMessages, Fresh
<1>25. Core'
  BY <1>11, <1>20, <1>21, <1>23, <1>24 DEF Core
<1>26. cur' \in [Tasks -> Messages]
  BY <1>1, <1>2, CurTyped
<1>27. \A u \in Tasks : pc'[u] \in {"replicate", "release_call", "dead"} => u = Bus
  BY <1>19 DEF BusInv, TaskTypes
<1>28. TaskTypes'
  BY <1>2, <1>15, <1>19, <1>26, <1>27 DEF BusInv, TaskTypes
<1>29. HistoryTypes'
  BY <1>2, <1>16, <1>17 DEF BusInv, HistoryTypes
<1>30. Arguments'
  <2>1. \A u \in Tasks : u # Bus => pc'[u] = pc[u] /\ arg'[u] = arg[u]
    BY <1>2, <1>19
  <2>2. QED
    BY <1>1, <1>19, <2>1, OtherArguments DEF BusInv
<1>31. QED
  BY <1>25, <1>28, <1>29, <1>30, Together

(***************************************************************************)
(* The invariant holds at first and every step keeps it.                   *)
(***************************************************************************)
LEMMA SendSteps ==
  ASSUME BusInv, NEW t \in Tasks, SendStep(t)
  PROVE  BusInv'
BY SequenceIncrementStep, SequenceReturnStep, InitMessageStep, NoMessageStep,
   InvokePostStep, InvokeTestStep, InvokePendStep DEF SendStep

LEMMA WorkerSteps ==
  ASSUME BusInv, NEW w \in Workers, WorkerStep(w)
  PROVE  BusInv'
BY Names, SendSteps, RequestEndStep, HandleCallStep, HandleSignalStep, HandlerEndStep,
   AnswerDeferredStep DEF WorkerStep

LEMMA BusSteps ==
  ASSUME BusInv, BusStep
  PROVE  BusInv'
BY Names, SendSteps, BusSubscribeStep, BusSignalNobodyStep, BusSignalStep, BusReplicateStep,
   BusReplicateNullStep, BusCallUnknownStep, BusCallStep, BusReturnNoneStep,
   BusReturnStrayStep, BusReturnStep, BusReleaseCallStep, BusEndStep DEF BusStep

LEMMA SameState ==
  ASSUME BusInv, UNCHANGED vars
  PROVE  BusInv'
<1>1. /\ UNCHANGED <<msg, free, queue, lost, sequence, publish, calls, todo>>
      /\ UNCHANGED <<pc, ret, arg, mine, cur, waitOn, op, out, deferred, issued, callSem>>
      /\ UNCHANGED <<heap, executed, result, faults>>
  BY DEF vars, poolVars, busVars, taskVars, history
<1>2. PoolTypes' /\ BusTypes' /\ TaskTypes' /\ HistoryTypes'
  BY <1>1 DEF BusInv, PoolTypes, BusTypes, TaskTypes, HistoryTypes
<1>3. Arguments' /\ Contents' /\ FreshMessages'
  BY <1>1 DEF BusInv, Arguments, Contents, WellMade, FreshMessages, Fresh
<1>4. \A m, k, t : (IsAt(m, k, t)' <=> IsAt(m, k, t)) /\ (Waits(m, t)' <=> Waits(m, t))
  BY <1>1 DEF IsAt, Waits, Handling
<1>5. OnePlace' /\ OneWaiter' /\ NoRepeats' /\ NoCallTwice'
  <2>1. OnePlace /\ OneWaiter /\ NoRepeats /\ NoCallTwice
    BY DEF BusInv, Accounts
  <2>2. OnePlace'
    <3>1. Stays
      BY <1>4 DEF Stays
    <3>2. QED
      BY <2>1, <3>1, AfterStays
  <2>3. OneWaiter'
    BY <1>4, <2>1, Zenon DEF OneWaiter
  <2>4. NoRepeats' /\ NoCallTwice'
    BY <1>1, <2>1 DEF NoRepeats, NoCallTwice
  <2>5. QED
    BY <2>2, <2>3, <2>4
<1>6. AllCounted'
  BY <1>1, <1>4 DEF BusInv, Accounts, AllCounted, Counted, Held, Awaited
<1>7. QED
  BY <1>2, <1>3, <1>5, <1>6 DEF BusInv, Accounts

(* The invariant is inductive: each of send_message's steps, the workers'  *)
(* handlers and the bus's handlers keeps it.                               *)
THEOREM NextBusInv == BusInv /\ [Next]_vars => BusInv'
<1>1. SUFFICES ASSUME BusInv, [Next]_vars
               PROVE  BusInv'
  OBVIOUS
<1>2. CASE BusStep
  BY <1>1, <1>2, BusSteps
<1>3. CASE \E w \in Workers : WorkerStep(w) \/ \E o \in Ops[w] : MakeRequest(w, o)
  BY <1>1, <1>3, WorkerSteps, MakeRequestStep
<1>4. CASE Finished \/ UNCHANGED vars
  BY <1>1, <1>4, SameState DEF Finished
<1>5. QED
  BY <1>1, <1>2, <1>3, <1>4 DEF Next

(* All messages are on the free list and no task has one.                  *)
THEOREM InitBusInv == Init => BusInv
<1>1. SUFFICES ASSUME Init
               PROVE  BusInv
  OBVIOUS
<1>2. /\ PoolSize \in Nat /\ 1 \in Messages /\ 0 \in 0 .. SeqLimit - 1 /\ QueueSize \in Nat
  BY SizesAssumption DEF Messages
<1>3. free = [i \in Messages |-> i] /\ DOMAIN free = Messages /\ Range(free) = Messages
  BY <1>1 DEF Init, Range, Messages
<1>4. /\ msg = [m \in Messages |-> [seq |-> 0, ref |-> 0, type |-> "SUBSCRIBE",
                                    major |-> LogService, minor |-> "unknown",
                                    src |-> NULL, dst |-> NULL, load |-> NULL,
                                    extra |-> NULL]]
      /\ arg = [t \in Tasks |-> [type |-> "SUBSCRIBE", major |-> LogService,
                                 minor |-> "unknown", dst |-> NULL, seq |-> 0,
                                 load |-> NULL, extra |-> NULL]]
      /\ sequence = 0 /\ queue = [t \in Tasks |-> << >>] /\ callSem = [t \in Tasks |-> 0]
      /\ publish = [w \in Workers |-> << >>] /\ calls = [w \in Workers |-> << >>]
      /\ pc = [t \in Tasks |-> "idle"] /\ ret = [t \in Tasks |-> "idle"]
      /\ mine = [t \in Tasks |-> 1] /\ cur = [t \in Tasks |-> 1] /\ todo = << >>
      /\ waitOn = [t \in Tasks |-> t] /\ op = [t \in Tasks |-> NULL]
      /\ out = [t \in Tasks |-> GARBAGE] /\ deferred = [t \in Tasks |-> {}]
      /\ issued = [t \in Tasks |-> 0] /\ lost = {}
      /\ heap = {} /\ faults = {}
      /\ executed = [r \in Requests |-> 0] /\ result = [r \in Requests |-> NULL]
  BY <1>1 DEF Init
<1>5. PoolTypes
  <2>1. [seq |-> 0, ref |-> 0, type |-> "SUBSCRIBE", major |-> LogService,
         minor |-> "unknown", src |-> NULL, dst |-> NULL, load |-> NULL,
         extra |-> NULL] \in MessageSet
    BY <1>2, Names DEF MessageSet, Types, Methods, Values
  <2>2. msg \in [Messages -> MessageSet]
    BY <1>4, <2>1
  <2>3. free \in Seq(Messages)
    BY <1>2, <1>3, FunctionIsSeq DEF Messages
  <2>4. queue \in [Tasks -> Seq(Messages)] /\ \A t \in Tasks : Len(queue[t]) <= QueueSize
    BY <1>2, <1>4, EmptySeq
  <2>5. QED
    BY <2>2, <2>3, <2>4, <1>2, <1>4 DEF PoolTypes
<1>6. BusTypes
  BY <1>4, EmptySeq, Names DEF BusTypes
<1>7. TaskTypes
  <2>1. [type |-> "SUBSCRIBE", major |-> LogService, minor |-> "unknown", dst |-> NULL,
         seq |-> 0, load |-> NULL, extra |-> NULL] \in ArgumentSet
    BY <1>2, Names DEF ArgumentSet, Types, Methods, Values
  <2>2. arg \in [Tasks -> ArgumentSet]
    BY <1>4, <2>1
  <2>3. QED
    BY <1>2, <1>4, <2>2 DEF TaskTypes, Labels, Returns, Values
<1>8. HistoryTypes
  BY <1>4 DEF HistoryTypes, Values
<1>9. Arguments /\ Contents
  BY <1>3, <1>4 DEF Arguments, Contents
<1>10. \A t \in Tasks : Range(queue[t]) = {} /\ pc[t] = "idle" /\ ~Handling(t)
  BY <1>4 DEF Range, Handling, Sending
<1>11. \A m, k, t : t \in Tasks /\ IsAt(m, k, t) => k = "free" /\ t = Bus
  BY <1>10 DEF IsAt
<1>12. \A m, t : t \in Tasks => ~Waits(m, t)
  BY <1>4, <1>10, Names DEF Waits
<1>13. OnePlace /\ OneWaiter
  BY <1>11, <1>12 DEF OnePlace, OneWaiter
<1>14. NoRepeats /\ NoCallTwice
  BY <1>3, <1>4 DEF NoRepeats, NoCallTwice, IsInjective
<1>15. AllCounted
  BY <1>3, <1>4, <1>12 DEF AllCounted, Counted, Awaited
<1>16. FreshMessages
  BY <1>10, Names DEF FreshMessages
<1>17. QED
  BY <1>5, <1>6, <1>7, <1>8, <1>9, <1>13, <1>14, <1>15, <1>16 DEF BusInv, Accounts

(***************************************************************************)
(* What follows from the invariant.                                        *)
(***************************************************************************)
LEMMA InvTypes == BusInv => TypeOK
<1>1. SUFFICES ASSUME BusInv
               PROVE  TypeOK
  OBVIOUS
<1>2. PoolTypes /\ BusTypes /\ TaskTypes /\ HistoryTypes
  BY <1>1 DEF BusInv
<1>3. msg \in [Messages -> [seq : 0 .. SeqLimit - 1, ref : 0 .. 2, type : Types,
                            major : Workers, minor : Methods,
                            src : Tasks \cup {NULL}, dst : Tasks \cup {NULL},
                            load : Values, extra : Values \cup Workers]]
  BY <1>2 DEF PoolTypes, MessageSet
<1>4. /\ Range(free) \subseteq Messages /\ sequence \in 0 .. SeqLimit - 1
      /\ lost \subseteq Messages
      /\ \A t \in Tasks : Range(queue[t]) \subseteq Messages /\ Len(queue[t]) <= QueueSize
  BY <1>2, RangeWithin DEF PoolTypes
<1>5. ASSUME NEW w \in Workers
      PROVE  /\ Range(publish[w]) \subseteq Workers
             /\ Range(calls[w]) \subseteq [m : Messages, type : Calls, info : Requests]
  <2>1. publish[w] \in Seq(Workers) /\ calls[w] \in Seq(CallSet)
    BY <1>2 DEF BusTypes
  <2>2. Range(publish[w]) \subseteq Workers /\ Range(calls[w]) \subseteq CallSet
    BY <2>1, RangeWithin
  <2>3. QED
    BY <2>2 DEF CallSet
<1>6. \A t \in Tasks : deferred[t] \subseteq [m : Messages, load : Requests]
  BY <1>2 DEF TaskTypes, DeferredSet
<1>7. ret \in [Tasks -> Labels]
  BY <1>2 DEF TaskTypes, Returns, Labels
<1>8. /\ callSem \in [Tasks -> Nat] /\ pc \in [Tasks -> Labels]
      /\ mine \in [Tasks -> Messages] /\ cur \in [Tasks -> Messages]
      /\ waitOn \in [Tasks -> Tasks] /\ op \in [Tasks -> Requests \cup {NULL}]
      /\ out \in [Tasks -> Values] /\ issued \in [Tasks -> Nat]
  BY <1>2 DEF TaskTypes
<1>9. /\ heap \subseteq Requests /\ executed \in [Requests -> Nat]
      /\ result \in [Requests -> Values]
      /\ faults \subseteq {"double_free", "null_replica", "dead_frame"}
  BY <1>2 DEF HistoryTypes
<1>10. QED
  BY <1>3, <1>4, <1>5, <1>6, <1>7, <1>8, <1>9 DEF TypeOK

LEMMA AtMostOne ==
  ASSUME NEW S, \A a, b \in S : a = b
  PROVE  (S = {} => Cardinality(S) = 0) /\ (S # {} => Cardinality(S) = 1)
<1>1. S = {} => Cardinality(S) = 0
  BY FS_EmptySet
<1>2. ASSUME S # {}
      PROVE  Cardinality(S) = 1
  <2>1. PICK a : S = {a}
    BY <1>2
  <2>2. QED
    BY <2>1, FS_Singleton
<1>3. QED
  BY <1>1, <1>2

LEMMA InvAccounting == BusInv => PoolAccounting
<1>1. SUFFICES ASSUME BusInv
               PROVE  PoolAccounting
  OBVIOUS
<1>2. /\ OnePlace /\ NoRepeats /\ OneWaiter /\ NoCallTwice /\ AllCounted /\ FreshMessages
      /\ pc \in [Tasks -> Labels]
      /\ \A t \in Tasks : pc[t] \in {"replicate", "release_call", "dead"} => t = Bus
  BY <1>1 DEF BusInv, Accounts, TaskTypes
<1>3. \A i, j \in DOMAIN free : free[i] = free[j] => i = j
  BY <1>2 DEF NoRepeats, IsInjective
<1>4. Range(free) \subseteq Messages
  BY <1>1, RangeWithin DEF BusInv, PoolTypes
<1>5. Range(free) \cap lost = {}
  BY <1>2, <1>4 DEF AllCounted, Counted
<1>6. ASSUME NEW m \in Messages, m \notin lost
      PROVE  References(m) = IF m \in Range(free) THEN 0
                             ELSE IF msg[m].ref = 0 THEN 1 ELSE msg[m].ref
  <2> DEFINE q == \E t \in Tasks : IsAt(m, "queue", t)
             h == \E t \in Tasks : IsAt(m, "handler", t)
             s == \E t \in Tasks : IsAt(m, "sender", t)
             p == \E w \in Workers : Waits(m, w)
             d == Waits(m, Bus)
  <2>1. Counted(m)
    BY <1>2 DEF AllCounted
  <2>2. ~(q /\ h) /\ ~(q /\ s) /\ ~(h /\ s)
    BY <1>2 DEF OnePlace, Kinds
  <2>3. ~(p /\ d)
    BY <1>2, Names DEF OneWaiter
  <2>4. Held(m) <=> q \/ h \/ s
    BY DEF Held, Kinds
  <2>5. Awaited(m) <=> p \/ d
    BY Names DEF Awaited, Tasks
  <2>6. ~(s /\ d)
    <3>1. SUFFICES ASSUME s, d
                   PROVE  FALSE
      OBVIOUS
    <3>2. PICK t \in Tasks : pc[t] = "invoke" /\ mine[t] = m
      BY <3>1 DEF IsAt
    <3>3. Fresh(m)
      BY <1>2, <3>2 DEF FreshMessages
    <3>4. msg[m].ref = 2
      BY <1>6, <2>1, <2>4, <2>5, <3>1 DEF Counted
    <3>5. QED
      BY <3>3, <3>4 DEF Fresh
  <2>7. (q => Cardinality(Queued(m)) = 1) /\ (~q => Cardinality(Queued(m)) = 0)
    <3>1. ASSUME NEW a \in Queued(m)
          PROVE  \E t \in Tasks : \E i \in DOMAIN queue[t] :
                   a = <<t, i>> /\ queue[t][i] = m /\ IsAt(m, "queue", t)
      BY <3>1 DEF Queued, IsAt, Range
    <3>2. ASSUME NEW a \in Queued(m), NEW b \in Queued(m)
          PROVE  a = b
      <4>1a. PICK t \in Tasks : \E i \in DOMAIN queue[t] :
               a = <<t, i>> /\ queue[t][i] = m /\ IsAt(m, "queue", t)
        BY <3>1
      <4>1. PICK i \in DOMAIN queue[t] :
              a = <<t, i>> /\ queue[t][i] = m /\ IsAt(m, "queue", t)
        BY <4>1a
      <4>2a. PICK u \in Tasks : \E j \in DOMAIN queue[u] :
               b = <<u, j>> /\ queue[u][j] = m /\ IsAt(m, "queue", u)
        BY <3>1
      <4>2. PICK j \in DOMAIN queue[u] :
              b = <<u, j>> /\ queue[u][j] = m /\ IsAt(m, "queue", u)
        BY <4>2a
      <4>3. t = u
        BY <1>2, <4>1, <4>2 DEF OnePlace, Kinds
      <4>4. i = j
        BY <1>2, <4>1, <4>2, <4>3 DEF NoRepeats, IsInjective
      <4>5. QED
        BY <4>1, <4>2, <4>3, <4>4
    <3>3. q <=> Queued(m) # {}
      <4>1. ASSUME NEW t \in Tasks, IsAt(m, "queue", t)
            PROVE  Queued(m) # {}
        <5>1. PICK i \in DOMAIN queue[t] : queue[t][i] = m
          BY <4>1 DEF IsAt, Range
        <5>2. <<t, i>> \in Queued(m)
          BY <5>1 DEF Queued
        <5>3. QED
          BY <5>2
      <4>2. QED
        BY <3>1, <4>1
    <3>4. QED
      BY <3>2, <3>3, AtMostOne
  <2>8. (h => Cardinality(Handled(m)) = 1) /\ (~h => Cardinality(Handled(m)) = 0)
    <3>1. \A t : t \in Handled(m) <=> t \in Tasks /\ IsAt(m, "handler", t)
      BY DEF Handled, IsAt, Handling
    <3>2. \A t, u \in Handled(m) : t = u
      BY <1>2, <3>1 DEF OnePlace, Kinds
    <3>3. h <=> Handled(m) # {}
      BY <3>1
    <3>4. QED
      BY <3>2, <3>3, AtMostOne
  <2>9. (s \/ d => Cardinality(Owned(m)) = 1) /\ (~s /\ ~d => Cardinality(Owned(m)) = 0)
    <3>1. \A t : t \in Owned(m) <=> t \in Tasks /\ (IsAt(m, "sender", t) \/ (t = Bus /\ d))
      <4>1. d <=> pc[Bus] = "release_call" /\ mine[Bus] = m
        BY Names DEF Waits
      <4>2. \A t \in Tasks : IsAt(m, "sender", t) <=> pc[t] = "invoke" /\ mine[t] = m
        BY DEF IsAt
      <4>3. QED
        BY <1>2, <4>1, <4>2 DEF Owned
    <3>2. \A t, u \in Owned(m) : t = u
      BY <1>2, <2>6, <3>1 DEF OnePlace, Kinds
    <3>3. s \/ d <=> Owned(m) # {}
      BY <3>1, Names
    <3>4. QED
      BY <3>2, <3>3, AtMostOne
  <2>10. (p => Cardinality(Pending(m)) = 1) /\ (~p => Cardinality(Pending(m)) = 0)
    <3>1. ASSUME NEW a \in Pending(m)
          PROVE  \E w \in Workers : \E i \in DOMAIN calls[w] :
                   a = <<w, i>> /\ calls[w][i].m = m /\ Waits(m, w)
      BY <3>1 DEF Pending, Waits
    <3>2. ASSUME NEW a \in Pending(m), NEW b \in Pending(m)
          PROVE  a = b
      <4>1a. PICK w \in Workers : \E i \in DOMAIN calls[w] :
               a = <<w, i>> /\ calls[w][i].m = m /\ Waits(m, w)
        BY <3>1
      <4>1. PICK i \in DOMAIN calls[w] :
              a = <<w, i>> /\ calls[w][i].m = m /\ Waits(m, w)
        BY <4>1a
      <4>2a. PICK v \in Workers : \E j \in DOMAIN calls[v] :
               b = <<v, j>> /\ calls[v][j].m = m /\ Waits(m, v)
        BY <3>1
      <4>2. PICK j \in DOMAIN calls[v] :
              b = <<v, j>> /\ calls[v][j].m = m /\ Waits(m, v)
        BY <4>2a
      <4>3. w = v
        BY <1>2, <4>1, <4>2, Names DEF OneWaiter
      <4>4. i = j
        BY <1>2, <4>1, <4>2, <4>3 DEF NoCallTwice
      <4>5. QED
        BY <4>1, <4>2, <4>3, <4>4
    <3>3. p <=> Pending(m) # {}
      <4>1. ASSUME NEW w \in Workers, Waits(m, w)
            PROVE  Pending(m) # {}
        <5>1. PICK i \in DOMAIN calls[w] : calls[w][i].m = m
          BY <4>1, Names DEF Waits
        <5>2. <<w, i>> \in Pending(m)
          BY <5>1 DEF Pending
        <5>3. QED
          BY <5>2
      <4>2. QED
        BY <3>1, <4>1
    <3>4. QED
      BY <3>2, <3>3, AtMostOne
  <2>11. m \in Range(free) => ~q /\ ~h /\ ~s
    BY <1>2, FreePlace, Names DEF OnePlace, Kinds
  <2> HIDE DEF q, h, s, p, d
  <2>12. References(m) = (IF Held(m) THEN 1 ELSE 0) + (IF Awaited(m) THEN 1 ELSE 0)
    <3>1. Cardinality(Queued(m)) + Cardinality(Handled(m)) + Cardinality(Owned(m))
            + Cardinality(Pending(m)) = (IF Held(m) THEN 1 ELSE 0) + (IF Awaited(m) THEN 1 ELSE 0)
      BY <2>2, <2>3, <2>4, <2>5, <2>6, <2>7, <2>8, <2>9, <2>10
    <3>2. QED
      BY <3>1 DEF References
  <2>13. CASE m \in Range(free)
    <3>1. ~Held(m) /\ ~Awaited(m)
      BY <2>1, <2>4, <2>11, <2>13 DEF Counted
    <3>2. References(m) = 0
      BY <2>12, <3>1
    <3>3. QED
      BY <2>13, <3>2
  <2>14. CASE m \notin Range(free)
    BY <1>6, <2>1, <2>12, <2>14 DEF Counted
  <2>15. QED
    BY <2>13, <2>14
<1>7. QED
  BY <1>3, <1>5, <1>6 DEF PoolAccounting

(***************************************************************************)
(* The theorems about the specification.                                   *)
(***************************************************************************)
(* BusInv is an invariant of the tasks and the system bus.                 *)
THEOREM BusInvariant == Spec => []BusInv
BY InitBusInv, NextBusInv, PTL DEF Spec

(* Pool, queues, pending calls and every task's locals keep their types:   *)
(* in particular the reference count, a byte of the message, never leaves  *)
(* 0 .. 2, and no queue ever exceeds its size.                             *)
THEOREM BusTypesHold == Spec => []TypeOK
BY BusInvariant, InvTypes, PTL

(* The reference counts of get_mblue_message, put_mblue_message and        *)
(* init_message are exact, for any number of tasks, any pool, any queues,  *)
(* any requests, every interleaving and every overflow: no message is ever *)
(* on the free list twice or while somebody refers to it.                  *)
THEOREM PoolAccounted == Spec => []PoolAccounting
BY BusInvariant, InvAccounting, PTL
==============================================================================
