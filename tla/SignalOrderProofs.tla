-------------------------- MODULE SignalOrderProofs --------------------------
(***************************************************************************)
(* Proof that signals arrive in the order they were sent (SignalsInOrder), *)
(* for any number of publishers and subscribers, any pool and any queues,  *)
(* whatever is lost on the way.                                            *)
(***************************************************************************)
EXTENDS SystemBusProofs

(***************************************************************************)
(* Where a signal of a publisher is: with the task that sends it, in the   *)
(* queue of the bus, being copied, in the queue of a subscriber, or        *)
(* delivered.                                                              *)
(***************************************************************************)
Preparing == {"seq_inc", "seq_ret", "alloc"}

Carries(m, p, n) == msg[m].type = "SIGNAL" /\ msg[m].load = <<p, n>>

Holds(t, p, n) == \E i \in DOMAIN queue[t] : Carries(queue[t][i], p, n)

Ahead(t, p, a, b) ==
  \E i, j \in DOMAIN queue[t] :
    i < j /\ Carries(queue[t][i], p, a) /\ Carries(queue[t][j], p, b)

Got(w, r) == \E i \in DOMAIN delivered[w] : delivered[w][i] = r

GotAhead(w, r, s) ==
  \E i, j \in DOMAIN delivered[w] : i < j /\ delivered[w][i] = r /\ delivered[w][j] = s

Reached(w, p, n) == Got(w, <<p, n>>) \/ Holds(w, p, n)

ReachedAhead(w, p, a, b) ==
  \/ GotAhead(w, <<p, a>>, <<p, b>>)
  \/ Got(w, <<p, a>>) /\ Holds(w, p, b)
  \/ Ahead(w, p, a, b)

Copied(p, n) == pc[Bus] = "replicate" /\ Carries(cur[Bus], p, n)

Sends(p) ==
  \/ pc[p] \in Preparing /\ arg[p].type = "SIGNAL"
  \/ pc[p] = "invoke" /\ msg[mine[p]].type = "SIGNAL"

(***************************************************************************)
(* The order along that way.                                               *)
(***************************************************************************)
Follows(w, a, b) == a <= b /\ (a = b => SubscribedTwice(w))

ReachedInOrder(p) ==
  \A w \in Workers, a, b \in Nat : ReachedAhead(w, p, a, b) => Follows(w, a, b)

CopiedInOrder(p) ==
  \A w \in Workers, a, b \in Nat :
    Reached(w, p, a) /\ Copied(p, b) => a <= b /\ (w \in Range(todo) => Follows(w, a, b))

BusInOrder(p) ==
  \A a, b \in Nat :
    /\ Ahead(Bus, p, a, b) => a < b
    /\ Copied(p, a) /\ Holds(Bus, p, b) => a < b
    /\ \A w \in Workers : Reached(w, p, a) /\ Holds(Bus, p, b) => a < b

SentInOrder(p) ==
  \A n \in Nat :
    Holds(Bus, p, n) \/ Copied(p, n) \/ (\E w \in Workers : Reached(w, p, n))
      => n <= issued[p] /\ (Sends(p) => n < issued[p])

InOrder(p) == ReachedInOrder(p) /\ CopiedInOrder(p) /\ BusInOrder(p) /\ SentInOrder(p)

(***************************************************************************)
(* What the order rests on: a signal on its way to the bus is the newest   *)
(* of its sender, a broadcast goes to the bus, and the bus copies once to  *)
(* every subscriber.                                                       *)
(***************************************************************************)
Newest(t, r) ==
  r.type = "SIGNAL" =>
    /\ t \in Workers /\ r.load = <<t, issued[t]>> /\ r.load \in Requests
    /\ t \in Publishers => r.dst = NULL

SentNewest ==
  \A t \in Tasks : /\ pc[t] \in Preparing => Newest(t, arg[t])
                   /\ pc[t] = "invoke" => Newest(t, msg[mine[t]])

SignalsNamed ==
  \A m \in Messages : m \notin Range(free) /\ msg[m].type = "SIGNAL" => msg[m].load \in Requests

CopiedOnce ==
  \A w \in Workers : ~SubscribedTwice(w) =>
    \A i, j \in DOMAIN todo : todo[i] = w /\ todo[j] = w => i = j

Forms ==
  /\ delivered \in [Workers -> Seq(Requests)]
  /\ SentNewest /\ SignalsNamed /\ CopiedOnce

OrderInv == BusInv /\ Forms /\ \A p \in Publishers : InOrder(p)

(***************************************************************************)
(* What a step does to a queue.                                            *)
(***************************************************************************)
(* Messages in use keep what they carry, and signals where they go.        *)
Steady ==
  \A m \in Messages : m \notin Range(free) =>
    msg'[m].type = msg[m].type /\ msg'[m].load = msg[m].load

SameWay(m) == msg[m].type = "SIGNAL" => msg'[m].dst = msg[m].dst

Directed == \A m \in Messages : m \notin Range(free) => SameWay(m)

(* A queue loses its head or gets something that p did not send.           *)
Dwindles(t, p) ==
  \/ queue'[t] = queue[t]
  \/ queue[t] # << >> /\ queue'[t] = Tail(queue[t])
  \/ \E x \in Messages : queue'[t] = Append(queue[t], x) /\ \A n : ~Carries(x, p, n)'

LEMMA InUse ==
  ASSUME BusInv, NEW t \in Tasks
  PROVE  /\ queue[t] \in Seq(Messages)
         /\ DOMAIN queue[t] = 1 .. Len(queue[t]) /\ Len(queue[t]) \in Nat
         /\ \A i \in DOMAIN queue[t] : queue[t][i] \in Messages /\ queue[t][i] \notin Range(free)
         /\ Handling(t) => cur[t] \in Messages /\ cur[t] \notin Range(free)
         /\ pc[t] = "invoke" => mine[t] \in Messages /\ mine[t] \notin Range(free)
<1>1. /\ queue \in [Tasks -> Seq(Messages)] /\ cur \in [Tasks -> Messages]
      /\ mine \in [Tasks -> Messages] /\ OnePlace /\ Bus \in Tasks
  BY Names DEF BusInv, PoolTypes, TaskTypes, Accounts
<1>2. queue[t] \in Seq(Messages) /\ DOMAIN queue[t] = 1 .. Len(queue[t]) /\ Len(queue[t]) \in Nat
  BY <1>1, LenProperties
<1>3. ASSUME NEW m \in Messages, NEW k \in {"queue", "handler", "sender"}, IsAt(m, k, t)
      PROVE  m \notin Range(free)
  <2>1. SUFFICES ASSUME IsAt(m, "free", Bus)
                 PROVE  FALSE
    BY DEF IsAt
  <2>2. k = "free"
    BY <1>1, <1>3, <2>1 DEF OnePlace, Kinds
  <2>3. QED
    BY <2>2
<1>4. ASSUME NEW i \in DOMAIN queue[t]
      PROVE  queue[t][i] \in Messages /\ queue[t][i] \notin Range(free)
  <2>1. queue[t][i] \in Messages /\ queue[t][i] \in Range(queue[t])
    BY <1>2 DEF Range
  <2>2. IsAt(queue[t][i], "queue", t)
    BY <2>1 DEF IsAt
  <2>3. QED
    BY <1>3, <2>1, <2>2
<1>5. Handling(t) => cur[t] \in Messages /\ cur[t] \notin Range(free)
  <2>1. Handling(t) => IsAt(cur[t], "handler", t)
    BY DEF IsAt
  <2>2. QED
    BY <1>1, <1>3, <2>1
<1>6. pc[t] = "invoke" => mine[t] \in Messages /\ mine[t] \notin Range(free)
  <2>1. pc[t] = "invoke" => IsAt(mine[t], "sender", t)
    BY DEF IsAt
  <2>2. QED
    BY <1>1, <1>3, <2>1
<1>7. QED
  BY <1>2, <1>4, <1>5, <1>6

LEMMA SteadyCarries ==
  ASSUME Steady, NEW m \in Messages, m \notin Range(free)
  PROVE  \A p, n : Carries(m, p, n)' <=> Carries(m, p, n)
  BY DEF Steady, Carries

LEMMA QueueSame ==
  ASSUME BusInv, Steady, NEW t \in Tasks, queue'[t] = queue[t]
  PROVE  \A p, a, b : /\ Holds(t, p, a)' => Holds(t, p, a)
                      /\ Ahead(t, p, a, b)' => Ahead(t, p, a, b)
<1>1. PICK s : s = queue[t]
  OBVIOUS
<1>2. \A i \in DOMAIN s : \A p, n : Carries(s[i], p, n)' <=> Carries(s[i], p, n)
  BY <1>1, InUse, SteadyCarries
<1>3. QED
  BY <1>1, <1>2, Zenon DEF Holds, Ahead

LEMMA QueueTail ==
  ASSUME BusInv, Steady, NEW t \in Tasks, queue[t] # << >>, queue'[t] = Tail(queue[t])
  PROVE  \A p, a, b : /\ Holds(t, p, a)' => Holds(t, p, a)
                      /\ Ahead(t, p, a, b)' => Ahead(t, p, a, b)
                      /\ Carries(Head(queue[t]), p, a) => Holds(t, p, a)
                      /\ Carries(Head(queue[t]), p, a) /\ Holds(t, p, b)' => Ahead(t, p, a, b)
<1>1. PICK s, r, h : s = queue[t] /\ r = Tail(s) /\ h = Head(s)
  OBVIOUS
<1>2. /\ s \in Seq(Messages) /\ s # << >>
      /\ Len(s) \in Nat \ {0} /\ DOMAIN s = 1 .. Len(s) /\ h = s[1] /\ 1 \in DOMAIN s
      /\ DOMAIN r = 1 .. Len(s) - 1
      /\ \A i \in DOMAIN r : i + 1 \in DOMAIN s /\ r[i] = s[i + 1] /\ 1 < i + 1
  <2>1. s \in Seq(Messages)
    BY <1>1, InUse
  <2>2. /\ r \in Seq(Messages) /\ h = s[1] /\ Len(r) = Len(s) - 1 /\ Len(s) \in Nat \ {0}
        /\ DOMAIN s = 1 .. Len(s) /\ DOMAIN r = 1 .. Len(r)
        /\ \A i \in 1 .. Len(s) - 1 : r[i] = s[i + 1]
    BY <1>1, <2>1, HeadTailProperties, LenProperties, EmptySeq
  <2>3. QED
    BY <1>1, <2>1, <2>2
<1>3. \A i \in DOMAIN s : \A p, n : Carries(s[i], p, n)' <=> Carries(s[i], p, n)
  BY <1>1, InUse, SteadyCarries
<1>4. \A i, j \in DOMAIN r : i < j => i + 1 < j + 1
  BY <1>2
<1>5. ASSUME NEW p, NEW a, NEW b
      PROVE  /\ Holds(t, p, a)' => Holds(t, p, a)
             /\ Ahead(t, p, a, b)' => Ahead(t, p, a, b)
             /\ Carries(h, p, a) => Holds(t, p, a)
             /\ Carries(h, p, a) /\ Holds(t, p, b)' => Ahead(t, p, a, b)
  <2>1. queue'[t] = r
    BY <1>1
  <2>2. Holds(t, p, a)' => Holds(t, p, a)
    <3>1. SUFFICES ASSUME NEW i \in DOMAIN r, Carries(r[i], p, a)'
                   PROVE  \E k \in DOMAIN s : Carries(s[k], p, a)
      BY <1>1, <2>1, Zenon DEF Holds
    <3>2. Carries(s[i + 1], p, a)
      BY <1>2, <1>3, <3>1
    <3>3. QED
      BY <1>2, <3>2
  <2>3. Ahead(t, p, a, b)' => Ahead(t, p, a, b)
    <3>1. SUFFICES ASSUME NEW i \in DOMAIN r, NEW j \in DOMAIN r, i < j,
                          Carries(r[i], p, a)', Carries(r[j], p, b)'
                   PROVE  \E k, l \in DOMAIN s : k < l /\ Carries(s[k], p, a) /\ Carries(s[l], p, b)
      BY <1>1, <2>1, Zenon DEF Ahead
    <3>2. Carries(s[i + 1], p, a) /\ Carries(s[j + 1], p, b)
      BY <1>2, <1>3, <3>1
    <3>3. QED
      BY <1>2, <1>4, <3>1, <3>2
  <2>4. Carries(h, p, a) => Holds(t, p, a)
    BY <1>1, <1>2, Zenon DEF Holds
  <2>5. ASSUME Carries(h, p, a), Holds(t, p, b)'
        PROVE  Ahead(t, p, a, b)
    <3>1. PICK i \in DOMAIN r : Carries(r[i], p, b)'
      BY <2>1, <2>5, Zenon DEF Holds
    <3>2. Carries(s[i + 1], p, b) /\ Carries(s[1], p, a) /\ 1 < i + 1
      BY <1>2, <1>3, <2>5, <3>1
    <3>3. QED
      BY <1>1, <1>2, <3>2, Zenon DEF Ahead
  <2>6. QED
    BY <2>2, <2>3, <2>4, <2>5
<1>6. QED
  BY <1>1, <1>5

LEMMA QueueEnd ==
  ASSUME BusInv, Steady, NEW t \in Tasks, NEW x \in Messages, queue'[t] = Append(queue[t], x)
  PROVE  \A p, a, b :
           /\ Holds(t, p, a)' => Holds(t, p, a) \/ Carries(x, p, a)'
           /\ Ahead(t, p, a, b)' => Ahead(t, p, a, b) \/ (Holds(t, p, a) /\ Carries(x, p, b)')
<1>1. PICK s, r : s = queue[t] /\ r = Append(s, x)
  OBVIOUS
<1>2. /\ s \in Seq(Messages) /\ Len(s) \in Nat /\ DOMAIN s = 1 .. Len(s)
      /\ DOMAIN r = 1 .. Len(s) + 1 /\ r[Len(s) + 1] = x
      /\ \A i \in DOMAIN r : i \in DOMAIN s \/ i = Len(s) + 1
      /\ \A i \in DOMAIN s : r[i] = s[i]
  <2>1. s \in Seq(Messages)
    BY <1>1, InUse
  <2>2. /\ r \in Seq(Messages) /\ Len(r) = Len(s) + 1 /\ Len(s) \in Nat
        /\ DOMAIN s = 1 .. Len(s) /\ DOMAIN r = 1 .. Len(r)
        /\ \A i \in 1 .. Len(s) : r[i] = s[i]
        /\ r[Len(s) + 1] = x
    BY <1>1, <2>1, AppendProperties, LenProperties
  <2>3. QED
    BY <2>1, <2>2
<1>3. \A i \in DOMAIN s : \A p, n : Carries(s[i], p, n)' <=> Carries(s[i], p, n)
  BY <1>1, InUse, SteadyCarries
<1>4. queue'[t] = r
  BY <1>1
<1>5. ASSUME NEW p, NEW a
      PROVE  Holds(t, p, a)' => Holds(t, p, a) \/ Carries(x, p, a)'
  <2>1. SUFFICES ASSUME NEW i \in DOMAIN r, Carries(r[i], p, a)'
                 PROVE  (\E k \in DOMAIN s : Carries(s[k], p, a)) \/ Carries(x, p, a)'
    BY <1>1, <1>4, Zenon DEF Holds
  <2>2. CASE i \in DOMAIN s
    BY <1>2, <1>3, <2>1, <2>2
  <2>3. CASE i = Len(s) + 1
    BY <1>2, <2>1, <2>3
  <2>4. QED
    BY <1>2, <2>2, <2>3
<1>6. ASSUME NEW p, NEW a, NEW b
      PROVE  Ahead(t, p, a, b)' => Ahead(t, p, a, b) \/ (Holds(t, p, a) /\ Carries(x, p, b)')
  <2>1. SUFFICES ASSUME NEW i \in DOMAIN r, NEW j \in DOMAIN r, i < j,
                        Carries(r[i], p, a)', Carries(r[j], p, b)'
                 PROVE  \/ \E k, l \in DOMAIN s : k < l /\ Carries(s[k], p, a) /\ Carries(s[l], p, b)
                        \/ (\E k \in DOMAIN s : Carries(s[k], p, a)) /\ Carries(x, p, b)'
    BY <1>1, <1>4, Zenon DEF Ahead, Holds
  <2>2. i \in DOMAIN s
    BY <1>2, <2>1
  <2>3. Carries(s[i], p, a)
    BY <1>2, <1>3, <2>1, <2>2
  <2>4. CASE j \in DOMAIN s
    <3>1. Carries(s[j], p, b)
      BY <1>2, <1>3, <2>1, <2>4
    <3>2. QED
      BY <2>1, <2>2, <2>3, <2>4, <3>1
  <2>5. CASE j = Len(s) + 1
    BY <1>2, <2>1, <2>2, <2>3, <2>5
  <2>6. QED
    BY <1>2, <2>4, <2>5
<1>7. QED
  BY <1>5, <1>6, Zenon

(***************************************************************************)
(* Steps that add no signal of p to what is on the way.                    *)
(***************************************************************************)
LEMMA KeptOrder ==
  ASSUME NEW p, InOrder(p),
         \A w \in Workers, a, b \in Nat : /\ Reached(w, p, a)' => Reached(w, p, a)
                                          /\ ReachedAhead(w, p, a, b)' => ReachedAhead(w, p, a, b),
         \A a, b \in Nat : /\ Holds(Bus, p, a)' => Holds(Bus, p, a)
                           /\ Ahead(Bus, p, a, b)' => Ahead(Bus, p, a, b)
                           /\ Copied(p, a)' => Copied(p, a),
         todo' = todo,
         \A w \in Workers : SubscribedTwice(w) => SubscribedTwice(w)',
         issued[p] \in Nat, issued'[p] \in Nat, issued[p] <= issued'[p],
         Sends(p)' => Sends(p) \/ issued[p] < issued'[p]
  PROVE  InOrder(p)'
<1>1. \A w \in Workers, a, b \in Nat : Follows(w, a, b) => Follows(w, a, b)'
  BY DEF Follows
<1>2. ReachedInOrder(p)'
  BY <1>1, Zenon DEF InOrder, ReachedInOrder
<1>3. CopiedInOrder(p)'
  <2>1. SUFFICES ASSUME NEW w \in Workers, NEW a \in Nat, NEW b \in Nat,
                        Reached(w, p, a)', Copied(p, b)'
                 PROVE  a <= b /\ (w \in Range(todo) => Follows(w, a, b)')
    BY Zenon DEF CopiedInOrder
  <2>2. a <= b /\ (w \in Range(todo) => Follows(w, a, b))
    BY <2>1, Zenon DEF InOrder, CopiedInOrder
  <2>3. QED
    BY <1>1, <2>2
<1>4. BusInOrder(p)'
  BY Zenon DEF InOrder, BusInOrder
<1>5. SentInOrder(p)'
  <2>1. SUFFICES ASSUME NEW n \in Nat,
                        Holds(Bus, p, n)' \/ Copied(p, n)' \/ (\E w \in Workers : Reached(w, p, n)')
                 PROVE  n <= issued'[p] /\ (Sends(p)' => n < issued'[p])
    BY Zenon DEF SentInOrder
  <2>2. n <= issued[p] /\ (Sends(p) => n < issued[p])
    BY <2>1, Zenon DEF InOrder, SentInOrder
  <2>3. QED
    BY <2>2
<1>6. QED
  BY <1>2, <1>3, <1>4, <1>5 DEF InOrder

LEMMA DwindlingQueue ==
  ASSUME BusInv, Steady, NEW t \in Tasks, NEW p, Dwindles(t, p)
  PROVE  \A a, b : /\ Holds(t, p, a)' => Holds(t, p, a)
                   /\ Ahead(t, p, a, b)' => Ahead(t, p, a, b)
<1>1. CASE queue'[t] = queue[t]
  BY <1>1, QueueSame
<1>2. CASE queue[t] # << >> /\ queue'[t] = Tail(queue[t])
  <2>1. \A q, a, b : /\ Holds(t, q, a)' => Holds(t, q, a)
                     /\ Ahead(t, q, a, b)' => Ahead(t, q, a, b)
                     /\ Carries(Head(queue[t]), q, a) => Holds(t, q, a)
                     /\ Carries(Head(queue[t]), q, a) /\ Holds(t, q, b)' => Ahead(t, q, a, b)
    BY <1>2, QueueTail
  <2>2. QED
    BY <2>1, Zenon
<1>3. CASE \E x \in Messages : queue'[t] = Append(queue[t], x) /\ \A n : ~Carries(x, p, n)'
  <2>1. PICK x \in Messages : queue'[t] = Append(queue[t], x) /\ \A n : ~Carries(x, p, n)'
    BY <1>3
  <2>2. \A a, b :
           /\ Holds(t, p, a)' => Holds(t, p, a) \/ Carries(x, p, a)'
           /\ Ahead(t, p, a, b)' => Ahead(t, p, a, b) \/ (Holds(t, p, a) /\ Carries(x, p, b)')
    BY <2>1, QueueEnd
  <2>3. QED
    BY <2>1, <2>2, Zenon
<1>4. QED
  BY <1>1, <1>2, <1>3 DEF Dwindles

LEMMA ReachedKept ==
  ASSUME BusInv, Steady, NEW w \in Workers, NEW p, Dwindles(w, p), delivered' = delivered
  PROVE  \A a, b : /\ Reached(w, p, a)' => Reached(w, p, a)
                   /\ ReachedAhead(w, p, a, b)' => ReachedAhead(w, p, a, b)
<1>1. \A a, b : /\ Holds(w, p, a)' => Holds(w, p, a)
                /\ Ahead(w, p, a, b)' => Ahead(w, p, a, b)
  BY Names, DwindlingQueue
<1>2. \A r, s : /\ Got(w, r)' <=> Got(w, r)
                /\ GotAhead(w, r, s)' <=> GotAhead(w, r, s)
  BY Zenon DEF Got, GotAhead
<1>3. QED
  BY <1>1, <1>2, Zenon DEF Reached, ReachedAhead

LEMMA CopiedKept ==
  ASSUME BusInv, Steady, NEW p,
         pc'[Bus] = "replicate" => pc[Bus] = "replicate" /\ cur'[Bus] = cur[Bus]
  PROVE  \A n : Copied(p, n)' => Copied(p, n)
<1>1. SUFFICES ASSUME NEW n, Copied(p, n)'
               PROVE  Copied(p, n)
  OBVIOUS
<1>2. PICK s : s = cur[Bus]
  OBVIOUS
<1>3. pc[Bus] = "replicate" /\ cur'[Bus] = s /\ Carries(s, p, n)'
  BY <1>1, <1>2, Zenon DEF Copied, Carries
<1>4. s \in Messages /\ s \notin Range(free)
  BY <1>2, <1>3, Names, InUse DEF Handling
<1>5. Carries(s, p, n)
  BY <1>3, <1>4, SteadyCarries
<1>6. QED
  BY <1>2, <1>3, <1>5, Zenon DEF Copied

LEMMA QuietOrder ==
  ASSUME BusInv, Steady, NEW p \in Publishers, InOrder(p), \A t \in Tasks : Dwindles(t, p),
         delivered' = delivered, todo' = todo,
         pc'[Bus] = "replicate" => pc[Bus] = "replicate" /\ cur'[Bus] = cur[Bus],
         \A w \in Workers : SubscribedTwice(w) => SubscribedTwice(w)',
         issued'[p] \in Nat, issued[p] <= issued'[p],
         Sends(p)' => Sends(p) \/ issued[p] < issued'[p]
  PROVE  InOrder(p)'
<1>1. issued[p] \in Nat
  BY Names DEF Publishers, BusInv, TaskTypes
<1>2. \A w \in Workers, a, b \in Nat :
        /\ Reached(w, p, a)' => Reached(w, p, a)
        /\ ReachedAhead(w, p, a, b)' => ReachedAhead(w, p, a, b)
  BY Names, ReachedKept
<1>3. \A a, b \in Nat : /\ Holds(Bus, p, a)' => Holds(Bus, p, a)
                        /\ Ahead(Bus, p, a, b)' => Ahead(Bus, p, a, b)
                        /\ Copied(p, a)' => Copied(p, a)
  <2>1. \A a, b : /\ Holds(Bus, p, a)' => Holds(Bus, p, a)
                  /\ Ahead(Bus, p, a, b)' => Ahead(Bus, p, a, b)
    BY Names, DwindlingQueue
  <2>2. \A n : Copied(p, n)' => Copied(p, n)
    BY CopiedKept
  <2>3. QED
    BY <2>1, <2>2, Zenon
<1>4. QED
  BY <1>1, <1>2, <1>3, KeptOrder

(* What a task does that neither hands over nor copies nor handles a       *)
(* signal.                                                                 *)
CalmQueue(t) ==
  \/ queue'[t] = queue[t]
  \/ queue[t] # << >> /\ queue'[t] = Tail(queue[t])
  \/ \E x \in Messages : /\ queue'[t] = Append(queue[t], x)
                         /\ x \notin Range(free) /\ msg[x].type # "SIGNAL"

CalmArgument(t) ==
  pc'[t] \in Preparing =>
    \/ arg'[t].type # "SIGNAL"
    \/ /\ pc[t] \in Preparing /\ issued'[t] = issued[t] /\ arg'[t].type = arg[t].type
       /\ arg'[t].load = arg[t].load /\ arg'[t].dst = arg[t].dst
    \/ issued[t] < issued'[t] /\ Newest(t, arg[t])'

CalmSender(t) ==
  /\ CalmArgument(t)
  /\ pc'[t] = "invoke" => /\ pc[t] = "invoke" /\ mine'[t] = mine[t]
                          /\ issued'[t] = issued[t] /\ SameWay(mine[t])

Calm ==
  /\ Steady /\ Range(free) \subseteq Range(free')
  /\ delivered' = delivered /\ todo' = todo
  /\ pc'[Bus] = "replicate" => pc[Bus] = "replicate" /\ cur'[Bus] = cur[Bus]
  /\ \A w \in Workers : SubscribedTwice(w) => SubscribedTwice(w)'
  /\ \A t \in Tasks : /\ CalmQueue(t) /\ CalmSender(t)
                      /\ issued'[t] \in Nat /\ issued[t] <= issued'[t]

LEMMA NewestKept ==
  ASSUME BusInv, Forms, Steady, NEW t \in Tasks, CalmSender(t)
  PROVE  /\ pc'[t] \in Preparing => Newest(t, arg[t])'
         /\ pc'[t] = "invoke" => Newest(t, msg[mine[t]])'
<1>1. ASSUME pc'[t] \in Preparing
      PROVE  Newest(t, arg[t])'
  <2>1. CASE /\ pc[t] \in Preparing /\ issued'[t] = issued[t] /\ arg'[t].type = arg[t].type
             /\ arg'[t].load = arg[t].load /\ arg'[t].dst = arg[t].dst
    <3>1. Newest(t, arg[t])
      BY <2>1 DEF Forms, SentNewest
    <3>2. QED
      BY <2>1, <3>1 DEF Newest
  <2>2. CASE arg'[t].type # "SIGNAL"
    BY <2>2 DEF Newest
  <2>3. QED
    BY <1>1, <2>1, <2>2, Zenon DEF CalmSender, CalmArgument
<1>2. ASSUME pc'[t] = "invoke"
      PROVE  Newest(t, msg[mine[t]])'
  <2>1. PICK m : m = mine[t]
    OBVIOUS
  <2>2. pc[t] = "invoke" /\ mine'[t] = m /\ issued'[t] = issued[t]
    BY <1>2, <2>1 DEF CalmSender
  <2>3. m \in Messages /\ m \notin Range(free) /\ Newest(t, msg[m])
    BY <2>1, <2>2, InUse DEF Forms, SentNewest
  <2>4. /\ msg'[m].type = msg[m].type /\ msg'[m].load = msg[m].load
        /\ msg[m].type = "SIGNAL" => msg'[m].dst = msg[m].dst
    BY <1>2, <2>1, <2>3 DEF Steady, CalmSender, SameWay
  <2>5. QED
    BY <2>2, <2>3, <2>4 DEF Newest
<1>3. QED
  BY <1>1, <1>2

LEMMA NamesKept ==
  ASSUME Forms, Steady, Range(free) \subseteq Range(free')
  PROVE  SignalsNamed'
<1>1. SUFFICES ASSUME NEW m \in Messages, m \notin Range(free'), msg'[m].type = "SIGNAL"
               PROVE  msg'[m].load \in Requests
  BY DEF SignalsNamed
<1>2. m \notin Range(free)
  BY <1>1
<1>3. msg'[m].type = msg[m].type /\ msg'[m].load = msg[m].load
  BY <1>2 DEF Steady
<1>4. QED
  BY <1>1, <1>2, <1>3 DEF Forms, SignalsNamed

LEMMA SendsKept ==
  ASSUME BusInv, Steady, NEW p \in Tasks, CalmSender(p)
  PROVE  Sends(p)' => Sends(p) \/ issued[p] < issued'[p]
<1>1. CASE pc'[p] \in Preparing /\ arg'[p].type = "SIGNAL"
  BY <1>1 DEF CalmSender, CalmArgument, Sends
<1>2. CASE pc'[p] = "invoke" /\ msg'[mine'[p]].type = "SIGNAL"
  <2>1. PICK m : m = mine[p]
    OBVIOUS
  <2>2. pc[p] = "invoke" /\ mine'[p] = m
    BY <1>2, <2>1 DEF CalmSender
  <2>3. m \in Messages /\ m \notin Range(free)
    BY <2>1, <2>2, InUse
  <2>4. msg'[m].type = msg[m].type
    BY <2>3 DEF Steady
  <2>5. QED
    BY <1>2, <2>1, <2>2, <2>4 DEF Sends
<1>3. QED
  BY <1>1, <1>2 DEF Sends

LEMMA CalmForms ==
  ASSUME BusInv, Forms, Calm
  PROVE  Forms'
<1>1. SentNewest'
  BY NewestKept DEF Calm, SentNewest
<1>2. SignalsNamed'
  BY NamesKept DEF Calm
<1>3. CopiedOnce'
  BY Zenon DEF Calm, Forms, CopiedOnce
<1>4. QED
  BY <1>1, <1>2, <1>3 DEF Calm, Forms

LEMMA CalmDwindles ==
  ASSUME Steady, NEW t \in Tasks, CalmQueue(t), NEW p
  PROVE  Dwindles(t, p)
<1>1. ASSUME NEW x \in Messages, x \notin Range(free), msg[x].type # "SIGNAL"
      PROVE  \A n : ~Carries(x, p, n)'
  BY <1>1 DEF Steady, Carries
<1>2. QED
  BY <1>1, Zenon DEF CalmQueue, Dwindles

LEMMA CalmOrder ==
  ASSUME OrderInv, Calm
  PROVE  Forms' /\ \A p \in Publishers : InOrder(p)'
<1>1. BusInv /\ Forms
  BY DEF OrderInv
<1>2. ASSUME NEW p \in Publishers
      PROVE  InOrder(p)'
  <2>1. /\ Steady /\ delivered' = delivered /\ todo' = todo
        /\ pc'[Bus] = "replicate" => pc[Bus] = "replicate" /\ cur'[Bus] = cur[Bus]
        /\ \A w \in Workers : SubscribedTwice(w) => SubscribedTwice(w)'
        /\ \A t \in Tasks : CalmQueue(t)
    BY DEF Calm
  <2>2. issued'[p] \in Nat /\ issued[p] <= issued'[p]
    BY Names DEF Calm, Publishers
  <2>3. InOrder(p)
    BY DEF OrderInv
  <2>4. \A t \in Tasks : Dwindles(t, p)
    BY <2>1, CalmDwindles
  <2>5. Sends(p)' => Sends(p) \/ issued[p] < issued'[p]
    BY <1>1, Names, SendsKept DEF Calm, Publishers
  <2>6. QED
    BY <1>1, <2>1, <2>2, <2>3, <2>4, <2>5, QuietOrder
<1>3. QED
  BY <1>1, <1>2, CalmForms

(* A step of one task.                                                     *)
LEMMA OneTaskCalm ==
  ASSUME BusInv, NEW t \in Tasks, Steady, Directed, Range(free) \subseteq Range(free'),
         delivered' = delivered, todo' = todo,
         \A w \in Workers : SubscribedTwice(w) => SubscribedTwice(w)',
         \A u \in Tasks : CalmQueue(u),
         \A u \in Tasks : u # t => /\ pc'[u] = pc[u] /\ arg'[u] = arg[u] /\ mine'[u] = mine[u]
                                   /\ cur'[u] = cur[u] /\ issued'[u] = issued[u],
         issued'[t] \in Nat, issued[t] <= issued'[t],
         pc'[t] \notin {"invoke", "replicate"}, CalmArgument(t)
  PROVE  Calm
<1>1. issued \in [Tasks -> Nat] /\ Bus \in Tasks
  BY Names DEF BusInv, TaskTypes
<1>2. pc'[Bus] = "replicate" => pc[Bus] = "replicate" /\ cur'[Bus] = cur[Bus]
  BY <1>1
<1>3. \A u \in Tasks : CalmSender(u)
  <2>1. ASSUME NEW u \in Tasks, u # t
        PROVE  CalmSender(u)
    <3>1. pc[u] = "invoke" => SameWay(mine[u])
      BY InUse DEF Directed
    <3>2. QED
      BY <2>1, <3>1 DEF CalmSender, CalmArgument
  <2>2. CalmSender(t)
    BY DEF CalmSender
  <2>3. QED
    BY <2>1, <2>2
<1>4. \A u \in Tasks : issued'[u] \in Nat /\ issued[u] <= issued'[u]
  BY <1>1
<1>5. QED
  BY <1>2, <1>3, <1>4 DEF Calm

(* A step that takes at most the head of its task's queue.                 *)
LEMMA TaskCalm ==
  ASSUME BusInv, NEW t \in Tasks, Steady, Directed, Range(free) \subseteq Range(free'),
         delivered' = delivered, todo' = todo,
         \A w \in Workers : SubscribedTwice(w) => SubscribedTwice(w)',
         \/ queue' = queue
         \/ queue[t] # << >> /\ queue' = [queue EXCEPT ![t] = Tail(queue[t])],
         \A u \in Tasks : u # t => /\ pc'[u] = pc[u] /\ arg'[u] = arg[u] /\ mine'[u] = mine[u]
                                   /\ cur'[u] = cur[u] /\ issued'[u] = issued[u],
         issued'[t] \in Nat, issued[t] <= issued'[t],
         pc'[t] \notin {"invoke", "replicate"}, CalmArgument(t)
  PROVE  Calm
<1>1. queue \in [Tasks -> Seq(Messages)]
  BY DEF BusInv, PoolTypes
<1>2. ASSUME NEW u \in Tasks
      PROVE  CalmQueue(u)
  <2>1. CASE queue' = queue
    BY <2>1 DEF CalmQueue
  <2>2. CASE queue[t] # << >> /\ queue' = [queue EXCEPT ![t] = Tail(queue[t])]
    <3>1. /\ u # t => queue'[u] = queue[u]
          /\ u = t => queue[u] # << >> /\ queue'[u] = Tail(queue[u])
      BY <1>1, <2>2
    <3>2. QED
      BY <3>1 DEF CalmQueue
  <2>3. QED
    BY <2>1, <2>2
<1>3. QED
  BY <1>2, OneTaskCalm

LEMMA SameMessages ==
  ASSUME msg' = msg, free' = free, publish' = publish
  PROVE  /\ Steady /\ Directed /\ Range(free) \subseteq Range(free')
         /\ \A w \in Workers : SubscribedTwice(w) => SubscribedTwice(w)'
<1>1. Steady /\ Directed /\ Range(free) \subseteq Range(free')
  BY DEF Steady, Directed, SameWay
<1>2. QED
  BY <1>1, Zenon DEF SubscribedTwice

(* A released message keeps its contents, and nobody has it any more.      *)
LEMMA ReleaseSteady ==
  ASSUME BusInv, NEW x \in Messages, x \notin Range(free), mblue_message_release(x)
  PROVE  Steady /\ Directed /\ Range(free) \subseteq Range(free')
<1>1. PoolTypes /\ NoRepeats /\ msg[x] \in MessageSet
  BY DEF BusInv, Accounts, PoolTypes
<1>2. /\ \A m \in Messages : m # x => msg'[m] = msg[m]
      /\ msg'[x] = [msg[x] EXCEPT !.ref = PutRef(x)]
      /\ Range(free') = Range(free) \cup {x} \/ free' = free
  BY <1>1, Released
<1>3. msg'[x].type = msg[x].type /\ msg'[x].load = msg[x].load /\ msg'[x].dst = msg[x].dst
  BY <1>1, <1>2 DEF MessageSet
<1>4. QED
  BY <1>2, <1>3 DEF Steady, Directed, SameWay

(* A task goes on without sending anything.                                *)
LEMMA GoOnCalm ==
  ASSUME BusInv, NEW t \in Tasks, NEW label, label \notin Preparing \cup {"invoke", "replicate"},
         pc' = [pc EXCEPT ![t] = label],
         \/ queue' = queue /\ cur' = cur
         \/ /\ queue[t] # << >> /\ queue' = [queue EXCEPT ![t] = Tail(queue[t])]
            /\ cur' = [cur EXCEPT ![t] = Head(queue[t])],
         mine' = mine \/ \E x : mine' = [mine EXCEPT ![t] = x],
         UNCHANGED <<msg, free, publish, delivered, todo, arg, issued>>
  PROVE  Calm
<1>1. /\ pc \in [Tasks -> Labels] /\ mine \in [Tasks -> Messages] /\ cur \in [Tasks -> Messages]
      /\ issued \in [Tasks -> Nat]
  BY DEF BusInv, TaskTypes
<1>2. /\ pc'[t] = label
      /\ \A u \in Tasks : u # t => pc'[u] = pc[u] /\ mine'[u] = mine[u] /\ cur'[u] = cur[u]
  BY <1>1
<1>3. CalmArgument(t)
  BY <1>2 DEF CalmArgument
<1>4. /\ Steady /\ Directed /\ Range(free) \subseteq Range(free')
      /\ \A w \in Workers : SubscribedTwice(w) => SubscribedTwice(w)'
  BY SameMessages
<1>5. issued'[t] \in Nat /\ issued[t] <= issued'[t]
  BY <1>1
<1>6. QED
  BY <1>2, <1>3, <1>4, <1>5, TaskCalm

(***************************************************************************)
(* The calm steps.                                                         *)
(***************************************************************************)
LEMMA ReturnLabels ==
  ASSUME BusInv, NEW t \in Tasks
  PROVE  ret[t] \notin Preparing \cup {"invoke", "replicate"}
<1>1. ret[t] \in Returns
  BY DEF BusInv, TaskTypes
<1>2. QED
  BY <1>1 DEF Returns, Preparing

LEMMA SequenceIncrementCalm ==
  ASSUME BusInv, NEW t \in Tasks, SequenceIncrement(t)
  PROVE  Calm
<1>1. /\ pc[t] = "seq_inc" /\ pc' = [pc EXCEPT ![t] = "seq_ret"]
      /\ UNCHANGED <<msg, free, queue, cur, mine, publish, todo, arg, issued, delivered>>
  BY DEF SequenceIncrement, At, Goto, poolVars, busVars, taskVars, history
<1>2. pc \in [Tasks -> Labels] /\ issued \in [Tasks -> Nat]
  BY DEF BusInv, TaskTypes
<1>3. pc'[t] = "seq_ret" /\ \A u \in Tasks : u # t => pc'[u] = pc[u]
  BY <1>1, <1>2
<1>4. CalmArgument(t)
  BY <1>1 DEF CalmArgument, Preparing
<1>5. /\ Steady /\ Directed /\ Range(free) \subseteq Range(free')
      /\ \A w \in Workers : SubscribedTwice(w) => SubscribedTwice(w)'
  BY <1>1, SameMessages
<1>6. issued'[t] \in Nat /\ issued[t] <= issued'[t]
  BY <1>1, <1>2
<1>7. QED
  BY <1>1, <1>3, <1>4, <1>5, <1>6, TaskCalm

LEMMA SequenceReturnCalm ==
  ASSUME BusInv, NEW t \in Tasks, SequenceReturn(t)
  PROVE  Calm
<1>1. /\ pc[t] = "seq_ret" /\ pc' = [pc EXCEPT ![t] = "alloc"]
      /\ arg' = [arg EXCEPT ![t].seq = sequence]
      /\ UNCHANGED <<msg, free, queue, cur, mine, publish, todo, issued, delivered>>
  BY DEF SequenceReturn, At, Goto, poolVars, busVars, history
<1>2. /\ pc \in [Tasks -> Labels] /\ issued \in [Tasks -> Nat]
      /\ arg \in [Tasks -> ArgumentSet]
  BY DEF BusInv, TaskTypes
<1>3. pc'[t] = "alloc" /\ \A u \in Tasks : u # t => pc'[u] = pc[u]
  BY <1>1, <1>2
<1> DEFINE a == [arg[t] EXCEPT !.seq = sequence]
<1>4. a.type = arg[t].type /\ a.load = arg[t].load /\ a.dst = arg[t].dst
  BY <1>2 DEF ArgumentSet
<1>5. arg' = [arg EXCEPT ![t] = a]
  BY <1>1
<1> HIDE DEF a
<1>6. arg'[t] = a /\ \A u \in Tasks : u # t => arg'[u] = arg[u]
  BY <1>2, <1>5
<1>7. CalmArgument(t)
  BY <1>1, <1>4, <1>6 DEF CalmArgument, Preparing
<1>8. /\ Steady /\ Directed /\ Range(free) \subseteq Range(free')
      /\ \A w \in Workers : SubscribedTwice(w) => SubscribedTwice(w)'
  BY <1>1, SameMessages
<1>9. issued'[t] \in Nat /\ issued[t] <= issued'[t]
  BY <1>1, <1>2
<1>10. QED
  BY <1>1, <1>3, <1>6, <1>7, <1>8, <1>9, TaskCalm

LEMMA NoMessageCalm ==
  ASSUME BusInv, NEW t \in Tasks, NoMessage(t)
  PROVE  Calm
<1>1. /\ pc' = [pc EXCEPT ![t] = ret[t]]
      /\ UNCHANGED <<msg, free, queue, cur, mine, publish, todo, arg, issued, delivered>>
  BY DEF NoMessage, At, Goto, poolVars, busVars, taskVars, history
<1>2. QED
  BY <1>1, ReturnLabels, GoOnCalm

LEMMA InvokePendCalm ==
  ASSUME BusInv, NEW t \in Tasks, InvokePend(t)
  PROVE  Calm
<1>1. /\ pc' = [pc EXCEPT ![t] = ret[t]]
      /\ UNCHANGED <<msg, free, queue, cur, mine, publish, todo, arg, issued, delivered>>
  BY DEF InvokePend, At, Goto, poolVars, busVars, taskVars, history
<1>2. QED
  BY <1>1, ReturnLabels, GoOnCalm

LEMMA InvokeTestCalm ==
  ASSUME BusInv, NEW t \in Tasks, InvokeTest(t)
  PROVE  Calm
<1>1. /\ pc' = [pc EXCEPT ![t] = "pend"] \/ pc' = [pc EXCEPT ![t] = ret[t]]
      /\ UNCHANGED <<msg, free, queue, cur, mine, publish, todo, arg, issued, delivered>>
  BY DEF InvokeTest, At, Goto, poolVars, busVars, history
<1>2. "pend" \notin Preparing \cup {"invoke", "replicate"}
  BY DEF Preparing
<1>3. QED
  BY <1>1, <1>2, ReturnLabels, GoOnCalm

LEMMA RequestEndCalm ==
  ASSUME BusInv, NEW t \in Tasks, RequestEnd(t)
  PROVE  Calm
<1>1. /\ pc' = [pc EXCEPT ![t] = "idle"]
      /\ UNCHANGED <<msg, free, queue, cur, mine, publish, todo, arg, issued, delivered>>
  BY DEF RequestEnd, At, Goto, poolVars, busVars
<1>2. "idle" \notin Preparing \cup {"invoke", "replicate"}
  BY DEF Preparing
<1>3. QED
  BY <1>1, <1>2, GoOnCalm

LEMMA BusReplicateNullCalm ==
  ASSUME BusInv, BusReplicateNull
  PROVE  Calm
<1>1. /\ pc' = [pc EXCEPT ![Bus] = "dead"]
      /\ UNCHANGED <<msg, free, queue, cur, mine, publish, todo, arg, issued, delivered>>
  BY DEF BusReplicateNull, At, Goto, poolVars, busVars, taskVars
<1>2. "dead" \notin Preparing \cup {"invoke", "replicate"}
  BY DEF Preparing
<1>3. QED
  BY <1>1, <1>2, Names, GoOnCalm

LEMMA BusReturnStrayCalm ==
  ASSUME BusInv, BusReturnStray
  PROVE  Calm
<1>1. /\ pc' = [pc EXCEPT ![Bus] = "bus_end"]
      /\ queue[Bus] # << >> /\ queue' = [queue EXCEPT ![Bus] = Tail(queue[Bus])]
      /\ cur' = [cur EXCEPT ![Bus] = Head(queue[Bus])]
      /\ UNCHANGED <<msg, free, mine, publish, todo, arg, issued, delivered>>
  BY DEF BusReturnStray, Receive, Set, At, Goto, poolVars, busVars, history
<1>2. "bus_end" \notin Preparing \cup {"invoke", "replicate"}
  BY DEF Preparing
<1>3. QED
  BY <1>1, <1>2, Names, GoOnCalm

LEMMA BusReturnCalm ==
  ASSUME BusInv, BusReturn
  PROVE  Calm
<1>1. /\ pc' = [pc EXCEPT ![Bus] = "release_call"]
      /\ queue[Bus] # << >> /\ queue' = [queue EXCEPT ![Bus] = Tail(queue[Bus])]
      /\ cur' = [cur EXCEPT ![Bus] = Head(queue[Bus])]
      /\ \E x : mine' = [mine EXCEPT ![Bus] = x]
      /\ UNCHANGED <<msg, free, publish, todo, arg, issued, delivered>>
  BY DEF BusReturn, Receive, Set, At, Goto, poolVars
<1>2. "release_call" \notin Preparing \cup {"invoke", "replicate"}
  BY DEF Preparing
<1>3. QED
  BY <1>1, <1>2, Names, GoOnCalm

(* A task starts to send something that is not a signal.                   *)
LEMMA AskCalm ==
  ASSUME BusInv, NEW t \in Tasks, NEW a, a.type # "SIGNAL",
         NEW label, label \notin {"invoke", "replicate"},
         pc' = [pc EXCEPT ![t] = label], arg' = [arg EXCEPT ![t] = a],
         \/ queue' = queue /\ cur' = cur
         \/ /\ queue[t] # << >> /\ queue' = [queue EXCEPT ![t] = Tail(queue[t])]
            /\ cur' = [cur EXCEPT ![t] = Head(queue[t])],
         issued' = issued \/ issued' = [issued EXCEPT ![t] = issued[t] + 1],
         UNCHANGED <<msg, free, publish, delivered, todo, mine>>
  PROVE  Calm
<1>1. /\ pc \in [Tasks -> Labels] /\ arg \in [Tasks -> ArgumentSet]
      /\ cur \in [Tasks -> Messages] /\ issued \in [Tasks -> Nat]
  BY DEF BusInv, TaskTypes
<1>2. /\ pc'[t] = label /\ arg'[t] = a
      /\ \A u \in Tasks : u # t => pc'[u] = pc[u] /\ arg'[u] = arg[u]
  BY <1>1
<1>3. \A u \in Tasks : u # t => cur'[u] = cur[u]
  BY <1>1
<1>4. /\ \A u \in Tasks : u # t => issued'[u] = issued[u]
      /\ issued'[t] \in Nat /\ issued[t] <= issued'[t]
  BY <1>1
<1>5. CalmArgument(t)
  BY <1>2 DEF CalmArgument
<1>6. /\ Steady /\ Directed /\ Range(free) \subseteq Range(free')
      /\ \A w \in Workers : SubscribedTwice(w) => SubscribedTwice(w)'
  BY SameMessages
<1>7. QED
  BY <1>2, <1>3, <1>4, <1>5, <1>6, TaskCalm

LEMMA MakeRequestCalm ==
  ASSUME BusInv, NEW t \in Workers, NEW o \in Ops[t], MakeRequest(t, o)
  PROVE  Calm
<1> DEFINE id == <<t, issued[t] + 1>>
           load == IF o.type = "SUBSCRIBE" THEN NULL ELSE id
           extra == CASE o.type \in Calls -> id [] o.type = "SUBSCRIBE" -> t [] OTHER -> NULL
           a == [type |-> o.type, major |-> o.major, minor |-> o.minor,
                 dst |-> o.dst, seq |-> 0, load |-> load, extra |-> extra]
<1>1. /\ pc' = [pc EXCEPT ![t] = "seq_inc"] /\ issued[t] < Budget[t]
      /\ issued' = [issued EXCEPT ![t] = issued[t] + 1]
      /\ arg' = [arg EXCEPT ![t] = a]
      /\ UNCHANGED <<msg, free, queue, cur, mine, publish, todo, delivered>>
  BY DEF MakeRequest, Send, At, Goto, Set, poolVars, busVars, history
<1>2. /\ pc \in [Tasks -> Labels] /\ arg \in [Tasks -> ArgumentSet]
      /\ issued \in [Tasks -> Nat] /\ t \in Tasks
  BY Names DEF BusInv, TaskTypes
<1>3. /\ a.type = o.type /\ a.dst = o.dst /\ a.load = load
      /\ o.type = "SIGNAL" => load = id
  OBVIOUS
<1>4. id \in Requests
  BY <1>1, <1>2, NewRequest
<1>5. t \in Publishers => o.dst = NULL
  BY DEF Publishers
<1> HIDE DEF a, load
<1>6. /\ pc'[t] = "seq_inc" /\ arg'[t] = a /\ issued'[t] = issued[t] + 1
      /\ \A u \in Tasks : u # t => pc'[u] = pc[u] /\ arg'[u] = arg[u] /\ issued'[u] = issued[u]
  BY <1>1, <1>2
<1>7. issued'[t] \in Nat /\ issued[t] <= issued'[t] /\ issued[t] < issued'[t]
  BY <1>2, <1>6
<1>8. Newest(t, arg[t])'
  BY <1>3, <1>4, <1>5, <1>6 DEF Newest
<1>9. CalmArgument(t)
  BY <1>7, <1>8 DEF CalmArgument
<1>10. /\ Steady /\ Directed /\ Range(free) \subseteq Range(free')
       /\ \A w \in Workers : SubscribedTwice(w) => SubscribedTwice(w)'
  BY <1>1, SameMessages
<1>11. QED
  BY <1>1, <1>2, <1>6, <1>7, <1>9, <1>10, TaskCalm

LEMMA AnswerDeferredCalm ==
  ASSUME BusInv, NEW t \in Tasks, AnswerDeferred(t)
  PROVE  Calm
<1>1. PICK d \in deferred[t] : arg' = [arg EXCEPT ![t] = CallReturn(d.m, d.load)]
  BY DEF AnswerDeferred, Send, Set
<1>2. /\ pc' = [pc EXCEPT ![t] = "alloc"]
      /\ UNCHANGED <<msg, free, queue, cur, mine, publish, todo, issued, delivered>>
  BY DEF AnswerDeferred, At, Goto, poolVars, busVars, history
<1>3. CallReturn(d.m, d.load).type # "SIGNAL"
  BY DEF CallReturn
<1>4. QED
  BY <1>1, <1>2, <1>3, AskCalm

LEMMA HandleCallCalm ==
  ASSUME BusInv, NEW t \in Workers, HandleCall(t)
  PROVE  Calm
<1>1. /\ queue[t] # << >> /\ queue' = [queue EXCEPT ![t] = Tail(queue[t])]
      /\ cur' = [cur EXCEPT ![t] = Head(queue[t])]
      /\ UNCHANGED <<msg, free, mine, publish, todo, issued, delivered>>
  BY DEF HandleCall, Receive, Set, At, poolVars, busVars
<1>2. \/ \E load : /\ arg' = [arg EXCEPT ![t] = CallReturn(Head(queue[t]), load)]
                   /\ pc' = [pc EXCEPT ![t] = "alloc"]
      \/ pc' = [pc EXCEPT ![t] = "handler_end"] /\ arg' = arg
  BY DEF HandleCall, Send, Set, Goto
<1>3. t \in Tasks
  BY Names
<1>4. CASE \E load : /\ arg' = [arg EXCEPT ![t] = CallReturn(Head(queue[t]), load)]
                     /\ pc' = [pc EXCEPT ![t] = "alloc"]
  <2>1. PICK load : /\ arg' = [arg EXCEPT ![t] = CallReturn(Head(queue[t]), load)]
                    /\ pc' = [pc EXCEPT ![t] = "alloc"]
    BY <1>4
  <2>2. CallReturn(Head(queue[t]), load).type # "SIGNAL"
    BY DEF CallReturn
  <2>3. QED
    BY <1>1, <1>3, <2>1, <2>2, AskCalm
<1>5. CASE pc' = [pc EXCEPT ![t] = "handler_end"] /\ arg' = arg
  <2>1. "handler_end" \notin Preparing \cup {"invoke", "replicate"}
    BY DEF Preparing
  <2>2. QED
    BY <1>1, <1>3, <1>5, <2>1, GoOnCalm
<1>6. QED
  BY <1>2, <1>4, <1>5

(* The bus takes a message and logs what it found.                         *)
LEMMA LogCalm ==
  ASSUME BusInv, NEW label \in Returns, Logger(label), queue[Bus] # << >>,
         queue' = [queue EXCEPT ![Bus] = Tail(queue[Bus])],
         cur' = [cur EXCEPT ![Bus] = Head(queue[Bus])],
         UNCHANGED <<msg, free, publish, delivered, todo, mine>>
  PROVE  Calm
<1>1. CASE issued[Bus] < Budget[Bus]
  <2> DEFINE id == <<Bus, issued[Bus] + 1>>
             a == [type |-> "ASYNC_CALL", major |-> LogService, minor |-> "reply",
                   dst |-> NULL, seq |-> 0, load |-> id, extra |-> id]
  <2>1. /\ issued' = [issued EXCEPT ![Bus] = issued[Bus] + 1]
        /\ arg' = [arg EXCEPT ![Bus] = a] /\ pc' = [pc EXCEPT ![Bus] = "seq_inc"]
    BY <1>1 DEF Logger, Send, Set, Goto
  <2>2. a.type # "SIGNAL"
    OBVIOUS
  <2> HIDE DEF a
  <2>3. QED
    BY <2>1, <2>2, Names, AskCalm
<1>2. CASE ~(issued[Bus] < Budget[Bus])
  <2>1. pc' = [pc EXCEPT ![Bus] = label] /\ UNCHANGED <<issued, arg>>
    BY <1>2 DEF Logger, Goto
  <2>2. label \notin Preparing \cup {"invoke", "replicate"}
    BY DEF Returns, Preparing
  <2>3. QED
    BY <2>1, <2>2, Names, GoOnCalm
<1>3. QED
  BY <1>1, <1>2

LEMMA BusLogCalm ==
  ASSUME BusInv, BusSignalNobody \/ BusReturnNone \/ BusCallUnknown
  PROVE  Calm
<1>1. \E label \in {"idle", "bus_end"} :
        /\ Logger(label) /\ queue[Bus] # << >>
        /\ queue' = [queue EXCEPT ![Bus] = Tail(queue[Bus])]
        /\ cur' = [cur EXCEPT ![Bus] = Head(queue[Bus])]
        /\ UNCHANGED <<msg, free, publish, delivered, todo, mine>>
  BY DEF BusSignalNobody, BusReturnNone, BusCallUnknown, Receive, Set, poolVars, busVars, history
<1>2. {"idle", "bus_end"} \subseteq Returns
  BY DEF Returns
<1>3. QED
  BY <1>1, <1>2, LogCalm

(* A handler ends: its message is released.                                *)
LEMMA EndCalm ==
  ASSUME BusInv, NEW t \in Tasks, NEW x \in Messages, x \notin Range(free),
         mblue_message_release(x),
         NEW label, label \notin Preparing \cup {"invoke", "replicate"},
         pc' = [pc EXCEPT ![t] = label],
         UNCHANGED <<queue, cur, mine, publish, delivered, todo, arg, issued>>
  PROVE  Calm
<1>1. pc \in [Tasks -> Labels] /\ issued \in [Tasks -> Nat]
  BY DEF BusInv, TaskTypes
<1>2. pc'[t] = label /\ \A u \in Tasks : u # t => pc'[u] = pc[u]
  BY <1>1
<1>3. CalmArgument(t)
  BY <1>2 DEF CalmArgument
<1>4. Steady /\ Directed /\ Range(free) \subseteq Range(free')
  BY ReleaseSteady
<1>5. \A w \in Workers : SubscribedTwice(w) => SubscribedTwice(w)'
  BY Zenon DEF SubscribedTwice
<1>6. issued'[t] \in Nat /\ issued[t] <= issued'[t]
  BY <1>1
<1>7. QED
  BY <1>2, <1>3, <1>4, <1>5, <1>6, TaskCalm

LEMMA HandlerEndCalm ==
  ASSUME BusInv, NEW t \in Tasks, HandlerEnd(t)
  PROVE  Calm
<1>1. /\ pc[t] = "handler_end" /\ pc' = [pc EXCEPT ![t] = "idle"]
      /\ mblue_message_release(cur[t])
      /\ UNCHANGED <<queue, cur, mine, publish, delivered, todo, arg, issued>>
  BY DEF HandlerEnd, At, Goto, busVars, taskVars
<1>2. "idle" \notin Preparing \cup {"invoke", "replicate"}
  BY DEF Preparing
<1>3. Handling(t)
  BY <1>1 DEF Handling
<1>4. cur[t] \in Messages /\ cur[t] \notin Range(free)
  BY <1>3, InUse
<1>5. QED
  BY <1>1, <1>2, <1>4, EndCalm

LEMMA BusEndCalm ==
  ASSUME BusInv, BusEnd
  PROVE  Calm
<1>1. /\ pc[Bus] = "bus_end" /\ pc' = [pc EXCEPT ![Bus] = "idle"]
      /\ mblue_message_release(cur[Bus])
      /\ UNCHANGED <<queue, cur, mine, publish, delivered, todo, arg, issued>>
  BY DEF BusEnd, At, Goto, busVars, taskVars, history
<1>2. "idle" \notin Preparing \cup {"invoke", "replicate"}
  BY DEF Preparing
<1>3. Handling(Bus)
  BY <1>1 DEF Handling
<1>4. cur[Bus] \in Messages /\ cur[Bus] \notin Range(free)
  BY <1>3, Names, InUse
<1>5. QED
  BY <1>1, <1>2, <1>4, Names, EndCalm

LEMMA BusReleaseCallCalm ==
  ASSUME BusInv, BusReleaseCall
  PROVE  Calm
<1>1. /\ pc[Bus] = "release_call" /\ pc' = [pc EXCEPT ![Bus] = "bus_end"]
      /\ mblue_message_release(mine[Bus])
      /\ UNCHANGED <<queue, cur, mine, publish, delivered, todo, arg, issued>>
  BY DEF BusReleaseCall, At, Goto, busVars, taskVars, history
<1>2. "bus_end" \notin Preparing \cup {"invoke", "replicate"}
  BY DEF Preparing
<1>3. mine[Bus] \in Messages
  BY Names DEF BusInv, TaskTypes
<1>4. mine[Bus] \notin Range(free)
  <2>1. Awaited(mine[Bus])
    BY <1>1, Names DEF Awaited, Waits
  <2>2. QED
    BY <1>3, <2>1 DEF BusInv, Accounts, AllCounted, Counted
<1>5. QED
  BY <1>1, <1>2, <1>3, <1>4, Names, EndCalm

(* bus_subscribe adds a subscriber and removes none.                       *)
LEMMA BusSubscribeCalm ==
  ASSUME BusInv, BusSubscribe
  PROVE  Calm
<1>1. /\ pc[Bus] = "idle" /\ queue[Bus] # << >>
      /\ msg[Head(queue[Bus])].type = "SUBSCRIBE"
      /\ mblue_message_release(Head(queue[Bus]))
      /\ cur' = [cur EXCEPT ![Bus] = Head(queue[Bus])]
      /\ queue' = [queue EXCEPT ![Bus] = Tail(queue[Bus])]
      /\ publish' = [publish EXCEPT ![Major] =
                       Append(publish[Major], msg[Head(queue[Bus])].extra)]
      /\ UNCHANGED <<pc, mine, todo, arg, issued, delivered>>
  BY DEF BusSubscribe, Receive, Set, At, history
<1>2. /\ cur \in [Tasks -> Messages] /\ issued \in [Tasks -> Nat] /\ Bus \in Tasks
      /\ queue \in [Tasks -> Seq(Messages)] /\ publish \in [Workers -> Seq(Workers)]
      /\ OnePlace /\ NoRepeats
  BY Names DEF BusInv, TaskTypes, PoolTypes, BusTypes, Accounts
<1>3. /\ Head(queue[Bus]) \in Messages /\ Head(queue[Bus]) \notin Range(free)
      /\ WellMade(msg[Head(queue[Bus])]) /\ msg[Head(queue[Bus])] \in MessageSet
  BY <1>1, <1>2, QueueHead, TakenMade
<1>4. Steady /\ Directed /\ Range(free) \subseteq Range(free')
  BY <1>1, <1>3, ReleaseSteady
<1>5. PICK v \in Workers, s \in Workers : v = Major /\ s = msg[Head(queue[Bus])].extra
  BY <1>1, <1>3 DEF Major, MessageSet, WellMade
<1>6. \A u \in Workers : \A i \in DOMAIN publish[u] :
        i \in DOMAIN publish'[u] /\ publish'[u][i] = publish[u][i]
  <2>1. SUFFICES ASSUME NEW u \in Workers, NEW i \in DOMAIN publish[u]
                 PROVE  i \in DOMAIN publish'[u] /\ publish'[u][i] = publish[u][i]
    OBVIOUS
  <2>2. publish' = [publish EXCEPT ![v] = Append(publish[v], s)]
    BY <1>1, <1>5
  <2>3. /\ u # v => publish'[u] = publish[u]
        /\ u = v => publish'[u] = Append(publish[u], s)
    BY <1>2, <2>2
  <2>4. i \in DOMAIN Append(publish[u], s) /\ Append(publish[u], s)[i] = publish[u][i]
    <3>1. publish[u] \in Seq(Workers) /\ i \in 1 .. Len(publish[u]) /\ Len(publish[u]) \in Nat
      BY <1>2, <2>1, LenProperties
    <3>2. QED
      BY <3>1, AppendProperties, LenProperties
  <2>5. QED
    BY <2>1, <2>3, <2>4
<1>7. \A w \in Workers : SubscribedTwice(w) => SubscribedTwice(w)'
  BY <1>6 DEF SubscribedTwice
<1>8. /\ issued'[Bus] \in Nat /\ issued[Bus] <= issued'[Bus]
      /\ \A u \in Tasks : u # Bus => cur'[u] = cur[u]
  BY <1>1, <1>2
<1>9. CalmArgument(Bus)
  BY <1>1 DEF CalmArgument, Preparing
<1>10. QED
  BY <1>1, <1>2, <1>4, <1>7, <1>8, <1>9, TaskCalm

(* bus_call passes a call on, which is no signal.                          *)
LEMMA BusCallCalm ==
  ASSUME BusInv, BusCall
  PROVE  Calm
<1>1. /\ cur \in [Tasks -> Messages] /\ Bus \in Tasks /\ issued \in [Tasks -> Nat]
      /\ msg \in [Messages -> MessageSet] /\ OnePlace /\ NoRepeats
      /\ queue \in [Tasks -> Seq(Messages)]
  BY Names DEF BusInv, TaskTypes, PoolTypes, Accounts
<1>2. pc[Bus] = "idle" /\ queue[Bus] # << >> /\ Major \in Registered
  BY DEF BusCall, At
<1>3. PICK x \in Messages : x = Head(queue[Bus])
  BY <1>1, <1>2, QueueHead
<1>4. PICK w \in Workers : w = Major
  BY <1>2, TasksAssumption
<1>5. w \in Tasks /\ w # Bus /\ x \notin Range(free)
  BY <1>1, <1>2, <1>3, Names, QueueHead
<1> DEFINE r == [msg[x] EXCEPT !.ref = GetRef(x), !.dst = w]
<1>6. /\ msg[x].type \in Calls
      /\ cur' = [cur EXCEPT ![Bus] = x]
      /\ UNCHANGED <<pc, free, mine, publish, todo, arg, issued, delivered>>
  BY <1>3, <1>4 DEF BusCall, Set, history
<1>7. msg' = [msg EXCEPT ![x] = r]
  BY <1>3, <1>4 DEF BusCall
<1>8. /\ queue'[Bus] = Tail(queue[Bus])
      /\ \A u \in Tasks : u # Bus /\ u # w => queue'[u] = queue[u]
      /\ queue'[w] = Append(queue[w], x) \/ queue'[w] = queue[w]
  <2>1. queue' = [queue EXCEPT ![Bus] = Tail(@), ![w] = IF Fits(w) THEN Append(@, x) ELSE @]
    BY <1>3, <1>4 DEF BusCall
  <2>2. QED
    BY <2>1, <1>1, <1>5
<1>9. r.type = msg[x].type /\ r.load = msg[x].load
  BY <1>1 DEF MessageSet
<1> HIDE DEF r
<1>10. msg'[x] = r /\ \A m \in Messages : m # x => msg'[m] = msg[m]
  BY <1>1, <1>7
<1>11. msg[x].type # "SIGNAL"
  BY <1>6 DEF Calls
<1>12. Steady /\ Directed
  BY <1>9, <1>10, <1>11 DEF Steady, Directed, SameWay
<1>13. \A w2 \in Workers : SubscribedTwice(w2) => SubscribedTwice(w2)'
  BY <1>6, Zenon DEF SubscribedTwice
<1>14. \A u \in Tasks : CalmQueue(u)
  BY <1>2, <1>5, <1>8, <1>11 DEF CalmQueue
<1>15. CalmArgument(Bus)
  BY <1>2, <1>6 DEF CalmArgument, Preparing
<1>16. /\ issued'[Bus] \in Nat /\ issued[Bus] <= issued'[Bus]
       /\ \A u \in Tasks : u # Bus => cur'[u] = cur[u]
  BY <1>1, <1>6
<1>17. pc'[Bus] \notin {"invoke", "replicate"} /\ Range(free) \subseteq Range(free')
  BY <1>2, <1>6
<1>18. QED
  BY <1>1, <1>6, <1>12, <1>13, <1>14, <1>15, <1>16, <1>17, OneTaskCalm

(***************************************************************************)
(* default_signal_handler: a signal goes from the head of a queue to the   *)
(* end of what was delivered.                                              *)
(***************************************************************************)
LEMMA GotEnd ==
  ASSUME NEW w \in Workers, NEW r \in Requests, delivered[w] \in Seq(Requests),
         delivered'[w] = Append(delivered[w], r)
  PROVE  \A q, s : /\ Got(w, q)' => Got(w, q) \/ q = r
                   /\ GotAhead(w, q, s)' => GotAhead(w, q, s) \/ (Got(w, q) /\ s = r)
<1>1. PICK d, e : d = delivered[w] /\ e = Append(d, r)
  OBVIOUS
<1>2. /\ Len(d) \in Nat /\ DOMAIN d = 1 .. Len(d) /\ DOMAIN e = 1 .. Len(d) + 1
      /\ e[Len(d) + 1] = r /\ \A i \in DOMAIN d : e[i] = d[i]
      /\ \A i \in DOMAIN e : i \in DOMAIN d \/ i = Len(d) + 1
  <2>1. /\ e \in Seq(Requests) /\ Len(e) = Len(d) + 1 /\ Len(d) \in Nat
        /\ DOMAIN d = 1 .. Len(d) /\ DOMAIN e = 1 .. Len(e)
        /\ \A i \in 1 .. Len(d) : e[i] = d[i]
        /\ e[Len(d) + 1] = r
    BY <1>1, AppendProperties, LenProperties
  <2>2. QED
    BY <2>1
<1>3. delivered'[w] = e
  BY <1>1
<1>4. ASSUME NEW q
      PROVE  Got(w, q)' => Got(w, q) \/ q = r
  <2>1. SUFFICES ASSUME NEW i \in DOMAIN e, e[i] = q
                 PROVE  (\E k \in DOMAIN d : d[k] = q) \/ q = r
    BY <1>1, <1>3, Zenon DEF Got
  <2>2. QED
    BY <1>2, <2>1
<1>5. ASSUME NEW q, NEW s
      PROVE  GotAhead(w, q, s)' => GotAhead(w, q, s) \/ (Got(w, q) /\ s = r)
  <2>1. SUFFICES ASSUME NEW i \in DOMAIN e, NEW j \in DOMAIN e, i < j, e[i] = q, e[j] = s
                 PROVE  \/ \E k, l \in DOMAIN d : k < l /\ d[k] = q /\ d[l] = s
                        \/ (\E k \in DOMAIN d : d[k] = q) /\ s = r
    BY <1>1, <1>3, Zenon DEF GotAhead, Got
  <2>2. i \in DOMAIN d /\ d[i] = q
    BY <1>2, <2>1
  <2>3. CASE j \in DOMAIN d
    BY <1>2, <2>1, <2>2, <2>3
  <2>4. CASE j = Len(d) + 1
    BY <1>2, <2>1, <2>2, <2>4
  <2>5. QED
    BY <1>2, <2>3, <2>4
<1>6. QED
  BY <1>4, <1>5, Zenon

LEMMA HandledReached ==
  ASSUME BusInv, Steady, NEW t \in Workers, queue[t] # << >>, queue'[t] = Tail(queue[t]),
         NEW r \in Requests, r = msg[Head(queue[t])].load, msg[Head(queue[t])].type = "SIGNAL",
         delivered[t] \in Seq(Requests), delivered'[t] = Append(delivered[t], r), NEW p
  PROVE  \A a, b : /\ Reached(t, p, a)' => Reached(t, p, a)
                   /\ ReachedAhead(t, p, a, b)' => ReachedAhead(t, p, a, b)
<1>1. \A a, b : /\ Holds(t, p, a)' => Holds(t, p, a)
                /\ Ahead(t, p, a, b)' => Ahead(t, p, a, b)
                /\ Carries(Head(queue[t]), p, a) => Holds(t, p, a)
                /\ Carries(Head(queue[t]), p, a) /\ Holds(t, p, b)' => Ahead(t, p, a, b)
  BY Names, QueueTail
<1>2. \A q, s : /\ Got(t, q)' => Got(t, q) \/ q = r
                /\ GotAhead(t, q, s)' => GotAhead(t, q, s) \/ (Got(t, q) /\ s = r)
  BY GotEnd
<1>3. \A a : <<p, a>> = r => Carries(Head(queue[t]), p, a)
  BY DEF Carries
<1>4. ASSUME NEW a, NEW b
      PROVE  /\ Reached(t, p, a)' => Reached(t, p, a)
             /\ ReachedAhead(t, p, a, b)' => ReachedAhead(t, p, a, b)
  <2>1. Got(t, <<p, a>>)' => Got(t, <<p, a>>) \/ Carries(Head(queue[t]), p, a)
    BY <1>2, <1>3
  <2>2. GotAhead(t, <<p, a>>, <<p, b>>)' =>
          \/ GotAhead(t, <<p, a>>, <<p, b>>)
          \/ Got(t, <<p, a>>) /\ Carries(Head(queue[t]), p, b)
    BY <1>2, <1>3
  <2>3. /\ Holds(t, p, a)' => Holds(t, p, a)
        /\ Holds(t, p, b)' => Holds(t, p, b)
        /\ Ahead(t, p, a, b)' => Ahead(t, p, a, b)
        /\ Carries(Head(queue[t]), p, a) => Holds(t, p, a)
        /\ Carries(Head(queue[t]), p, b) => Holds(t, p, b)
        /\ Carries(Head(queue[t]), p, a) /\ Holds(t, p, b)' => Ahead(t, p, a, b)
    BY <1>1
  <2>4. QED
    BY <2>1, <2>2, <2>3, Zenon DEF Reached, ReachedAhead
<1>5. QED
  BY <1>4

LEMMA HandleSignalOrder ==
  ASSUME OrderInv, NEW t \in Workers, HandleSignal(t)
  PROVE  Forms' /\ \A p \in Publishers : InOrder(p)'
<1>1. /\ pc[t] = "idle" /\ pc' = [pc EXCEPT ![t] = "handler_end"]
      /\ queue[t] # << >> /\ msg[Head(queue[t])].type = "SIGNAL"
      /\ cur' = [cur EXCEPT ![t] = Head(queue[t])]
      /\ queue' = [queue EXCEPT ![t] = Tail(queue[t])]
      /\ delivered' = [delivered EXCEPT ![t] = Append(delivered[t], msg[Head(queue[t])].load)]
      /\ UNCHANGED <<msg, free, mine, publish, todo, arg, issued>>
  BY DEF HandleSignal, Receive, Set, At, Goto, poolVars, busVars
<1>2. /\ BusInv /\ Forms /\ pc \in [Tasks -> Labels] /\ cur \in [Tasks -> Messages]
      /\ queue \in [Tasks -> Seq(Messages)] /\ delivered \in [Workers -> Seq(Requests)]
      /\ issued \in [Tasks -> Nat] /\ t \in Tasks /\ t # Bus /\ Bus \in Tasks
      /\ OnePlace /\ NoRepeats
  BY Names DEF OrderInv, Forms, BusInv, TaskTypes, PoolTypes, Accounts
<1>3. Head(queue[t]) \in Messages /\ Head(queue[t]) \notin Range(free)
  BY <1>1, <1>2, QueueHead
<1>4. PICK r \in Requests : r = msg[Head(queue[t])].load
  BY <1>1, <1>2, <1>3 DEF Forms, SignalsNamed
<1>5. /\ pc'[t] = "handler_end" /\ \A u \in Tasks : u # t => pc'[u] = pc[u] /\ cur'[u] = cur[u]
      /\ queue'[t] = Tail(queue[t]) /\ \A u \in Tasks : u # t => queue'[u] = queue[u]
  BY <1>1, <1>2
<1>6. /\ delivered' \in [Workers -> Seq(Requests)]
      /\ delivered'[t] = Append(delivered[t], r)
      /\ \A w \in Workers : w # t => delivered'[w] = delivered[w]
  <2>1. delivered[t] \in Seq(Requests) /\ Append(delivered[t], r) \in Seq(Requests)
    BY <1>2, AppendProperties
  <2>2. delivered' = [delivered EXCEPT ![t] = Append(delivered[t], r)]
    BY <1>1, <1>4
  <2>3. QED
    BY <1>2, <2>1, <2>2
<1>7. /\ Steady /\ Directed /\ Range(free) \subseteq Range(free')
      /\ \A w \in Workers : SubscribedTwice(w) => SubscribedTwice(w)'
  BY <1>1, SameMessages
<1>8. \A u \in Tasks : CalmSender(u)
  BY <1>1, <1>5 DEF CalmSender, CalmArgument, SameWay, Preparing
<1>9. Forms'
  <2>1. SentNewest'
    BY <1>2, <1>7, <1>8, NewestKept DEF SentNewest
  <2>2. SignalsNamed'
    BY <1>2, <1>7, NamesKept
  <2>3. CopiedOnce'
    BY <1>1, <1>2, <1>7, Zenon DEF Forms, CopiedOnce
  <2>4. QED
    BY <1>6, <2>1, <2>2, <2>3 DEF Forms
<1>10. ASSUME NEW p \in Publishers
       PROVE  InOrder(p)'
  <2>1. p \in Tasks /\ issued[p] \in Nat /\ InOrder(p)
    BY <1>2, Names DEF Publishers, OrderInv
  <2>2. ASSUME NEW w \in Workers
        PROVE  \A a, b : /\ Reached(w, p, a)' => Reached(w, p, a)
                         /\ ReachedAhead(w, p, a, b)' => ReachedAhead(w, p, a, b)
    <3>1. CASE w = t
      <4>1. \A a, b : /\ Reached(t, p, a)' => Reached(t, p, a)
                      /\ ReachedAhead(t, p, a, b)' => ReachedAhead(t, p, a, b)
        BY <1>1, <1>2, <1>4, <1>5, <1>6, <1>7, HandledReached
      <4>2. QED
        BY <3>1, <4>1
    <3>2. CASE w # t
      <4>1. w \in Tasks /\ queue'[w] = queue[w] /\ delivered'[w] = delivered[w]
        BY <1>5, <1>6, <3>2, Names
      <4>2. \A a, b : /\ Holds(w, p, a)' => Holds(w, p, a)
                      /\ Ahead(w, p, a, b)' => Ahead(w, p, a, b)
        BY <1>2, <1>7, <4>1, QueueSame
      <4>3. \A q, s : /\ Got(w, q)' <=> Got(w, q)
                      /\ GotAhead(w, q, s)' <=> GotAhead(w, q, s)
        BY <4>1, Zenon DEF Got, GotAhead
      <4>4. QED
        BY <4>2, <4>3, Zenon DEF Reached, ReachedAhead
    <3>3. QED
      BY <3>1, <3>2
  <2>3. \A a, b \in Nat : /\ Holds(Bus, p, a)' => Holds(Bus, p, a)
                          /\ Ahead(Bus, p, a, b)' => Ahead(Bus, p, a, b)
                          /\ Copied(p, a)' => Copied(p, a)
    <3>1. \A a, b : /\ Holds(Bus, p, a)' => Holds(Bus, p, a)
                    /\ Ahead(Bus, p, a, b)' => Ahead(Bus, p, a, b)
      BY <1>2, <1>5, <1>7, QueueSame
    <3>2. pc'[Bus] = "replicate" => pc[Bus] = "replicate" /\ cur'[Bus] = cur[Bus]
      BY <1>2, <1>5
    <3>3. \A n : Copied(p, n)' => Copied(p, n)
      BY <1>2, <1>7, <3>2, CopiedKept
    <3>4. QED
      BY <3>1, <3>3, Zenon
  <2>4. Sends(p)' => Sends(p) \/ issued[p] < issued'[p]
    BY <1>2, <1>7, <1>8, <2>1, SendsKept
  <2>5. issued'[p] \in Nat /\ issued[p] <= issued'[p] /\ todo' = todo
    BY <1>1, <2>1
  <2>6. QED
    BY <1>7, <2>1, <2>2, <2>3, <2>4, <2>5, KeptOrder
<1>11. QED
  BY <1>9, <1>10

(***************************************************************************)
(* init_message: the signal is in a message of the sender's own.           *)
(***************************************************************************)
LEMMA InitMessageOrder ==
  ASSUME OrderInv, NEW t \in Tasks, InitMessage(t)
  PROVE  Forms' /\ \A p \in Publishers : InOrder(p)'
<1> DEFINE c == arg[t]
           r == [seq |-> c.seq, ref |-> IF c.type \in Calls THEN 1 ELSE 0,
                 type |-> c.type, major |-> c.major, minor |-> c.minor,
                 src |-> t, dst |-> c.dst, load |-> c.load, extra |-> c.extra]
<1>1. /\ pc[t] = "alloc" /\ pc' = [pc EXCEPT ![t] = "invoke"] /\ free # << >>
      /\ msg' = [msg EXCEPT ![Head(free)] = r]
      /\ mine' = [mine EXCEPT ![t] = Head(free)]
      /\ free' = Tail(free)
      /\ UNCHANGED <<queue, cur, publish, todo, arg, issued, delivered>>
  BY DEF InitMessage, Set, At, Goto, busVars, history
<1>2. /\ BusInv /\ Forms /\ pc \in [Tasks -> Labels] /\ mine \in [Tasks -> Messages]
      /\ PoolTypes /\ Accounts /\ msg \in [Messages -> MessageSet] /\ issued \in [Tasks -> Nat]
      /\ Bus \in Tasks
  BY Names DEF OrderInv, BusInv, TaskTypes, PoolTypes
<1>3. PICK x \in Messages : x = Head(free)
  BY <1>1, <1>2, FreeHead
<1>4. x \in Range(free) /\ Range(free') = Range(free) \ {x}
  BY <1>1, <1>2, <1>3, FreeHead
<1>5. r.type = c.type /\ r.load = c.load /\ r.dst = c.dst
  OBVIOUS
<1> HIDE DEF r
<1>6. /\ msg'[x] = r /\ \A m \in Messages : m # x => msg'[m] = msg[m]
      /\ mine'[t] = x /\ \A u \in Tasks : u # t => mine'[u] = mine[u]
      /\ pc'[t] = "invoke" /\ \A u \in Tasks : u # t => pc'[u] = pc[u]
  BY <1>1, <1>2, <1>3
<1>7. Steady /\ Directed
  BY <1>4, <1>6 DEF Steady, Directed, SameWay
<1>8. \A u \in Tasks : u # t => CalmSender(u)
  <2>1. SUFFICES ASSUME NEW u \in Tasks, u # t
                 PROVE  CalmSender(u)
    OBVIOUS
  <2>2. pc[u] = "invoke" => SameWay(mine[u])
    BY <1>2, <1>7, InUse DEF Directed
  <2>3. QED
    BY <1>1, <1>6, <2>1, <2>2 DEF CalmSender, CalmArgument
<1>9. Newest(t, c)
  BY <1>1, <1>2 DEF Forms, SentNewest, Preparing
<1>10. \A w \in Workers : SubscribedTwice(w) <=> SubscribedTwice(w)'
  BY <1>1, Zenon DEF SubscribedTwice
<1>11. Forms'
  <2>1. Newest(t, msg[mine[t]])'
    BY <1>1, <1>5, <1>6, <1>9 DEF Newest
  <2>2. SentNewest'
    <3>1. SUFFICES ASSUME NEW u \in Tasks
                   PROVE  /\ pc'[u] \in Preparing => Newest(u, arg[u])'
                          /\ pc'[u] = "invoke" => Newest(u, msg[mine[u]])'
      BY DEF SentNewest
    <3>2. CASE u = t
      BY <1>6, <2>1, <3>2 DEF Preparing
    <3>3. CASE u # t
      BY <1>2, <1>7, <1>8, <3>3, NewestKept
    <3>4. QED
      BY <3>2, <3>3
  <2>3. SignalsNamed'
    <3>1. SUFFICES ASSUME NEW m \in Messages, m \notin Range(free'), msg'[m].type = "SIGNAL"
                   PROVE  msg'[m].load \in Requests
      BY DEF SignalsNamed
    <3>2. CASE m = x
      BY <1>5, <1>6, <1>9, <3>1, <3>2 DEF Newest
    <3>3. CASE m # x
      <4>1. m \notin Range(free) /\ msg'[m] = msg[m]
        BY <1>4, <1>6, <3>1, <3>3
      <4>2. QED
        BY <1>2, <3>1, <4>1 DEF Forms, SignalsNamed
    <3>4. QED
      BY <3>2, <3>3
  <2>4. CopiedOnce'
    BY <1>1, <1>2, <1>10, Zenon DEF Forms, CopiedOnce
  <2>5. QED
    BY <1>1, <1>2, <2>2, <2>3, <2>4 DEF Forms
<1>12. ASSUME NEW p \in Publishers
       PROVE  InOrder(p)'
  <2>1. p \in Tasks /\ InOrder(p)
    BY Names DEF Publishers, OrderInv
  <2>2. \A u \in Tasks : Dwindles(u, p)
    BY <1>1 DEF Dwindles
  <2>3. pc'[Bus] = "replicate" => pc[Bus] = "replicate" /\ cur'[Bus] = cur[Bus]
    BY <1>1, <1>2, <1>6
  <2>4. Sends(p)' => Sends(p) \/ issued[p] < issued'[p]
    <3>1. CASE p = t
      BY <1>1, <1>5, <1>6, <3>1 DEF Sends, Preparing
    <3>2. CASE p # t
      BY <1>2, <1>7, <1>8, <2>1, <3>2, SendsKept
    <3>3. QED
      BY <3>1, <3>2
  <2>5. issued'[p] \in Nat /\ issued[p] <= issued'[p]
    BY <1>1, <1>2, <2>1
  <2>6. QED
    BY <1>1, <1>2, <1>7, <1>10, <2>1, <2>2, <2>3, <2>4, <2>5, QuietOrder
<1>13. QED
  BY <1>11, <1>12

(***************************************************************************)
(* ipc_invoke: a publisher's signal goes to the end of the bus's queue. It *)
(* is newer than all that are on their way.                                *)
(***************************************************************************)
LEMMA PostedOrder ==
  ASSUME BusInv, NEW p \in Publishers, InOrder(p), Sends(p), ~Sends(p)', Steady,
         NEW x \in Messages, queue'[Bus] = Append(queue[Bus], x),
         \A n \in Nat : Carries(x, p, n)' => n = issued[p],
         \A w \in Workers : queue'[w] = queue[w],
         delivered' = delivered, todo' = todo, issued'[p] = issued[p],
         pc'[Bus] = "replicate" => pc[Bus] = "replicate" /\ cur'[Bus] = cur[Bus],
         \A w \in Workers : SubscribedTwice(w) <=> SubscribedTwice(w)'
  PROVE  InOrder(p)'
<1>1. issued[p] \in Nat /\ Bus \in Tasks
  BY Names DEF Publishers, BusInv, TaskTypes
<1>2. \A w \in Workers, a, b \in Nat :
        /\ Reached(w, p, a)' => Reached(w, p, a)
        /\ ReachedAhead(w, p, a, b)' => ReachedAhead(w, p, a, b)
  BY Names, ReachedKept DEF Dwindles
<1>3. \A a, b \in Nat :
        /\ Holds(Bus, p, a)' => Holds(Bus, p, a) \/ a = issued[p]
        /\ Ahead(Bus, p, a, b)' => Ahead(Bus, p, a, b) \/ (Holds(Bus, p, a) /\ b = issued[p])
  <2>1. \A a, b :
          /\ Holds(Bus, p, a)' => Holds(Bus, p, a) \/ Carries(x, p, a)'
          /\ Ahead(Bus, p, a, b)' => Ahead(Bus, p, a, b) \/ (Holds(Bus, p, a) /\ Carries(x, p, b)')
    BY <1>1, QueueEnd
  <2>2. QED
    BY <2>1, Zenon
<1>4. \A a \in Nat : Copied(p, a)' => Copied(p, a)
  BY CopiedKept
<1>5. \A n \in Nat : Holds(Bus, p, n) \/ Copied(p, n) \/ (\E w \in Workers : Reached(w, p, n))
                       => n < issued[p]
  BY Zenon DEF InOrder, SentInOrder
<1>6. \A w \in Workers, a, b \in Nat : Follows(w, a, b) => Follows(w, a, b)'
  BY DEF Follows
<1>7. ReachedInOrder(p)'
  BY <1>2, <1>6, Zenon DEF InOrder, ReachedInOrder
<1>8. CopiedInOrder(p)'
  <2>1. SUFFICES ASSUME NEW w \in Workers, NEW a \in Nat, NEW b \in Nat,
                        Reached(w, p, a)', Copied(p, b)'
                 PROVE  a <= b /\ (w \in Range(todo) => Follows(w, a, b)')
    BY Zenon DEF CopiedInOrder
  <2>2. a <= b /\ (w \in Range(todo) => Follows(w, a, b))
    BY <1>2, <1>4, <2>1, Zenon DEF InOrder, CopiedInOrder
  <2>3. QED
    BY <1>6, <2>2
<1>9. BusInOrder(p)'
  <2>1. SUFFICES ASSUME NEW a \in Nat, NEW b \in Nat
                 PROVE  /\ Ahead(Bus, p, a, b)' => a < b
                        /\ Copied(p, a)' /\ Holds(Bus, p, b)' => a < b
                        /\ \A w \in Workers : Reached(w, p, a)' /\ Holds(Bus, p, b)' => a < b
    BY Zenon DEF BusInOrder
  <2>2. /\ Ahead(Bus, p, a, b) => a < b
        /\ Copied(p, a) /\ Holds(Bus, p, b) => a < b
        /\ \A w \in Workers : Reached(w, p, a) /\ Holds(Bus, p, b) => a < b
    BY Zenon DEF InOrder, BusInOrder
  <2>3. QED
    BY <1>2, <1>3, <1>4, <1>5, <2>2, Zenon
<1>10. SentInOrder(p)'
  <2>1. SUFFICES ASSUME NEW n \in Nat,
                        Holds(Bus, p, n)' \/ Copied(p, n)' \/ (\E w \in Workers : Reached(w, p, n)')
                 PROVE  n <= issued[p]
    BY Zenon DEF SentInOrder
  <2>2. n = issued[p] \/ n < issued[p]
    BY <1>2, <1>3, <1>4, <1>5, <2>1, Zenon
  <2>3. QED
    BY <1>1, <2>2
<1>11. QED
  BY <1>7, <1>8, <1>9, <1>10 DEF InOrder

LEMMA InvokePostOrder ==
  ASSUME OrderInv, NEW t \in Tasks, InvokePost(t)
  PROVE  Forms' /\ \A p \in Publishers : InOrder(p)'
<1>1. /\ BusInv /\ Forms /\ pc \in [Tasks -> Labels] /\ mine \in [Tasks -> Messages]
      /\ msg \in [Messages -> MessageSet] /\ queue \in [Tasks -> Seq(Messages)]
      /\ issued \in [Tasks -> Nat] /\ Bus \in Tasks /\ OnePlace
  BY Names DEF OrderInv, BusInv, TaskTypes, PoolTypes, Accounts
<1>2. PICK x \in Messages : x = mine[t]
  BY <1>1
<1>3. PICK d \in Tasks : d = IF msg[x].dst = NULL THEN Bus ELSE msg[x].dst
  BY <1>1, Names DEF MessageSet
<1>4. /\ pc[t] = "invoke" /\ pc' = [pc EXCEPT ![t] = "test"]
      /\ msg' = [msg EXCEPT ![x].dst = d]
      /\ template_msg_post(d, x)
      /\ UNCHANGED <<free, mine, cur, publish, todo, arg, issued, delivered>>
  BY <1>2, <1>3 DEF InvokePost, At, Goto, busVars, taskVars, history
<1> DEFINE r == [msg[x] EXCEPT !.dst = d]
<1>5. r.type = msg[x].type /\ r.load = msg[x].load /\ msg' = [msg EXCEPT ![x] = r]
  BY <1>1, <1>4 DEF MessageSet
<1> HIDE DEF r
<1>6. /\ msg'[x] = r /\ \A m \in Messages : m # x => msg'[m] = msg[m]
      /\ pc'[t] = "test" /\ \A u \in Tasks : u # t => pc'[u] = pc[u]
  BY <1>1, <1>4, <1>5
<1>7. Steady
  BY <1>5, <1>6 DEF Steady
<1>8. \A u \in Tasks : CalmSender(u)
  <2>1. SUFFICES ASSUME NEW u \in Tasks
                 PROVE  CalmSender(u)
    OBVIOUS
  <2>2. CASE u = t
    BY <1>6, <2>2 DEF CalmSender, CalmArgument, Preparing
  <2>3. CASE u # t
    <3>1. ASSUME pc[u] = "invoke"
          PROVE  mine[u] # x /\ mine[u] \in Messages
      <4>1. IsAt(mine[u], "sender", u) /\ IsAt(x, "sender", t)
        BY <1>2, <1>4, <3>1 DEF IsAt
      <4>2. QED
        BY <1>1, <2>3, <4>1 DEF OnePlace, Kinds
    <3>2. pc[u] = "invoke" => SameWay(mine[u])
      BY <1>6, <3>1 DEF SameWay
    <3>3. QED
      BY <1>4, <1>6, <2>3, <3>2 DEF CalmSender, CalmArgument
  <2>4. QED
    BY <2>2, <2>3
<1>9. \A w \in Workers : SubscribedTwice(w) <=> SubscribedTwice(w)'
  BY <1>4, Zenon DEF SubscribedTwice
<1>10. Newest(t, msg[x])
  BY <1>1, <1>2, <1>4 DEF Forms, SentNewest
<1>11. pc'[Bus] = "replicate" => pc[Bus] = "replicate" /\ cur'[Bus] = cur[Bus]
  BY <1>1, <1>4, <1>6
<1>12. \/ queue' = queue
       \/ queue'[d] = Append(queue[d], x) /\ \A u \in Tasks : u # d => queue'[u] = queue[u]
  BY <1>1, <1>4 DEF template_msg_post
<1>13. Forms'
  <2>1. SentNewest'
    BY <1>1, <1>7, <1>8, NewestKept DEF SentNewest
  <2>2. SignalsNamed'
    BY <1>1, <1>4, <1>7, NamesKept
  <2>3. CopiedOnce'
    BY <1>1, <1>4, <1>9, Zenon DEF Forms, CopiedOnce
  <2>4. QED
    BY <1>1, <1>4, <2>1, <2>2, <2>3 DEF Forms
<1>14. ASSUME NEW p \in Publishers
       PROVE  InOrder(p)'
  <2>1. /\ p \in Tasks /\ InOrder(p)
        /\ issued'[p] \in Nat /\ issued[p] <= issued'[p] /\ issued'[p] = issued[p]
    <3>1. p \in Tasks /\ InOrder(p) /\ issued' = issued
      BY <1>4, Names DEF Publishers, OrderInv
    <3>2. issued[p] \in Nat
      BY <1>1, <3>1
    <3>3. QED
      BY <3>1, <3>2
  <2>2. Sends(p)' => Sends(p) \/ issued[p] < issued'[p]
    BY <1>1, <1>7, <1>8, <2>1, SendsKept
  <2>3. ASSUME \A u \in Tasks : Dwindles(u, p)
        PROVE  InOrder(p)'
    BY <1>1, <1>4, <1>7, <1>9, <1>11, <2>1, <2>2, <2>3, QuietOrder
  <2>4. CASE queue' = queue
    BY <2>3, <2>4 DEF Dwindles
  <2>5. CASE queue'[d] = Append(queue[d], x) /\ \A u \in Tasks : u # d => queue'[u] = queue[u]
    <3>1. CASE msg[x].type = "SIGNAL" /\ p = t
      <4>1. /\ msg[x].load = <<p, issued[p]>> /\ msg[x].dst = NULL /\ d = Bus
        BY <1>3, <1>10, <3>1 DEF Newest
      <4>2. \A n \in Nat : Carries(x, p, n)' => n = issued[p]
        <5>1. msg'[x].load = <<p, issued[p]>>
          BY <1>5, <1>6, <4>1
        <5>2. QED
          BY <5>1 DEF Carries
      <4>3. Sends(p)
        BY <1>2, <1>4, <3>1 DEF Sends
      <4>4. ~Sends(p)'
        BY <1>6, <3>1 DEF Sends, Preparing
      <4>5. \A w \in Workers : queue'[w] = queue[w]
        BY <2>5, <4>1, Names
      <4>6. queue'[Bus] = Append(queue[Bus], x)
        BY <2>5, <4>1
      <4>7. delivered' = delivered /\ todo' = todo
        BY <1>4
      <4>8. QED
        BY <1>1, <1>7, <1>9, <1>11, <2>1, <4>2, <4>3, <4>4, <4>5, <4>6, <4>7, PostedOrder
    <3>2. CASE ~(msg[x].type = "SIGNAL" /\ p = t)
      <4>1. \A n : ~Carries(x, p, n)'
        <5>1. SUFFICES ASSUME NEW n, msg[x].type = "SIGNAL", msg[x].load = <<p, n>>
                       PROVE  FALSE
          BY <1>5, <1>6 DEF Carries
        <5>2. msg[x].load = <<t, issued[t]>>
          BY <1>10, <5>1 DEF Newest
        <5>3. QED
          BY <3>2, <5>1, <5>2
      <4>2. \A u \in Tasks : Dwindles(u, p)
        BY <2>5, <4>1 DEF Dwindles
      <4>3. QED
        BY <2>3, <4>2
    <3>3. QED
      BY <3>1, <3>2
  <2>6. QED
    BY <1>12, <2>4, <2>5
<1>15. QED
  BY <1>13, <1>14

(***************************************************************************)
(* bus_signal: a signal leaves the bus's queue and is to be copied to the  *)
(* subscribers of its segment.                                             *)
(***************************************************************************)
LEMMA TakenOrder ==
  ASSUME NEW p \in Publishers, InOrder(p), pc[Bus] # "replicate",
         \A w \in Workers, a, b \in Nat : /\ Reached(w, p, a)' => Reached(w, p, a)
                                          /\ ReachedAhead(w, p, a, b)' => ReachedAhead(w, p, a, b),
         \A a, b \in Nat : /\ Holds(Bus, p, a)' => Holds(Bus, p, a)
                           /\ Ahead(Bus, p, a, b)' => Ahead(Bus, p, a, b)
                           /\ Copied(p, a)' => Holds(Bus, p, a)
                           /\ Copied(p, a)' /\ Holds(Bus, p, b)' => Ahead(Bus, p, a, b),
         \A w \in Workers : SubscribedTwice(w) => SubscribedTwice(w)',
         issued[p] \in Nat, issued'[p] = issued[p], Sends(p)' => Sends(p)
  PROVE  InOrder(p)'
<1>1. ReachedInOrder(p)'
  <2>1. \A w \in Workers, a, b \in Nat : Follows(w, a, b) => Follows(w, a, b)'
    BY DEF Follows
  <2>2. QED
    BY <2>1, Zenon DEF InOrder, ReachedInOrder
<1>2. CopiedInOrder(p)'
  <2>1. SUFFICES ASSUME NEW w \in Workers, NEW a \in Nat, NEW b \in Nat,
                        Reached(w, p, a)', Copied(p, b)'
                 PROVE  a <= b /\ (w \in Range(todo') => Follows(w, a, b)')
    BY Zenon DEF CopiedInOrder
  <2>2. a < b
    BY <2>1, Zenon DEF InOrder, BusInOrder
  <2>3. QED
    BY <2>2 DEF Follows
<1>3. BusInOrder(p)'
  BY Zenon DEF InOrder, BusInOrder
<1>4. SentInOrder(p)'
  BY Zenon DEF InOrder, SentInOrder
<1>5. QED
  BY <1>1, <1>2, <1>3, <1>4 DEF InOrder

LEMMA BusSignalOrder ==
  ASSUME OrderInv, BusSignal
  PROVE  Forms' /\ \A p \in Publishers : InOrder(p)'
<1>1. /\ pc[Bus] = "idle" /\ queue[Bus] # << >> /\ pc' = [pc EXCEPT ![Bus] = "replicate"]
      /\ cur' = [cur EXCEPT ![Bus] = Head(queue[Bus])]
      /\ queue' = [queue EXCEPT ![Bus] = Tail(queue[Bus])]
      /\ todo' = publish[Major]
      /\ UNCHANGED <<msg, free, mine, publish, arg, issued, delivered>>
  BY DEF BusSignal, Receive, Set, Goto, At, poolVars, history
<1>2. /\ BusInv /\ Forms /\ pc \in [Tasks -> Labels] /\ cur \in [Tasks -> Messages]
      /\ queue \in [Tasks -> Seq(Messages)] /\ issued \in [Tasks -> Nat] /\ Bus \in Tasks
      /\ OnePlace /\ NoRepeats
  BY Names DEF OrderInv, BusInv, TaskTypes, PoolTypes, Accounts
<1>3. /\ msg[Head(queue[Bus])] \in MessageSet /\ Head(queue[Bus]) \notin Range(free)
  BY <1>1, <1>2, TakenMade, QueueHead
<1>4. Major \in Workers
  BY <1>3 DEF Major, MessageSet
<1>5. PICK h \in Messages : h = Head(queue[Bus])
  BY <1>1, <1>2, QueueHead
<1>6. /\ pc'[Bus] = "replicate" /\ cur'[Bus] = h /\ queue'[Bus] = Tail(queue[Bus])
      /\ \A u \in Tasks : u # Bus => pc'[u] = pc[u] /\ queue'[u] = queue[u]
  BY <1>1, <1>2, <1>5
<1>7. /\ Steady /\ Range(free) \subseteq Range(free')
      /\ \A w \in Workers : SubscribedTwice(w) => SubscribedTwice(w)'
  BY <1>1, SameMessages
<1>8. \A u \in Tasks : CalmSender(u)
  BY <1>1, <1>6 DEF CalmSender, CalmArgument, SameWay, Preparing
<1>9. Forms'
  <2>1. SentNewest'
    BY <1>2, <1>7, <1>8, NewestKept DEF SentNewest
  <2>2. SignalsNamed'
    BY <1>2, <1>7, NamesKept
  <2>3. CopiedOnce'
    <3>1. publish' = publish
      BY <1>1
    <3>2. SUFFICES ASSUME NEW w \in Workers, NEW i \in DOMAIN publish[Major],
                          NEW j \in DOMAIN publish[Major],
                          publish[Major][i] = w, publish[Major][j] = w, i # j
                   PROVE  SubscribedTwice(w)'
      BY <1>1, Zenon DEF CopiedOnce
    <3>3. SubscribedTwice(w)
      BY <1>4, <3>2 DEF SubscribedTwice
    <3>4. QED
      BY <1>7, <3>3
  <2>4. delivered' \in [Workers -> Seq(Requests)]
    BY <1>1, <1>2 DEF Forms
  <2>5. QED
    BY <2>1, <2>2, <2>3, <2>4 DEF Forms
<1>10. ASSUME NEW p \in Publishers
       PROVE  InOrder(p)'
  <2>1. p \in Tasks /\ InOrder(p) /\ issued[p] \in Nat /\ issued'[p] = issued[p]
    <3>1. p \in Tasks /\ InOrder(p) /\ issued' = issued
      BY <1>1, Names DEF Publishers, OrderInv
    <3>2. QED
      BY <1>2, <3>1
  <2>2. \A w \in Workers : Dwindles(w, p)
    BY <1>2, <1>6, Names DEF Dwindles
  <2>3. \A w \in Workers, a, b \in Nat :
          /\ Reached(w, p, a)' => Reached(w, p, a)
          /\ ReachedAhead(w, p, a, b)' => ReachedAhead(w, p, a, b)
    BY <1>1, <1>2, <1>7, <2>2, ReachedKept
  <2>4. \A a, b : /\ Holds(Bus, p, a)' => Holds(Bus, p, a)
                  /\ Ahead(Bus, p, a, b)' => Ahead(Bus, p, a, b)
                  /\ Carries(h, p, a) => Holds(Bus, p, a)
                  /\ Carries(h, p, a) /\ Holds(Bus, p, b)' => Ahead(Bus, p, a, b)
    <3>1. \A q, a, b : /\ Holds(Bus, q, a)' => Holds(Bus, q, a)
                       /\ Ahead(Bus, q, a, b)' => Ahead(Bus, q, a, b)
                       /\ Carries(Head(queue[Bus]), q, a) => Holds(Bus, q, a)
                       /\ Carries(Head(queue[Bus]), q, a) /\ Holds(Bus, q, b)'
                            => Ahead(Bus, q, a, b)
      BY <1>1, <1>2, <1>6, <1>7, QueueTail
    <3>2. QED
      BY <1>5, <3>1
  <2>5. \A a : Copied(p, a)' => Carries(h, p, a)
    <3>1. \A a : Carries(h, p, a)' <=> Carries(h, p, a)
      BY <1>3, <1>5, <1>7, SteadyCarries
    <3>2. \A a : Copied(p, a)' => Carries(h, p, a)'
      BY <1>6 DEF Copied, Carries
    <3>3. QED
      BY <3>1, <3>2
  <2>6. \A a, b \in Nat : /\ Holds(Bus, p, a)' => Holds(Bus, p, a)
                          /\ Ahead(Bus, p, a, b)' => Ahead(Bus, p, a, b)
                          /\ Copied(p, a)' => Holds(Bus, p, a)
                          /\ Copied(p, a)' /\ Holds(Bus, p, b)' => Ahead(Bus, p, a, b)
    BY <2>4, <2>5, Zenon
  <2>7. Sends(p)' => Sends(p)
    <3>1. Sends(p)' => Sends(p) \/ issued[p] < issued'[p]
      BY <1>2, <1>7, <1>8, <2>1, SendsKept
    <3>2. QED
      BY <2>1, <3>1
  <2>8. pc[Bus] # "replicate"
    BY <1>1
  <2>9. QED
    BY <1>7, <2>1, <2>3, <2>6, <2>7, <2>8, TakenOrder
<1>11. QED
  BY <1>9, <1>10

(***************************************************************************)
(* bus_signal's loop: the next subscriber gets a copy of the signal, which *)
(* is newer than all it has, unless it is in the list a second time.       *)
(***************************************************************************)
LEMMA CopyOrder ==
  ASSUME NEW p \in Publishers, InOrder(p), NEW d \in Workers, d \in Range(todo),
         \A w \in Workers, a, b \in Nat :
           /\ Reached(w, p, a)' => Reached(w, p, a) \/ (w = d /\ Copied(p, a))
           /\ ReachedAhead(w, p, a, b)' =>
                ReachedAhead(w, p, a, b) \/ (w = d /\ Reached(w, p, a) /\ Copied(p, b)),
         \A a, b \in Nat : /\ Holds(Bus, p, a)' => Holds(Bus, p, a)
                           /\ Ahead(Bus, p, a, b)' => Ahead(Bus, p, a, b)
                           /\ Copied(p, a)' => Copied(p, a)
                           /\ Copied(p, a) /\ Copied(p, b) => a = b,
         Range(todo') \subseteq Range(todo), d \in Range(todo') => SubscribedTwice(d),
         \A w \in Workers : SubscribedTwice(w) => SubscribedTwice(w)',
         issued[p] \in Nat, issued'[p] = issued[p], Sends(p)' => Sends(p)
  PROVE  InOrder(p)'
<1>1. \A w \in Workers, a, b \in Nat : Follows(w, a, b) => Follows(w, a, b)'
  BY DEF Follows
<1>2. \A w \in Workers, a, b \in Nat :
        /\ ReachedAhead(w, p, a, b) => Follows(w, a, b)
        /\ Reached(w, p, a) /\ Copied(p, b) => a <= b /\ (w \in Range(todo) => Follows(w, a, b))
  BY Zenon DEF InOrder, ReachedInOrder, CopiedInOrder
<1>3. ReachedInOrder(p)'
  <2>1. SUFFICES ASSUME NEW w \in Workers, NEW a \in Nat, NEW b \in Nat, ReachedAhead(w, p, a, b)'
                 PROVE  Follows(w, a, b)
    BY <1>1, Zenon DEF ReachedInOrder
  <2>2. CASE ReachedAhead(w, p, a, b)
    BY <1>2, <2>2
  <2>3. CASE w = d /\ Reached(w, p, a) /\ Copied(p, b)
    BY <1>2, <2>3
  <2>4. QED
    BY <2>1, <2>2, <2>3
<1>4. CopiedInOrder(p)'
  <2>1. SUFFICES ASSUME NEW w \in Workers, NEW a \in Nat, NEW b \in Nat,
                        Reached(w, p, a)', Copied(p, b)'
                 PROVE  a <= b /\ (w \in Range(todo') => Follows(w, a, b))
    BY <1>1, Zenon DEF CopiedInOrder
  <2>2. Copied(p, b)
    BY <2>1
  <2>3. CASE Reached(w, p, a)
    BY <1>2, <2>2, <2>3
  <2>4. CASE w = d /\ Copied(p, a)
    <3>1. a = b
      BY <2>2, <2>4
    <3>2. QED
      BY <2>4, <3>1 DEF Follows
  <2>5. QED
    BY <2>1, <2>3, <2>4
<1>5. BusInOrder(p)'
  BY Zenon DEF InOrder, BusInOrder
<1>6. SentInOrder(p)'
  <2>1. SUFFICES ASSUME NEW n \in Nat,
                        Holds(Bus, p, n)' \/ Copied(p, n)' \/ (\E w \in Workers : Reached(w, p, n)')
                 PROVE  n <= issued[p] /\ (Sends(p) => n < issued[p])
    BY Zenon DEF SentInOrder
  <2>2. Holds(Bus, p, n) \/ Copied(p, n) \/ (\E w \in Workers : Reached(w, p, n))
    BY <2>1, Zenon
  <2>3. QED
    BY <2>2, Zenon DEF InOrder, SentInOrder
<1>7. QED
  BY <1>3, <1>4, <1>5, <1>6 DEF InOrder

LEMMA CopyReached ==
  ASSUME BusInv, Steady, delivered' = delivered, NEW w \in Workers, NEW p,
         NEW x \in Messages, queue'[w] = Append(queue[w], x),
         \A n : Carries(x, p, n)' => Copied(p, n)
  PROVE  \A a, b : /\ Reached(w, p, a)' => Reached(w, p, a) \/ Copied(p, a)
                   /\ ReachedAhead(w, p, a, b)' =>
                        ReachedAhead(w, p, a, b) \/ (Reached(w, p, a) /\ Copied(p, b))
<1>1. \A a, b :
        /\ Holds(w, p, a)' => Holds(w, p, a) \/ Carries(x, p, a)'
        /\ Ahead(w, p, a, b)' => Ahead(w, p, a, b) \/ (Holds(w, p, a) /\ Carries(x, p, b)')
  BY Names, QueueEnd
<1>2. \A r, s : /\ Got(w, r)' <=> Got(w, r)
                /\ GotAhead(w, r, s)' <=> GotAhead(w, r, s)
  BY Zenon DEF Got, GotAhead
<1>3. QED
  BY <1>1, <1>2, Zenon DEF Reached, ReachedAhead

LEMMA TodoTail ==
  ASSUME BusTypes, todo # << >>, CopiedOnce
  PROVE  /\ Head(todo) \in Workers /\ Head(todo) \in Range(todo)
         /\ Range(Tail(todo)) \subseteq Range(todo)
         /\ Head(todo) \in Range(Tail(todo)) => SubscribedTwice(Head(todo))
         /\ \A w \in Workers : ~SubscribedTwice(w) =>
              \A i, j \in DOMAIN Tail(todo) : Tail(todo)[i] = w /\ Tail(todo)[j] = w => i = j
<1>1. PICK s, r : s = todo /\ r = Tail(s)
  OBVIOUS
<1>2. /\ Len(s) \in Nat \ {0} /\ DOMAIN s = 1 .. Len(s) /\ Head(s) = s[1] /\ 1 \in DOMAIN s
      /\ s[1] \in Workers
      /\ DOMAIN r = 1 .. Len(s) - 1
      /\ \A i \in DOMAIN r : i + 1 \in DOMAIN s /\ r[i] = s[i + 1] /\ 1 # i + 1
      /\ \A i, j \in DOMAIN r : i + 1 = j + 1 => i = j
  <2>1. s \in Seq(Workers) /\ s # << >>
    BY <1>1 DEF BusTypes
  <2>2. /\ r \in Seq(Workers) /\ Head(s) = s[1] /\ Len(r) = Len(s) - 1 /\ Len(s) \in Nat \ {0}
        /\ DOMAIN s = 1 .. Len(s) /\ DOMAIN r = 1 .. Len(r) /\ Head(s) \in Workers
        /\ \A i \in 1 .. Len(s) - 1 : r[i] = s[i + 1]
    BY <1>1, <2>1, HeadTailProperties, LenProperties, EmptySeq
  <2>3. QED
    BY <2>2
<1>3. \A w \in Workers : ~SubscribedTwice(w) => \A i, j \in DOMAIN s : s[i] = w /\ s[j] = w => i = j
  BY <1>1, Zenon DEF CopiedOnce
<1>4. Range(r) \subseteq Range(s)
  BY <1>2 DEF Range
<1>5. s[1] \in Range(r) => SubscribedTwice(s[1])
  <2>1. SUFFICES ASSUME NEW i \in DOMAIN r, r[i] = s[1], ~SubscribedTwice(s[1])
                 PROVE  FALSE
    BY DEF Range
  <2>2. s[i + 1] = s[1] /\ i + 1 \in DOMAIN s /\ 1 # i + 1
    BY <1>2, <2>1
  <2>3. QED
    BY <1>2, <1>3, <2>1, <2>2
<1>6. ASSUME NEW w \in Workers, ~SubscribedTwice(w), NEW i \in DOMAIN r, NEW j \in DOMAIN r,
             r[i] = w, r[j] = w
      PROVE  i = j
  <2>1. i + 1 \in DOMAIN s /\ j + 1 \in DOMAIN s /\ s[i + 1] = w /\ s[j + 1] = w
    BY <1>2, <1>6
  <2>2. i + 1 = j + 1
    BY <1>3, <1>6, <2>1
  <2>3. QED
    BY <1>2, <2>2
<1>7. Head(s) \in Range(s)
  BY <1>2 DEF Range
<1>8. QED
  BY <1>1, <1>2, <1>4, <1>5, <1>6, <1>7

LEMMA BusReplicateOrder ==
  ASSUME OrderInv, BusReplicate
  PROVE  Forms' /\ \A p \in Publishers : InOrder(p)'
<1>1. /\ BusInv /\ Forms /\ pc \in [Tasks -> Labels] /\ cur \in [Tasks -> Messages]
      /\ msg \in [Messages -> MessageSet] /\ queue \in [Tasks -> Seq(Messages)]
      /\ issued \in [Tasks -> Nat] /\ Bus \in Tasks /\ PoolTypes /\ Accounts
      /\ BusTypes /\ CopiedOnce
  BY Names DEF OrderInv, Forms, BusInv, TaskTypes, PoolTypes
<1>2. pc[Bus] = "replicate" /\ free # << >> /\ todo # << >>
  BY <1>1 DEF BusReplicate, At, BusTypes
<1>3. PICK s \in Messages : s = cur[Bus]
  BY <1>1
<1>4. PICK x \in Messages : x = Head(free)
  BY <1>1, <1>2, FreeHead
<1>5. PICK d \in Workers : d = Head(todo)
  BY <1>1, <1>2, TodoTail
<1> DEFINE r == [msg[s] EXCEPT !.ref = GetRef(s), !.dst = d]
           label == IF Len(todo) = 1 THEN "bus_end" ELSE "replicate"
<1>6. /\ msg' = [msg EXCEPT ![x] = r]
      /\ template_msg_post(d, x)
      /\ free' = Tail(free) /\ todo' = Tail(todo)
      /\ pc' = [pc EXCEPT ![Bus] = label]
      /\ UNCHANGED <<mine, cur, publish, arg, issued, delivered>>
  BY <1>3, <1>4, <1>5 DEF BusReplicate, Goto, taskVars, history
<1>7. r.type = msg[s].type /\ r.load = msg[s].load
  BY <1>1 DEF MessageSet
<1>8. label \in {"bus_end", "replicate"}
  OBVIOUS
<1> HIDE DEF r, label
<1>9. /\ msg'[x] = r /\ \A m \in Messages : m # x => msg'[m] = msg[m]
      /\ pc'[Bus] \in {"bus_end", "replicate"} /\ \A u \in Tasks : u # Bus => pc'[u] = pc[u]
  BY <1>1, <1>6, <1>8
<1>10. x \in Range(free) /\ Range(free') = Range(free) \ {x}
  BY <1>1, <1>2, <1>4, <1>6, FreeHead
<1>11. Steady /\ Directed
  BY <1>9, <1>10 DEF Steady, Directed, SameWay
<1>12. s \notin Range(free)
  BY <1>1, <1>2, <1>3, InUse DEF Handling
<1>13. \A p, n : Carries(x, p, n)' => Copied(p, n)
  BY <1>2, <1>3, <1>7, <1>9 DEF Carries, Copied
<1>14. \A u \in Tasks : CalmSender(u)
  <2>1. SUFFICES ASSUME NEW u \in Tasks
                 PROVE  CalmSender(u)
    OBVIOUS
  <2>2. CASE u = Bus
    BY <1>9, <2>2 DEF CalmSender, CalmArgument, Preparing
  <2>3. CASE u # Bus
    <3>1. pc[u] = "invoke" => SameWay(mine[u])
      BY <1>1, <1>11, InUse DEF Directed
    <3>2. QED
      BY <1>6, <1>9, <2>3, <3>1 DEF CalmSender, CalmArgument
  <2>4. QED
    BY <2>2, <2>3
<1>15. \A w \in Workers : SubscribedTwice(w) <=> SubscribedTwice(w)'
  BY <1>6, Zenon DEF SubscribedTwice
<1>16. /\ d \in Range(todo) /\ Range(todo') \subseteq Range(todo)
       /\ d \in Range(todo') => SubscribedTwice(d)
       /\ \A w \in Workers : ~SubscribedTwice(w) =>
            \A i, j \in DOMAIN todo' : todo'[i] = w /\ todo'[j] = w => i = j
  BY <1>1, <1>2, <1>5, <1>6, TodoTail
<1>17. \/ queue' = queue
       \/ queue'[d] = Append(queue[d], x) /\ \A u \in Tasks : u # d => queue'[u] = queue[u]
  BY <1>1, <1>6, Names DEF template_msg_post
<1>18. Forms'
  <2>1. SentNewest'
    BY <1>1, <1>11, <1>14, NewestKept DEF SentNewest
  <2>2. SignalsNamed'
    <3>1. SUFFICES ASSUME NEW m \in Messages, m \notin Range(free'), msg'[m].type = "SIGNAL"
                   PROVE  msg'[m].load \in Requests
      BY DEF SignalsNamed
    <3>2. CASE m = x
      BY <1>1, <1>7, <1>9, <1>12, <3>1, <3>2 DEF Forms, SignalsNamed
    <3>3. CASE m # x
      <4>1. m \notin Range(free) /\ msg'[m] = msg[m]
        BY <1>9, <1>10, <3>1, <3>3
      <4>2. QED
        BY <1>1, <3>1, <4>1 DEF Forms, SignalsNamed
    <3>4. QED
      BY <3>2, <3>3
  <2>3. CopiedOnce'
    BY <1>15, <1>16, Zenon DEF CopiedOnce
  <2>4. delivered' \in [Workers -> Seq(Requests)]
    BY <1>1, <1>6 DEF Forms
  <2>5. QED
    BY <2>1, <2>2, <2>3, <2>4 DEF Forms
<1>19. ASSUME NEW p \in Publishers
       PROVE  InOrder(p)'
  <2>1. p \in Tasks /\ InOrder(p) /\ issued[p] \in Nat /\ issued'[p] = issued[p]
    <3>1. p \in Tasks /\ InOrder(p) /\ issued' = issued
      BY <1>6, Names DEF Publishers, OrderInv
    <3>2. QED
      BY <1>1, <3>1
  <2>2. \A n : Carries(x, p, n)' => Copied(p, n)
    BY <1>13
  <2>3. ASSUME NEW w \in Workers, queue'[w] = queue[w]
        PROVE  \A a, b : /\ Reached(w, p, a)' => Reached(w, p, a)
                         /\ ReachedAhead(w, p, a, b)' => ReachedAhead(w, p, a, b)
    BY <1>1, <1>6, <1>11, <2>3, ReachedKept DEF Dwindles
  <2>4. ASSUME queue'[d] = Append(queue[d], x)
        PROVE  \A a, b : /\ Reached(d, p, a)' => Reached(d, p, a) \/ Copied(p, a)
                         /\ ReachedAhead(d, p, a, b)' =>
                              ReachedAhead(d, p, a, b) \/ (Reached(d, p, a) /\ Copied(p, b))
    BY <1>1, <1>6, <1>11, <2>2, <2>4, CopyReached
  <2>5. \A w \in Workers, a, b \in Nat :
          /\ Reached(w, p, a)' => Reached(w, p, a) \/ (w = d /\ Copied(p, a))
          /\ ReachedAhead(w, p, a, b)' =>
               ReachedAhead(w, p, a, b) \/ (w = d /\ Reached(w, p, a) /\ Copied(p, b))
    <3>1. SUFFICES ASSUME NEW w \in Workers
                   PROVE  \A a, b \in Nat :
                     /\ Reached(w, p, a)' => Reached(w, p, a) \/ (w = d /\ Copied(p, a))
                     /\ ReachedAhead(w, p, a, b)' =>
                          \/ ReachedAhead(w, p, a, b)
                          \/ w = d /\ Reached(w, p, a) /\ Copied(p, b)
      BY Zenon
    <3>2. CASE queue'[w] = queue[w]
      BY <2>3, <3>2, Zenon
    <3>3. CASE w = d /\ queue'[d] = Append(queue[d], x)
      BY <2>4, <3>3, Zenon
    <3>4. QED
      BY <1>17, <3>2, <3>3, Names
  <2>6. \A a, b \in Nat : /\ Holds(Bus, p, a)' => Holds(Bus, p, a)
                          /\ Ahead(Bus, p, a, b)' => Ahead(Bus, p, a, b)
                          /\ Copied(p, a)' => Copied(p, a)
                          /\ Copied(p, a) /\ Copied(p, b) => a = b
    <3>1. queue'[Bus] = queue[Bus]
      BY <1>1, <1>17, Names
    <3>2. \A a, b : /\ Holds(Bus, p, a)' => Holds(Bus, p, a)
                    /\ Ahead(Bus, p, a, b)' => Ahead(Bus, p, a, b)
      BY <1>1, <1>11, <3>1, QueueSame
    <3>3. \A a : Copied(p, a)' => Copied(p, a)
      BY <1>1, <1>2, <1>6, <1>11, CopiedKept
    <3>4. \A a, b : Copied(p, a) /\ Copied(p, b) => a = b
      BY DEF Copied, Carries
    <3>5. QED
      BY <3>2, <3>3, <3>4, Zenon
  <2>7. Sends(p)' => Sends(p)
    <3>1. Sends(p)' => Sends(p) \/ issued[p] < issued'[p]
      BY <1>1, <1>11, <1>14, <2>1, SendsKept
    <3>2. QED
      BY <2>1, <3>1
  <2>8. \A w \in Workers : SubscribedTwice(w) => SubscribedTwice(w)'
    BY <1>15
  <2>9. QED
    BY <1>16, <2>1, <2>5, <2>6, <2>7, <2>8, CopyOrder
<1>20. QED
  BY <1>18, <1>19

(***************************************************************************)
(* The invariant.                                                          *)
(***************************************************************************)
LEMMA CalmSendSteps ==
  ASSUME BusInv, NEW t \in Tasks, SendStep(t), ~InitMessage(t), ~InvokePost(t)
  PROVE  Calm
BY SequenceIncrementCalm, SequenceReturnCalm, NoMessageCalm, InvokeTestCalm,
   InvokePendCalm DEF SendStep

LEMMA SendOrder ==
  ASSUME OrderInv, NEW t \in Tasks, SendStep(t)
  PROVE  Forms' /\ \A p \in Publishers : InOrder(p)'
<1>1. BusInv
  BY DEF OrderInv
<1>2. CASE InitMessage(t)
  BY <1>2, InitMessageOrder
<1>3. CASE InvokePost(t)
  BY <1>3, InvokePostOrder
<1>4. CASE ~InitMessage(t) /\ ~InvokePost(t)
  BY <1>1, <1>4, CalmSendSteps, CalmOrder
<1>5. QED
  BY <1>2, <1>3, <1>4

LEMMA WorkerOrder ==
  ASSUME OrderInv, NEW w \in Workers, WorkerStep(w)
  PROVE  Forms' /\ \A p \in Publishers : InOrder(p)'
<1>1. BusInv /\ w \in Tasks
  BY Names DEF OrderInv
<1>2. CASE SendStep(w)
  BY <1>1, <1>2, SendOrder
<1>3. CASE HandleSignal(w)
  BY <1>3, HandleSignalOrder
<1>4. CASE RequestEnd(w) \/ HandleCall(w) \/ HandlerEnd(w) \/ AnswerDeferred(w)
  <2>1. Calm
    BY <1>1, <1>4, RequestEndCalm, HandleCallCalm, HandlerEndCalm, AnswerDeferredCalm
  <2>2. QED
    BY <2>1, CalmOrder
<1>5. QED
  BY <1>2, <1>3, <1>4 DEF WorkerStep

LEMMA BusOrder ==
  ASSUME OrderInv, BusStep
  PROVE  Forms' /\ \A p \in Publishers : InOrder(p)'
<1>1. BusInv /\ Bus \in Tasks
  BY Names DEF OrderInv
<1>2. CASE SendStep(Bus)
  BY <1>1, <1>2, SendOrder
<1>3. CASE BusSignal
  BY <1>3, BusSignalOrder
<1>4. CASE BusReplicate
  BY <1>4, BusReplicateOrder
<1>5. CASE \/ BusSubscribe \/ BusSignalNobody \/ BusReplicateNull \/ BusCallUnknown \/ BusCall
           \/ BusReturnNone \/ BusReturnStray \/ BusReturn \/ BusReleaseCall \/ BusEnd
  <2>1. Calm
    BY <1>1, <1>5, BusSubscribeCalm, BusLogCalm, BusReplicateNullCalm, BusCallCalm,
       BusReturnStrayCalm, BusReturnCalm, BusReleaseCallCalm, BusEndCalm
  <2>2. QED
    BY <2>1, CalmOrder
<1>6. QED
  BY <1>2, <1>3, <1>4, <1>5 DEF BusStep

LEMMA NothingCalm ==
  ASSUME BusInv, UNCHANGED vars
  PROVE  Calm
<1>1. UNCHANGED <<msg, free, queue, publish, todo, pc, arg, mine, cur, issued, delivered>>
  BY DEF vars
<1>2. /\ Steady /\ Range(free) \subseteq Range(free')
      /\ \A w \in Workers : SubscribedTwice(w) => SubscribedTwice(w)'
  BY <1>1, SameMessages
<1>3. issued \in [Tasks -> Nat]
  BY DEF BusInv, TaskTypes
<1>4. ASSUME NEW t \in Tasks
      PROVE  CalmQueue(t) /\ CalmSender(t) /\ issued'[t] \in Nat /\ issued[t] <= issued'[t]
  <2>1. CalmQueue(t)
    BY <1>1 DEF CalmQueue
  <2>2. CalmSender(t)
    BY <1>1 DEF CalmSender, CalmArgument, SameWay
  <2>3. QED
    BY <1>1, <1>3, <2>1, <2>2
<1>5. QED
  BY <1>1, <1>2, <1>4 DEF Calm

(* Every step keeps the order in which signals travel.                     *)
LEMMA NextOrderInv ==
  ASSUME OrderInv, [Next]_vars
  PROVE  OrderInv'
<1>1. BusInv
  BY DEF OrderInv
<1>2. BusInv'
  BY <1>1, NextBusInv
<1>3. Forms' /\ \A p \in Publishers : InOrder(p)'
  <2>1. CASE BusStep
    BY <2>1, BusOrder
  <2>2. CASE \E w \in Workers : WorkerStep(w)
    BY <2>2, WorkerOrder
  <2>3. CASE \E w \in Workers : \E o \in Ops[w] : MakeRequest(w, o)
    BY <1>1, <2>3, MakeRequestCalm, CalmOrder
  <2>4. CASE UNCHANGED vars
    BY <1>1, <2>4, NothingCalm, CalmOrder
  <2>5. QED
    BY <2>1, <2>2, <2>3, <2>4 DEF Next, Finished
<1>4. QED
  BY <1>2, <1>3 DEF OrderInv

LEMMA InitOrderInv ==
  ASSUME Init
  PROVE  OrderInv
<1>1. BusInv
  BY InitBusInv
<1>2. /\ queue = [t \in Tasks |-> << >>] /\ pc = [t \in Tasks |-> "idle"] /\ todo = << >>
      /\ delivered = [w \in Workers |-> << >>] /\ free = [i \in Messages |-> i]
  BY DEF Init, Messages
<1>3. Forms
  <2>1. delivered \in [Workers -> Seq(Requests)]
    BY <1>2, EmptySeq
  <2>2. SentNewest
    BY <1>2 DEF SentNewest, Preparing
  <2>3. SignalsNamed
    <3>1. \A m \in Messages : m \in Range(free)
      BY <1>2 DEF Range
    <3>2. QED
      BY <3>1 DEF SignalsNamed
  <2>4. CopiedOnce
    BY <1>2 DEF CopiedOnce
  <2>5. QED
    BY <2>1, <2>2, <2>3, <2>4 DEF Forms
<1>4. ASSUME NEW p \in Publishers
      PROVE  InOrder(p)
  <2>1. \A t \in Tasks : queue[t] = << >> /\ DOMAIN queue[t] = {}
    BY <1>2
  <2>2. \A t \in Tasks : \A a, b : ~Holds(t, p, a) /\ ~Ahead(t, p, a, b)
    BY <2>1 DEF Holds, Ahead
  <2>3. \A w \in Workers : DOMAIN delivered[w] = {}
    BY <1>2
  <2>4. \A w \in Workers : \A q, r : ~Got(w, q) /\ ~GotAhead(w, q, r)
    BY <2>3 DEF Got, GotAhead
  <2>5. \A w \in Workers : \A a, b : ~Reached(w, p, a) /\ ~ReachedAhead(w, p, a, b)
    BY <2>2, <2>4, Names, Zenon DEF Reached, ReachedAhead
  <2>6. \A a : ~Copied(p, a)
    BY <1>2, Names DEF Copied
  <2>7. \A a, b : ~Holds(Bus, p, a) /\ ~Ahead(Bus, p, a, b)
    BY <2>2, Names
  <2>8. QED
    BY <2>5, <2>6, <2>7, Zenon
       DEF InOrder, ReachedInOrder, CopiedInOrder, BusInOrder, SentInOrder
<1>5. QED
  BY <1>1, <1>3, <1>4 DEF OrderInv

(* Wherever the signals of a publisher are, between template_msg_post, the *)
(* copies of bus_signal and default_signal_handler, they are in the order  *)
(* in which they were sent.                                                *)
THEOREM OrderInvariant == Spec => []OrderInv
<1>1. Init => OrderInv
  BY InitOrderInv
<1>2. OrderInv /\ [Next]_vars => OrderInv'
  BY NextOrderInv
<1>3. QED
  BY <1>1, <1>2, PTL DEF Spec

LEMMA OrderOfSignals == OrderInv => SignalsInOrder
<1>1. SUFFICES ASSUME OrderInv, NEW p \in Publishers, NEW w \in Workers,
                      NEW i \in DOMAIN delivered[w], NEW j \in DOMAIN delivered[w], i < j,
                      delivered[w][i][1] = p, delivered[w][j][1] = p
               PROVE  /\ delivered[w][i][2] <= delivered[w][j][2]
                      /\ delivered[w][i][2] = delivered[w][j][2] => SubscribedTwice(w)
  BY DEF SignalsInOrder
<1>2. PICK q, r : q = delivered[w][i] /\ r = delivered[w][j]
  OBVIOUS
<1>3. q \in Requests /\ r \in Requests
  <2>1. delivered[w] \in Seq(Requests)
    BY <1>1 DEF OrderInv, Forms
  <2>2. i \in 1 .. Len(delivered[w]) /\ j \in 1 .. Len(delivered[w])
    BY <2>1, LenProperties
  <2>3. QED
    BY <1>2, <2>1, <2>2, ElementOfSeq
<1>4. q = <<q[1], q[2]>> /\ r = <<r[1], r[2]>> /\ q[2] \in Nat /\ r[2] \in Nat
  <2>1. \A e \in Requests : e = <<e[1], e[2]>> /\ e[2] \in Nat
    BY SizesAssumption DEF Requests
  <2>2. QED
    BY <1>3, <2>1
<1>5. PICK a \in Nat, b \in Nat : a = q[2] /\ b = r[2] /\ q = <<p, a>> /\ r = <<p, b>>
  BY <1>1, <1>2, <1>4
<1>6. GotAhead(w, <<p, a>>, <<p, b>>)
  BY <1>1, <1>2, <1>5, Zenon DEF GotAhead
<1>7. Follows(w, a, b)
  BY <1>1, <1>6, Zenon DEF OrderInv, InOrder, ReachedInOrder, ReachedAhead
<1>8. QED
  BY <1>2, <1>5, <1>7 DEF Follows

(* A subscriber's default_signal_handler is given the signals of a         *)
(* publisher in the order of local_signal, and none twice, for any number  *)
(* of publishers and subscribers, any pool and any queues; only one that   *)
(* called bus_subscribe twice for a segment may be given a signal again.   *)
THEOREM SignalsArriveInOrder == Spec => []SignalsInOrder
<1>1. Spec => []OrderInv
  BY OrderInvariant
<1>2. OrderInv => SignalsInOrder
  BY OrderOfSignals
<1>3. QED
  BY <1>1, <1>2, PTL
==============================================================================
