-------------------------- MODULE EventQueueProofs --------------------------
(***************************************************************************)
(* For any event types, heap, timers, queue length, handlers and number of *)
(* events: the mask matches the list, every timer is accounted for, and a  *)
(* time-out reaches the event it was set for unless its element was freed  *)
(* with a notification under way.                                          *)
(***************************************************************************)
EXTENDS EventQueue, TLAPS, FiniteSetTheorems, SequenceTheorems

(***************************************************************************)
(* The inductive invariant.                                                *)
(***************************************************************************)
(* TimerAccounting without its cardinality: a timer outside the pool has   *)
(* an owner, and no two elements share a timer.                            *)
TimersOwned ==
  /\ IsInjective(pool)
  /\ \A t \in Range(pool) : obj[t] = NULL /\ ~armed[t]
  /\ \A a \in Live : mem[a].tick \notin Range(pool)
  /\ \A t \in Timers \ Range(pool) : \E a \in Live : mem[a].tick = t
  /\ \A a, b \in Live : mem[a].tick = mem[b].tick /\ mem[a].tick # NULL => a = b
  /\ \A t \in Timers : obj[t] # NULL => obj[t] \in Live /\ mem[obj[t]].tick = t
  /\ \A t \in Timers : armed[t] => obj[t] # NULL

(* The events are numbered in the order they were added.                   *)
IdsUnique ==
  /\ \A a \in Live : mem[a].id <= adds
  /\ \A a, b \in Live : mem[a].id = mem[b].id => a = b

(* A run of the signal handler holds an address and an event.              *)
NotifyHolds ==
  \A t \in Timers : notify[t].at # "idle" => notify[t].e \in Heap /\ notify[t].id \in Ids

(* As long as no element was freed with a notification under way: whatever *)
(* is under way from timer t is about the element that timer points to,    *)
(* and every message holds the address of the event it was sent for.       *)
SignalsMatch == \A t \in Timers : signals[t] # NULL => obj[t] # NULL /\ mem[obj[t]].id = signals[t]
NotifyMatches ==
  \A t \in Timers : notify[t].at # "idle" =>
    obj[t] # NULL /\ obj[t] = notify[t].e /\ mem[obj[t]].id = notify[t].id
MessagesMatch ==
  \A i \in 1 .. Len(msgs) : msgs[i].e \in Live /\ mem[msgs[i].e].id = msgs[i].id
Sound ==
  ~orphaned => SignalsMatch /\ NotifyMatches /\ MessagesMatch /\ ~foreign /\ down # "stale"

EventInv ==
  TypeOK /\ MaskMatchesList /\ TimersOwned /\ IdsUnique /\ NotifyHolds /\ Sound

(* The part of TypeOK that the operations of the queue change.             *)
QueueTypes ==
  /\ mem \in [Heap -> Elements \cup {NULL}]
  /\ queue \in Seq(Heap)
  /\ bm \subseteq Types
  /\ pool \in Seq(Timers)
  /\ obj \in [Timers -> Heap \cup {NULL}]
  /\ armed \in [Timers -> BOOLEAN]
  /\ created \in 0 .. KernelTimers

ListInv == QueueTypes /\ MaskMatchesList /\ TimersOwned

USE SetsAssumption, LimitsAssumption, ChainsAssumption, NullAssumption,
    ElementsAssumption

(***************************************************************************)
(* Facts about the operators.                                              *)
(***************************************************************************)
(* A function on 1 .. n is a sequence.                                     *)
LEMMA FunctionIsSeq ==
  ASSUME NEW S, NEW n \in Nat, NEW f \in [1 .. n -> S]
  PROVE  f \in Seq(S) /\ Len(f) = n /\ DOMAIN f = 1 .. n
BY SeqDef, LenProperties, SMT

(* event_queue_get_element finds the one element of a type in the mask.    *)
LEMMA FindsElement ==
  ASSUME QueueTypes, MaskMatchesList, NEW type \in bm
  PROVE  ElementOf(type) \in Live /\ mem[ElementOf(type)].type = type
<1> DEFINE Hit(i) == /\ mem[queue[i]].type = type
                    /\ \A j \in 1 .. i - 1 : mem[queue[j]].type # type
<1>1. queue \in Seq(Heap) /\ DOMAIN queue = 1 .. Len(queue) /\ Len(queue) \in Nat
  BY LenProperties DEF QueueTypes
<1>2. PICK a \in Live : mem[a].type = type
  BY DEF MaskMatchesList
<1>3. PICK i \in 1 .. Len(queue) : queue[i] = a
  BY <1>1, <1>2 DEF MaskMatchesList, Range
<1>4. ASSUME NEW j \in 1 .. i - 1, mem[queue[j]].type = type PROVE FALSE
  <2>1. j \in 1 .. Len(queue) /\ j # i
    BY <1>1, <1>3
  <2>2. queue[j] \in Live
    BY <1>1, <2>1 DEF MaskMatchesList, Range
  <2>3. queue[j] = a
    BY <1>2, <1>4, <2>2 DEF MaskMatchesList
  <2> QED
    BY <1>1, <1>3, <2>1, <2>3 DEF MaskMatchesList, IsInjective
<1>5. Hit(i)
  BY <1>2, <1>3, <1>4
<1> DEFINE k == CHOOSE n \in 1 .. Len(queue) : Hit(n)
<1>6. k \in 1 .. Len(queue) /\ Hit(k)
  <2> HIDE DEF Hit
  <2> QED
    BY <1>5
<1>7. ElementOf(type) = queue[k]
  BY DEF ElementOf
<1>8. queue[k] \in Live
  <2>1. \A n \in 1 .. Len(queue) : queue[n] \in Live
    BY <1>1 DEF MaskMatchesList, Range
  <2> HIDE DEF k
  <2> QED
    BY <1>6, <2>1
<1> QED
  BY <1>6, <1>7, <1>8

(* list_del takes one node out and keeps the others.                       *)
LEMMA Unlinked ==
  ASSUME NEW a \in Range(queue), queue \in Seq(Heap), IsInjective(queue)
  PROVE  /\ list_del(a) \in Seq(Heap)
         /\ IsInjective(list_del(a))
         /\ Range(list_del(a)) = Range(queue) \ {a}
<1> DEFINE at == CHOOSE i \in 1 .. Len(queue) : queue[i] = a
           new == [i \in 1 .. Len(queue) - 1 |-> IF i < at THEN queue[i] ELSE queue[i + 1]]
<1>1. DOMAIN queue = 1 .. Len(queue) /\ Len(queue) \in Nat
      /\ \A i \in 1 .. Len(queue) : queue[i] \in Heap
  BY LenProperties, ElementOfSeq
<1>2. \E i \in 1 .. Len(queue) : queue[i] = a
  BY <1>1 DEF Range
<1>3. at \in 1 .. Len(queue) /\ queue[at] = a
  BY <1>2
<1>4. list_del(a) = new
  BY DEF list_del
<1> HIDE DEF at
<1>5. Len(queue) - 1 \in Nat /\ DOMAIN new = 1 .. Len(queue) - 1
  BY <1>1, <1>3
<1>6. new \in [1 .. Len(queue) - 1 -> Heap]
  BY <1>1, <1>3
<1>7. new \in Seq(Heap)
  BY <1>5, <1>6, FunctionIsSeq
<1>8. IsInjective(new)
  <2> SUFFICES ASSUME NEW i \in 1 .. Len(queue) - 1, NEW j \in 1 .. Len(queue) - 1,
                      new[i] = new[j]
               PROVE  i = j
    BY <1>5 DEF IsInjective
  <2> QED
    BY <1>1, <1>3 DEF IsInjective
<1>9. Range(new) = Range(queue) \ {a}
  <2>1. ASSUME NEW x \in Range(new) PROVE x \in Range(queue) \ {a}
    <3>1. PICK i \in 1 .. Len(queue) - 1 : x = new[i]
      BY <1>5, <2>1 DEF Range
    <3>2. PICK j \in 1 .. Len(queue) : x = queue[j] /\ j # at
      BY <1>1, <1>3, <3>1
    <3> QED
      BY <1>1, <1>3, <3>2 DEF Range, IsInjective
  <2>2. ASSUME NEW x \in Range(queue), x # a PROVE x \in Range(new)
    <3>1. PICK j \in 1 .. Len(queue) : x = queue[j] /\ j # at
      BY <1>1, <1>3, <2>2 DEF Range
    <3>2. PICK i \in 1 .. Len(queue) - 1 : new[i] = x
      <4>1. CASE j < at
        <5>1. j \in 1 .. Len(queue) - 1 /\ new[j] = x
          BY <1>1, <1>3, <3>1, <4>1
        <5> QED
          BY <5>1
      <4>2. CASE j > at
        <5>1. j - 1 \in 1 .. Len(queue) - 1 /\ new[j - 1] = x
          BY <1>1, <1>3, <3>1, <4>2
        <5> QED
          BY <5>1
      <4> QED
        BY <1>1, <1>3, <3>1, <4>1, <4>2
    <3> QED
      BY <1>5, <3>2 DEF Range
  <2> QED
    BY <2>1, <2>2
<1> QED
  BY <1>4, <1>7, <1>8, <1>9

(* Appending a new element to a sequence without duplicates.               *)
LEMMA Appended ==
  ASSUME NEW S, NEW s \in Seq(S), NEW e \in S, IsInjective(s), e \notin Range(s)
  PROVE  /\ Append(s, e) \in Seq(S)
         /\ IsInjective(Append(s, e))
         /\ Range(Append(s, e)) = Range(s) \cup {e}
<1> DEFINE r == Append(s, e)
<1>1. /\ r \in Seq(S) /\ Len(r) = Len(s) + 1 /\ r[Len(s) + 1] = e
      /\ \A i \in 1 .. Len(s) : r[i] = s[i]
  BY AppendProperties
<1>2. Len(s) \in Nat /\ DOMAIN s = 1 .. Len(s) /\ DOMAIN r = 1 .. Len(s) + 1
  BY <1>1, LenProperties
<1> HIDE DEF r
<1>3. IsInjective(r)
  <2> SUFFICES ASSUME NEW i \in 1 .. Len(s) + 1, NEW j \in 1 .. Len(s) + 1, r[i] = r[j]
               PROVE  i = j
    BY <1>2 DEF IsInjective
  <2>1. \A k \in 1 .. Len(s) : s[k] # e
    BY <1>2 DEF Range
  <2> QED
    BY <1>1, <1>2, <2>1 DEF IsInjective
<1>4. Range(r) = Range(s) \cup {e}
  <2>1. Range(r) \subseteq Range(s) \cup {e}
    BY <1>1, <1>2 DEF Range
  <2>2. ASSUME NEW x \in Range(s) PROVE x \in Range(r)
    <3>1. PICK i \in 1 .. Len(s) : x = s[i]
      BY <1>2 DEF Range
    <3>2. i \in DOMAIN r /\ r[i] = x
      BY <1>1, <1>2, <3>1
    <3> QED
      BY <3>2 DEF Range
  <2>3. e \in Range(r)
    BY <1>1, <1>2 DEF Range
  <2> QED
    BY <2>1, <2>2, <2>3
<1> QED
  BY <1>1, <1>3, <1>4 DEF r

(* Taking the head of a sequence without duplicates.                       *)
LEMMA Beheaded ==
  ASSUME NEW S, NEW s \in Seq(S), s # << >>, IsInjective(s)
  PROVE  /\ Head(s) \in Range(s) /\ Head(s) \in S
         /\ Tail(s) \in Seq(S)
         /\ IsInjective(Tail(s))
         /\ Range(Tail(s)) = Range(s) \ {Head(s)}
<1> DEFINE r == Tail(s)
<1>1. Len(s) \in Nat /\ DOMAIN s = 1 .. Len(s) /\ Len(s) > 0 /\ Head(s) = s[1]
  BY LenProperties, EmptySeq, HeadTailProperties
<1>2. /\ r \in Seq(S) /\ Len(r) = Len(s) - 1 /\ DOMAIN r = 1 .. Len(s) - 1
      /\ \A i \in 1 .. Len(s) - 1 : r[i] = s[i + 1]
  BY HeadTailProperties, LenProperties
<1> HIDE DEF r
<1>3. Head(s) \in Range(s) /\ Head(s) \in S
  BY <1>1, HeadTailProperties DEF Range
<1>4. IsInjective(r)
  <2>1. ASSUME NEW i \in 1 .. Len(s) - 1, NEW j \in 1 .. Len(s) - 1, r[i] = r[j]
        PROVE  i = j
    <3>1. s[i + 1] = s[j + 1]
      BY <1>2, <2>1
    <3>2. i + 1 \in 1 .. Len(s) /\ j + 1 \in 1 .. Len(s)
      BY <1>1
    <3>3. i + 1 = j + 1
      BY <1>1, <3>1, <3>2 DEF IsInjective
    <3> QED
      BY <3>3
  <2> QED
    BY <1>2, <2>1 DEF IsInjective
<1>5. Range(r) = Range(s) \ {Head(s)}
  <2>1. ASSUME NEW x \in Range(r) PROVE x \in Range(s) \ {Head(s)}
    <3>1. PICK i \in 1 .. Len(s) - 1 : x = s[i + 1]
      BY <1>2, <2>1 DEF Range
    <3>2. i + 1 \in 1 .. Len(s) /\ i + 1 # 1 /\ 1 \in 1 .. Len(s)
      BY <1>1
    <3> QED
      BY <1>1, <3>1, <3>2 DEF Range, IsInjective
  <2>2. ASSUME NEW x \in Range(s), x # Head(s) PROVE x \in Range(r)
    <3>1. PICK i \in 1 .. Len(s) : x = s[i]
      BY <1>1 DEF Range
    <3>2. i - 1 \in 1 .. Len(s) - 1
      BY <1>1, <2>2, <3>1
    <3>3. r[i - 1] = x
      BY <1>2, <3>1, <3>2
    <3> QED
      BY <1>2, <3>2, <3>3 DEF Range
  <2> QED
    BY <2>1, <2>2
<1> QED
  BY <1>2, <1>3, <1>4, <1>5 DEF r

(***************************************************************************)
(* What the operations on the queue do to it.                              *)
(***************************************************************************)
(* __free_event_element, with the type cleared in the mask, takes away one *)
(* element and returns its timer, and leaves everything else alone.        *)
LEMMA FreeKeeps ==
  ASSUME ListInv, NEW a \in Live, NEW inbox, FreeElement(a, inbox),
         bm' = bm \ {mem[a].type}
  PROVE  /\ ListInv'
         /\ Live' = Live \ {a}
         /\ \A b \in Live' : mem'[b] = mem[b]
         /\ \A t \in Timers : obj'[t] # NULL => obj'[t] = obj[t]
         /\ \A t \in Timers : obj[t] # NULL /\ obj[t] # a => obj'[t] = obj[t]
<1> USE DEF ListInv, FreeElement
<1>1. a \in Heap /\ mem[a] \in Elements /\ mem[a].tick \in Timers \cup {NULL}
      /\ mem[a].type \in Types /\ NULL \notin Timers
  <2>1. a \in Heap /\ mem[a] \in Elements
    BY DEF Live, QueueTypes
  <2> QED
    BY <2>1 DEF Elements, Timers
<1>2. mem' \in [Heap -> Elements \cup {NULL}] /\ Live' = Live \ {a}
      /\ \A b \in Live' : mem'[b] = mem[b]
  <2> HIDE DEF ListInv
  <2>1. mem \in [Heap -> Elements \cup {NULL}] /\ mem' = [mem EXCEPT ![a] = NULL]
    BY DEF ListInv, QueueTypes
  <2> QED
    BY <1>1, <2>1 DEF Live
<1>3. a \in Range(queue) /\ queue' = list_del(a)
  BY DEF MaskMatchesList
<1>4. queue' \in Seq(Heap) /\ IsInjective(queue') /\ Range(queue') = Live'
  BY <1>2, <1>3, Unlinked DEF MaskMatchesList, QueueTypes
<1>5. MaskMatchesList'
  <2>1. bm' = {mem'[b].type : b \in Live'}
    BY <1>1, <1>2 DEF MaskMatchesList
  <2>2. \A b, c \in Live' : mem'[b].type = mem'[c].type => b = c
    BY <1>2 DEF MaskMatchesList
  <2> QED
    BY <1>4, <2>1, <2>2 DEF MaskMatchesList
<1>6. CASE mem[a].tick = NULL
  <2>1. UNCHANGED <<obj, armed, pool, created>>
    BY <1>6
  <2>2. QueueTypes'
    BY <1>2, <1>4, <2>1 DEF QueueTypes
  <2>3. \A t \in Timers : obj[t] # a
    BY <1>1, <1>6 DEF TimersOwned
  <2>4. TimersOwned'
    BY <1>1, <1>2, <1>6, <2>1, <2>3 DEF TimersOwned
  <2> QED
    BY <1>2, <1>5, <2>1, <2>2, <2>4
<1>7. CASE mem[a].tick # NULL
  <2> DEFINE u == mem[a].tick
  <2>1. /\ u \in Timers /\ u \notin Range(pool)
        /\ obj' = [obj EXCEPT ![u] = NULL]
        /\ armed' = [armed EXCEPT ![u] = FALSE]
        /\ pool' = Append(pool, u)
        /\ created' = created
    BY <1>1, <1>7 DEF platform_timer_stop, mblue_timer_release, TimersOwned
  <2>2. pool' \in Seq(Timers) /\ IsInjective(pool') /\ Range(pool') = Range(pool) \cup {u}
    BY <2>1, Appended DEF QueueTypes, TimersOwned
  <2>3. QueueTypes'
    BY <1>2, <1>4, <2>1, <2>2 DEF QueueTypes
  <2>4. Range(pool) \subseteq Timers
    BY LenProperties, ElementOfSeq DEF QueueTypes, Range
  <2>5. \A t \in Timers : obj'[t] = IF t = u THEN NULL ELSE obj[t]
    BY <2>1 DEF QueueTypes
  <2>9. \A t \in Timers : armed'[t] => t # u /\ armed[t]
    BY <2>1, Zenon DEF QueueTypes
  <2>6. \A b \in Live \ {a} : mem[b].tick # u
    BY <2>1 DEF TimersOwned
  <2>7. TimersOwned'
    <3> HIDE DEF u
    <3>1. /\ \A t \in Range(pool') : obj'[t] = NULL /\ ~armed'[t]
          /\ \A b \in Live' : mem'[b].tick \notin Range(pool')
      BY <1>2, <2>1, <2>2, <2>4, <2>5, <2>6, <2>9 DEF TimersOwned
    <3>2. ASSUME NEW t \in Timers \ Range(pool') PROVE \E b \in Live' : mem'[b].tick = t
      <4>1. t # u /\ t \in Timers \ Range(pool)
        BY <2>2
      <4>2. PICK b \in Live : mem[b].tick = t
        BY <4>1 DEF TimersOwned
      <4>3. b # a
        BY <4>1, <4>2 DEF u
      <4> QED
        BY <1>2, <4>2, <4>3
    <3>3. \A b, c \in Live' : mem'[b].tick = mem'[c].tick /\ mem'[b].tick # NULL => b = c
      BY <1>2 DEF TimersOwned
    <3>4. ASSUME NEW t \in Timers, obj'[t] # NULL
          PROVE obj'[t] \in Live' /\ mem'[obj'[t]].tick = t
      <4>1. t # u /\ obj'[t] = obj[t]
        BY <2>5, <3>4
      <4>2. obj[t] \in Live /\ mem[obj[t]].tick = t
        BY <3>4, <4>1 DEF TimersOwned
      <4>3. obj[t] # a
        BY <4>1, <4>2 DEF u
      <4> QED
        BY <1>2, <4>1, <4>2, <4>3
    <3>5. \A t \in Timers : armed'[t] => obj'[t] # NULL
      BY <2>5, <2>9 DEF TimersOwned
    <3> QED
      BY <2>2, <3>1, <3>2, <3>3, <3>4, <3>5 DEF TimersOwned
  <2>8. \A t \in Timers : obj[t] # NULL /\ obj[t] # a => obj'[t] = obj[t]
    BY <2>5 DEF TimersOwned
  <2> QED
    BY <1>2, <1>5, <2>3, <2>5, <2>7, <2>8
<1> QED
  BY <1>6, <1>7

(* Linking a new element: the other elements and the timers they own stay  *)
(* as they are.                                                            *)
LEMMA LinkKeeps ==
  ASSUME ListInv, IdsUnique, adds \in 0 .. MaxAdds - 1,
         NEW a \in Heap, mem[a] = NULL, NEW type \in Types \ bm, NEW mode \in Modes,
         NEW timed, NEW chain \in SUBSET {"WAKEUP", "CANCEL", "FINISH"},
         Link(a, type, mode, timed, chain)
  PROVE  /\ ListInv' /\ IdsUnique'
         /\ adds' \in 0 .. MaxAdds
         /\ down' \in {down, "no timer"}
         /\ \A b \in Live : b \in Live' /\ mem'[b] = mem[b]
         /\ \A t \in Timers : obj[t] # NULL => obj'[t] = obj[t]
<1> DEFINE u == IF timed THEN mblue_timer_get ELSE NULL
           new == [id |-> adds + 1, type |-> type, mode |-> mode, tick |-> u, chain |-> chain]
<1> USE DEF ListInv
<1>1. /\ mem' = [mem EXCEPT ![a] = new] /\ queue' = Append(queue, a)
      /\ bm' = bm \cup {type} /\ adds' = adds + 1
  BY DEF Link
<1>2. NULL \notin Timers /\ NULL \notin Heap
  BY DEF Timers
<1>3. a \notin Live
  BY DEF Live
<1>4. pool \in Seq(Timers) /\ IsInjective(pool) /\ Range(pool) \subseteq Timers
  BY LenProperties, ElementOfSeq DEF QueueTypes, TimersOwned, Range
<1>5. /\ u # NULL => u \in Range(pool) /\ u = Head(pool) /\ pool # << >>
      /\ u \in Timers \cup {NULL}
  BY <1>4, Beheaded DEF mblue_timer_get
<1>6. new \in Elements
  BY <1>5 DEF Elements, Ids
<1>7. /\ new.id = adds + 1 /\ new.type = type /\ new.tick = u
  OBVIOUS
<1> HIDE DEF new, u
<1>8. /\ mem' \in [Heap -> Elements \cup {NULL}]
      /\ Live' = Live \cup {a}
      /\ mem'[a] = new
      /\ \A b \in Live : mem'[b] = mem[b]
  <2> HIDE DEF ListInv
  <2>1. mem \in [Heap -> Elements \cup {NULL}]
    BY DEF ListInv, QueueTypes
  <2> QED
    BY <1>1, <1>3, <1>6, <2>1 DEF Live
<1>9. MaskMatchesList' /\ queue' \in Seq(Heap)
  <2>1. queue \in Seq(Heap) /\ IsInjective(queue) /\ Range(queue) = Live
    BY DEF QueueTypes, MaskMatchesList
  <2>2. queue' \in Seq(Heap) /\ IsInjective(queue') /\ Range(queue') = Live'
    BY <1>1, <1>3, <1>8, <2>1, Appended
  <2>3. bm' = {mem'[b].type : b \in Live'}
    BY <1>1, <1>7, <1>8 DEF MaskMatchesList
  <2>4. \A b \in Live : mem[b].type # type
    BY DEF MaskMatchesList
  <2>5. \A b, c \in Live' : mem'[b].type = mem'[c].type => b = c
    BY <1>7, <1>8, <2>4 DEF MaskMatchesList
  <2> QED
    BY <2>2, <2>3, <2>5 DEF MaskMatchesList
<1>10. IdsUnique'
  <2>1. \A b \in Live : mem[b].id \in Nat /\ mem[b].id <= adds
    BY DEF IdsUnique, Live, QueueTypes, Elements, Ids
  <2>2. \A b \in Live' : mem'[b].id <= adds'
    BY <1>1, <1>7, <1>8, <2>1
  <2>3. \A b, c \in Live' : mem'[b].id = mem'[c].id => b = c
    BY <1>7, <1>8, <2>1 DEF IdsUnique
  <2> QED
    BY <2>2, <2>3 DEF IdsUnique
<1>11. CASE u = NULL
  <2>1. /\ pool' = pool /\ obj' = obj /\ armed' = armed /\ created' = created
        /\ down' \in {down, "no timer"}
    BY <1>11 DEF Link, u, timerVars
  <2>2. QueueTypes'
    BY <1>1, <1>8, <1>9, <2>1 DEF QueueTypes
  <2>3. TimersOwned'
    <3>1. /\ \A b \in Live' : mem'[b].tick \notin Range(pool')
          /\ \A b, c \in Live' : mem'[b].tick = mem'[c].tick /\ mem'[b].tick # NULL => b = c
      <4>1. /\ \A b \in Live : mem[b].tick \notin Range(pool)
            /\ \A b, c \in Live : mem[b].tick = mem[c].tick /\ mem[b].tick # NULL => b = c
        BY DEF TimersOwned
      <4>2. mem'[a].tick = NULL /\ NULL \notin Range(pool')
        BY <1>2, <1>4, <1>7, <1>8, <1>11, <2>1
      <4>3. \A b \in Live' : b = a \/ (b \in Live /\ mem'[b] = mem[b])
        BY <1>8
      <4>4. ASSUME NEW b \in Live' PROVE mem'[b].tick \notin Range(pool')
        <5>1. CASE b = a
          BY <4>2, <5>1
        <5>2. CASE b \in Live /\ mem'[b] = mem[b]
          <6>1. mem'[b].tick \notin Range(pool)
            BY <4>1, <5>2
          <6> QED
            BY <2>1, <6>1
        <5> QED
          BY <4>3, <5>1, <5>2
      <4>5. ASSUME NEW b \in Live', NEW c \in Live',
                   mem'[b].tick = mem'[c].tick, mem'[b].tick # NULL
            PROVE  b = c
        <5>1. b \in Live /\ c \in Live /\ mem'[b] = mem[b] /\ mem'[c] = mem[c]
          BY <4>2, <4>3, <4>5
        <5> QED
          BY <4>1, <4>5, <5>1
      <4> QED
        BY <4>4, <4>5
    <3>2. \A t \in Timers \ Range(pool') : \E b \in Live' : mem'[b].tick = t
      <4>1. \A t \in Timers \ Range(pool) : \E b \in Live : mem[b].tick = t
        BY DEF TimersOwned
      <4>2. \A b \in Live : b \in Live' /\ mem'[b] = mem[b]
        BY <1>8
      <4> HIDE DEF ListInv
      <4> QED
        BY <2>1, <4>1, <4>2
    <3>3. \A t \in Timers : obj'[t] # NULL => obj'[t] \in Live' /\ mem'[obj'[t]].tick = t
      <4>1. \A t \in Timers : obj[t] # NULL => obj[t] \in Live /\ mem[obj[t]].tick = t
        BY DEF TimersOwned
      <4>2. \A b \in Live : b \in Live' /\ mem'[b] = mem[b]
        BY <1>8
      <4> HIDE DEF ListInv
      <4> QED
        BY <2>1, <4>1, <4>2
    <3> QED
      BY <2>1, <3>1, <3>2, <3>3 DEF TimersOwned
  <2>4. \A b \in Live : b \in Live' /\ mem'[b] = mem[b]
    BY <1>8
  <2>5. adds' \in 0 .. MaxAdds
    BY <1>1
  <2> QED
    BY <1>9, <1>10, <2>1, <2>2, <2>3, <2>4, <2>5
<1>12. CASE u # NULL
  <2>1. StartTimer(u, a) /\ pool' = Tail(pool) /\ down' = down
    BY <1>12 DEF Link, u
  <2>2. u \in Timers /\ u \in Range(pool) /\ pool' \in Seq(Timers)
        /\ IsInjective(pool') /\ Range(pool') = Range(pool) \ {u}
    BY <1>4, <1>5, <1>12, <2>1, Beheaded
  <2>3. /\ obj' \in [Timers -> Heap \cup {NULL}] /\ created' \in 0 .. KernelTimers
        /\ \A t \in Timers \ {u} : obj'[t] = obj[t]
        /\ obj'[u] \in {obj[u], a}
    <3>1. CASE created < KernelTimers
      <4>1. obj' = [obj EXCEPT ![u] = a] /\ created' = created + 1
        BY <2>1, <3>1 DEF StartTimer, StartUnheeded
      <4>2. obj \in [Timers -> Heap \cup {NULL}] /\ created \in 0 .. KernelTimers
        BY DEF QueueTypes
      <4> HIDE DEF ListInv
      <4> QED
        BY <2>2, <3>1, <4>1, <4>2
    <3>2. CASE ~(created < KernelTimers)
      BY <2>1, <2>2, <3>2 DEF StartTimer, QueueTypes
    <3> QED
      BY <3>1, <3>2
  <2>4. obj[u] = NULL /\ ~armed[u]
    BY <2>2 DEF TimersOwned
  <2>5. /\ armed' \in [Timers -> BOOLEAN]
        /\ \A t \in Timers \ {u} : armed'[t] = armed[t]
        /\ armed'[u] => obj'[u] = a
    <3> HIDE DEF ListInv
    <3>1. obj \in [Timers -> Heap \cup {NULL}] /\ armed \in [Timers -> BOOLEAN]
      BY DEF ListInv, QueueTypes
    <3>2. CASE created < KernelTimers
      <4>1. obj'[u] = a
        BY <2>1, <2>2, <3>1, <3>2 DEF StartTimer, StartUnheeded
      <4>2. armed' = [armed EXCEPT ![u] = TRUE]
        BY <2>1, <3>2 DEF StartTimer, StartUnheeded
      <4> QED
        BY <2>2, <3>1, <4>1, <4>2, Zenon
    <3>3. CASE ~(created < KernelTimers)
      <4>1. armed' = armed
        BY <2>1, <3>3 DEF StartTimer
      <4> QED
        BY <2>4, <3>1, <4>1, Zenon
    <3> QED
      BY <3>2, <3>3
  <2>6. QueueTypes'
    BY <1>1, <1>8, <1>9, <2>2, <2>3, <2>5 DEF QueueTypes
  <2>7. TimersOwned'
    <3>1. /\ \A t \in Range(pool') : obj'[t] = NULL /\ ~armed'[t]
          /\ \A b \in Live' : mem'[b].tick \notin Range(pool')
      BY <1>4, <1>7, <1>8, <2>2, <2>3, <2>5 DEF TimersOwned
    <3>2. ASSUME NEW t \in Timers \ Range(pool') PROVE \E b \in Live' : mem'[b].tick = t
      <4>1. CASE t = u
        BY <1>7, <1>8, <4>1
      <4>2. CASE t # u
        BY <1>8, <2>2, <4>2 DEF TimersOwned
      <4> QED
        BY <4>1, <4>2
    <3>3. \A b \in Live : mem[b].tick # u
      BY <2>2 DEF TimersOwned
    <3>4. \A b, c \in Live' : mem'[b].tick = mem'[c].tick /\ mem'[b].tick # NULL => b = c
      BY <1>7, <1>8, <3>3 DEF TimersOwned
    <3>5. \A t \in Timers : obj'[t] # NULL => obj'[t] \in Live' /\ mem'[obj'[t]].tick = t
      <4> SUFFICES ASSUME NEW t \in Timers, obj'[t] # NULL
                   PROVE  obj'[t] \in Live' /\ mem'[obj'[t]].tick = t
        OBVIOUS
      <4>1. CASE t = u
        BY <1>7, <1>8, <2>3, <2>4, <4>1
      <4>2. CASE t # u
        BY <1>8, <2>3, <4>2 DEF TimersOwned
      <4> QED
        BY <4>1, <4>2
    <3>6. \A t \in Timers : armed'[t] => obj'[t] # NULL
      <4>1. \A t \in Timers : armed[t] => obj[t] # NULL
        BY DEF TimersOwned
      <4> QED
        BY <1>2, <2>3, <2>5, <4>1
    <3> QED
      BY <2>2, <3>1, <3>2, <3>4, <3>5, <3>6 DEF TimersOwned
  <2>8. \A t \in Timers : obj[t] # NULL => obj'[t] = obj[t]
    BY <2>3, <2>4
  <2> QED
    BY <1>1, <1>8, <1>9, <1>10, <2>1, <2>6, <2>7, <2>8
<1> QED
  BY <1>11, <1>12

(* event_queue_add as a whole: it may also refuse.                         *)
LEMMA AddKeeps ==
  ASSUME ListInv, IdsUnique, adds \in 0 .. MaxAdds,
         NEW type \in Types, NEW mode \in Modes, NEW timed,
         NEW chain \in SUBSET {"WAKEUP", "CANCEL", "FINISH"},
         event_queue_add(type, mode, timed, chain)
  PROVE  /\ ListInv' /\ IdsUnique'
         /\ adds' \in 0 .. MaxAdds
         /\ down' \in {down, "no timer"}
         /\ \A b \in Live : b \in Live' /\ mem'[b] = mem[b]
         /\ \A t \in Timers : obj[t] # NULL => obj'[t] = obj[t]
<1>1. CASE UNCHANGED <<queueVars, timerVars, down, adds>>
  <2>1. /\ mem' = mem /\ queue' = queue /\ bm' = bm /\ pool' = pool /\ obj' = obj
        /\ armed' = armed /\ created' = created /\ down' = down /\ adds' = adds
    BY <1>1 DEF queueVars, timerVars
  <2>2. Live' = Live
    BY <2>1 DEF Live
  <2>3. QueueTypes'
    BY <2>1 DEF ListInv, QueueTypes
  <2>4. MaskMatchesList'
    BY <2>1, <2>2 DEF ListInv, MaskMatchesList
  <2>5. TimersOwned'
    BY <2>1, <2>2 DEF ListInv, TimersOwned
  <2>6. IdsUnique'
    BY <2>1, <2>2 DEF IdsUnique
  <2> QED
    BY <2>1, <2>2, <2>3, <2>4, <2>5, <2>6 DEF ListInv
<1>2. CASE type \notin bm /\ \E a \in Heap : mem[a] = NULL /\ Link(a, type, mode, timed, chain)
  <2>1. PICK a \in Heap : mem[a] = NULL /\ Link(a, type, mode, timed, chain)
    BY <1>2
  <2>2. adds \in 0 .. MaxAdds - 1
    BY DEF event_queue_add
  <2>3. type \in Types \ bm
    BY <1>2
  <2> QED
    BY <2>1, <2>2, <2>3, LinkKeeps
<1> QED
  BY <1>1, <1>2 DEF event_queue_add

(* What is under way stays about live elements while elements are added.   *)
LEMMA SoundWhenAdded ==
  ASSUME ListInv, TypeOK, Sound,
         UNCHANGED <<signals, notify, msgs, history>>,
         down' \in {down, "no timer"},
         \A b \in Live : b \in Live' /\ mem'[b] = mem[b],
         \A t \in Timers : obj[t] # NULL => obj'[t] = obj[t]
  PROVE  Sound'
<1> SUFFICES ASSUME ~orphaned'
             PROVE  (SignalsMatch /\ NotifyMatches /\ MessagesMatch /\ ~foreign /\ down # "stale")'
  BY DEF Sound
<1>1. /\ signals' = signals /\ notify' = notify /\ msgs' = msgs
      /\ foreign' = foreign /\ orphaned' = orphaned
  BY DEF history
<1>2. SignalsMatch /\ NotifyMatches /\ MessagesMatch /\ ~foreign /\ down # "stale"
  BY <1>1 DEF Sound
<1>3. \A t \in Timers : obj[t] # NULL => obj[t] \in Live
  BY DEF ListInv, TimersOwned
<1>4. SignalsMatch'
  <2> SUFFICES ASSUME NEW t \in Timers, signals[t] # NULL
               PROVE  obj'[t] # NULL /\ mem'[obj'[t]].id = signals[t]
    BY <1>1 DEF SignalsMatch
  <2>1. obj[t] # NULL /\ mem[obj[t]].id = signals[t]
    BY <1>2 DEF SignalsMatch
  <2>2. obj'[t] = obj[t] /\ mem'[obj[t]] = mem[obj[t]]
    BY <1>3, <2>1
  <2> QED
    BY <2>1, <2>2
<1>5. NotifyMatches'
  <2> SUFFICES ASSUME NEW t \in Timers, notify[t].at # "idle"
               PROVE  obj'[t] # NULL /\ obj'[t] = notify[t].e /\ mem'[obj'[t]].id = notify[t].id
    BY <1>1 DEF NotifyMatches
  <2>1. obj[t] # NULL /\ obj[t] = notify[t].e /\ mem[obj[t]].id = notify[t].id
    BY <1>2 DEF NotifyMatches
  <2>2. obj'[t] = obj[t] /\ mem'[obj[t]] = mem[obj[t]]
    BY <1>3, <2>1
  <2> QED
    BY <2>1, <2>2
<1>6. MessagesMatch'
  <2> SUFFICES ASSUME NEW i \in 1 .. Len(msgs)
               PROVE  msgs[i].e \in Live' /\ mem'[msgs[i].e].id = msgs[i].id
    BY <1>1 DEF MessagesMatch
  <2> QED
    BY <1>2 DEF MessagesMatch
<1> QED
  BY <1>1, <1>2, <1>4, <1>5, <1>6

(* An element freed with nothing under way takes nothing with it.          *)
LEMMA SoundWhenFreed ==
  ASSUME EventInv, NEW a \in Live, NEW inbox, FreeElement(a, inbox), ListInv',
         Live' = Live \ {a},
         \A b \in Live' : mem'[b] = mem[b],
         \A t \in Timers : obj[t] # NULL /\ obj[t] # a => obj'[t] = obj[t],
         \A i \in 1 .. Len(inbox) : \E j \in 1 .. Len(msgs) : inbox[i] = msgs[j],
         msgs' = inbox,
         ~orphaned => foreign' = foreign,
         UNCHANGED <<signals, notify, down>>
  PROVE  Sound'
<1> SUFFICES ASSUME ~orphaned'
             PROVE  (SignalsMatch /\ NotifyMatches /\ MessagesMatch /\ ~foreign /\ down # "stale")'
  BY DEF Sound
<1>1. ~orphaned /\ ~UnderWay(a, inbox)
  BY DEF FreeElement
<1>2. SignalsMatch /\ NotifyMatches /\ MessagesMatch /\ ~foreign /\ down # "stale"
  BY <1>1 DEF EventInv, Sound
<1>3. \A t \in Timers : obj[t] # NULL => obj[t] \in Live
  BY DEF EventInv, TimersOwned
<1>4. SignalsMatch'
  <2> SUFFICES ASSUME NEW t \in Timers, signals[t] # NULL
               PROVE  obj'[t] # NULL /\ mem'[obj'[t]].id = signals[t]
    BY DEF SignalsMatch
  <2>1. obj[t] # NULL /\ mem[obj[t]].id = signals[t]
    BY <1>2 DEF SignalsMatch
  <2>2. mem[a].id # signals[t]
    <3>1. mem[a].id \notin Range(signals)
      BY <1>1 DEF UnderWay
    <3>2. DOMAIN signals = Timers
      BY DEF EventInv, TypeOK
    <3> QED
      BY <3>1, <3>2 DEF Range
  <2>3. obj[t] # a /\ obj[t] \in Live'
    BY <1>3, <2>1, <2>2
  <2> QED
    BY <2>1, <2>3
<1>5. NotifyMatches'
  <2> SUFFICES ASSUME NEW t \in Timers, notify[t].at # "idle"
               PROVE  obj'[t] # NULL /\ obj'[t] = notify[t].e /\ mem'[obj'[t]].id = notify[t].id
    BY DEF NotifyMatches
  <2>1. obj[t] # NULL /\ obj[t] = notify[t].e /\ mem[obj[t]].id = notify[t].id
    BY <1>2 DEF NotifyMatches
  <2>2. notify[t].e # a
    BY <1>1 DEF UnderWay
  <2>3. obj[t] # a /\ obj[t] \in Live'
    BY <1>3, <2>1, <2>2
  <2> QED
    BY <2>1, <2>3
<1>6. MessagesMatch'
  <2> SUFFICES ASSUME NEW i \in 1 .. Len(inbox)
               PROVE  inbox[i].e \in Live' /\ mem'[inbox[i].e].id = inbox[i].id
    BY DEF MessagesMatch
  <2>1. inbox[i].e \in Live /\ mem[inbox[i].e].id = inbox[i].id
    BY <1>2 DEF MessagesMatch
  <2>2. inbox[i].e # a
    BY <1>1 DEF UnderWay
  <2> QED
    BY <2>1, <2>2
<1> QED
  BY <1>1, <1>2, <1>4, <1>5, <1>6

(***************************************************************************)
(* Every step preserves the invariant.                                     *)
(***************************************************************************)
(* The parts of EventInv that the lemmas above work with.                  *)
LEMMA ListPart == EventInv => ListInv
BY DEF EventInv, ListInv, TypeOK, QueueTypes

(* Settled events are events.                                              *)
LEMMA SettleType ==
  ASSUME NEW ids \in SUBSET Ids, settled \subseteq Ids, Settle(ids)
  PROVE  settled' \subseteq Ids
BY DEF Settle

(* Steps that add an event, or try to.                                     *)
LEMMA AddStep ==
  ASSUME EventInv, NEW type \in Types, NEW mode \in Modes, NEW timed,
         NEW chain \in SUBSET {"WAKEUP", "CANCEL", "FINISH"},
         event_queue_add(type, mode, timed, chain),
         again' \in Types \cup {NULL},
         UNCHANGED <<signals, notify, msgs, history>>
  PROVE  EventInv'
<1>1. ListInv /\ IdsUnique /\ adds \in 0 .. MaxAdds
  BY ListPart DEF EventInv, TypeOK
<1>2. /\ ListInv' /\ IdsUnique'
      /\ adds' \in 0 .. MaxAdds
      /\ down' \in {down, "no timer"}
      /\ \A b \in Live : b \in Live' /\ mem'[b] = mem[b]
      /\ \A t \in Timers : obj[t] # NULL => obj'[t] = obj[t]
  BY <1>1, AddKeeps
<1>3. Sound'
  BY <1>1, <1>2, SoundWhenAdded DEF EventInv
<1>4. TypeOK'
  BY <1>2 DEF EventInv, ListInv, TypeOK, QueueTypes, history
<1>5. NotifyHolds'
  BY DEF EventInv, NotifyHolds
<1> QED
  BY <1>2, <1>3, <1>4, <1>5 DEF EventInv, ListInv

(* Steps that free an element.                                             *)
LEMMA FreeStep ==
  ASSUME EventInv, NEW a \in Live, NEW inbox \in Seq([e : Heap, id : Ids]),
         NEW ids \in SUBSET Ids,
         FreeElement(a, inbox), bm' = bm \ {mem[a].type}, Settle(ids),
         \A i \in 1 .. Len(inbox) : \E j \in 1 .. Len(msgs) : inbox[i] = msgs[j],
         msgs' = inbox, foreign' \in BOOLEAN,
         ~orphaned => foreign' = foreign,
         again' \in Types \cup {NULL},
         UNCHANGED <<signals, notify, down, adds>>
  PROVE  EventInv'
<1>1. ListInv
  BY ListPart
<1>2. /\ ListInv'
      /\ Live' = Live \ {a}
      /\ \A b \in Live' : mem'[b] = mem[b]
      /\ \A t \in Timers : obj[t] # NULL /\ obj[t] # a => obj'[t] = obj[t]
  BY <1>1, FreeKeeps
<1>3. Sound'
  BY <1>2, SoundWhenFreed
<1>4. settled' \subseteq Ids /\ orphaned' \in BOOLEAN
  BY SettleType DEF EventInv, TypeOK, FreeElement
<1>5. TypeOK'
  BY <1>2, <1>4 DEF EventInv, ListInv, TypeOK, QueueTypes
<1>6. NotifyHolds'
  BY DEF EventInv, NotifyHolds
<1>7. IdsUnique'
  BY <1>2 DEF EventInv, IdsUnique
<1> QED
  BY <1>2, <1>3, <1>5, <1>6, <1>7 DEF EventInv, ListInv

(* Steps that leave the queue and the timers alone.                        *)
LEMMA ListSame ==
  ASSUME EventInv, UNCHANGED <<queueVars, timerVars>>
  PROVE  /\ ListInv' /\ Live' = Live
         /\ UNCHANGED <<mem, queue, bm, pool, obj, armed, created>>
<1>1. UNCHANGED <<mem, queue, bm, pool, obj, armed, created>>
  BY DEF queueVars, timerVars
<1>2. Live' = Live
  BY <1>1 DEF Live
<1>3. QueueTypes' /\ MaskMatchesList' /\ TimersOwned'
  BY <1>1, <1>2, ListPart DEF ListInv, QueueTypes, MaskMatchesList, TimersOwned
<1> QED
  BY <1>1, <1>2, <1>3 DEF ListInv

(* timer_wakeup: in a sound state the message finds its own event.         *)
LEMMA WakeupStep ==
  ASSUME EventInv, TimerWakeup
  PROVE  EventInv'
<1> DEFINE e == Head(msgs).e
<1>1. /\ Head(msgs) \in [e : Heap, id : Ids] /\ Tail(msgs) \in Seq([e : Heap, id : Ids])
      /\ msgs \in Seq([e : Heap, id : Ids]) /\ Len(msgs) \in Nat /\ Len(msgs) > 0
      /\ Head(msgs) = msgs[1]
      /\ \A i \in 1 .. Len(Tail(msgs)) : i + 1 \in 1 .. Len(msgs) /\ Tail(msgs)[i] = msgs[i + 1]
  <2> DEFINE M == [e : Heap, id : Ids]
  <2>1. msgs \in Seq(M) /\ msgs # << >>
    BY DEF TimerWakeup, EventInv, TypeOK
  <2> HIDE DEF M
  <2>2. Len(msgs) \in Nat /\ Len(msgs) > 0 /\ Head(msgs) = msgs[1]
    BY <2>1, HeadTailProperties, LenProperties, EmptySeq
  <2>3. /\ Head(msgs) \in M /\ Tail(msgs) \in Seq(M)
        /\ Len(Tail(msgs)) = Len(msgs) - 1
        /\ \A i \in 1 .. Len(Tail(msgs)) : Tail(msgs)[i] = msgs[i + 1]
    BY <2>1, HeadTailProperties
  <2> QED
    BY <2>1, <2>2, <2>3 DEF M
<1>2. PICK type \in (IF mem[e] = NULL THEN Types \cup {NULL} ELSE {mem[e].type}) :
        /\ event_queue_wakeup(type, Tail(msgs))
        /\ Settle({IF type \in bm THEN mem[Target(type)].id ELSE NULL} \ {NULL})
        /\ foreign' = (foreign \/ (IF type \in bm THEN mem[Target(type)].id ELSE NULL) # Head(msgs).id)
  BY DEF TimerWakeup
<1>3. /\ msgs' = Tail(msgs) /\ again' \in Types \cup {NULL} /\ foreign' \in BOOLEAN
      /\ UNCHANGED <<signals, notify, down, adds>>
  BY <1>2 DEF TimerWakeup, EventInv, TypeOK
<1>4. ListInv
  BY ListPart
<1>5. type \in bm => Target(type) \in Live /\ mem[Target(type)].type = type /\ mem[Target(type)].id \in Ids
  <2>1. SUFFICES ASSUME type \in bm
                 PROVE  Target(type) \in Live /\ mem[Target(type)].type = type /\ mem[Target(type)].id \in Ids
    OBVIOUS
  <2>2. Target(type) \in Live /\ mem[Target(type)].type = type
    BY <1>4, <2>1, FindsElement DEF ListInv, Target
  <2>3. mem[Target(type)] \in Elements
    BY <1>4, <2>2 DEF ListInv, QueueTypes, Live
  <2> QED
    BY <2>2, <2>3 DEF Elements
<1>6. ~orphaned => foreign' = foreign
  <2> SUFFICES ASSUME ~orphaned PROVE foreign' = foreign
    OBVIOUS
  <2>1. e \in Live /\ mem[e].id = Head(msgs).id
    BY <1>1 DEF EventInv, Sound, MessagesMatch
  <2>2. type = mem[e].type /\ type \in bm
    BY <1>2, <1>4, <2>1 DEF Live, ListInv, MaskMatchesList
  <2>3. Target(type) = e
    BY <1>4, <1>5, <2>1, <2>2 DEF ListInv, MaskMatchesList
  <2>4. foreign \in BOOLEAN
    BY DEF EventInv, TypeOK
  <2> QED
    BY <1>2, <2>1, <2>2, <2>3, <2>4
<1> DEFINE ids == {IF type \in bm THEN mem[Target(type)].id ELSE NULL} \ {NULL}
<1>7. ids \in SUBSET Ids /\ Settle(ids)
  BY <1>2, <1>5
<1> HIDE DEF ids
<1>8. CASE type \in bm /\ FreeElement(Target(type), Tail(msgs)) /\ bm' = bm \ {mem[Target(type)].type}
  <2>1. \A i \in 1 .. Len(Tail(msgs)) : \E j \in 1 .. Len(msgs) : Tail(msgs)[i] = msgs[j]
    BY <1>1
  <2> QED
    BY <1>1, <1>3, <1>5, <1>6, <1>7, <1>8, <2>1, FreeStep
<1>9. CASE UNCHANGED <<queueVars, timerVars, orphaned>>
  <2>1. /\ ListInv' /\ Live' = Live
        /\ UNCHANGED <<mem, queue, bm, pool, obj, armed, created>>
    BY <1>9, ListSame
  <2>2. settled' \subseteq Ids
    BY <1>7, SettleType DEF EventInv, TypeOK
  <2>3. TypeOK'
    BY <1>1, <1>3, <1>9, <2>1, <2>2 DEF EventInv, TypeOK
  <2>4. NotifyHolds' /\ IdsUnique'
    BY <1>3, <2>1 DEF EventInv, NotifyHolds, IdsUnique
  <2>5. Sound'
    <3> SUFFICES ASSUME ~orphaned
                 PROVE  (SignalsMatch /\ NotifyMatches /\ MessagesMatch /\ ~foreign /\ down # "stale")'
      BY <1>9 DEF Sound
    <3>1. SignalsMatch' /\ NotifyMatches' /\ ~foreign' /\ down' # "stale"
      BY <1>3, <1>6, <2>1 DEF EventInv, Sound, SignalsMatch, NotifyMatches
    <3>2. \A i \in 1 .. Len(msgs) : msgs[i].e \in Live /\ mem[msgs[i].e].id = msgs[i].id
      BY DEF EventInv, Sound, MessagesMatch
    <3>3. MessagesMatch'
      BY <1>1, <1>3, <2>1, <3>2 DEF MessagesMatch
    <3> QED
      BY <3>1, <3>3
  <2> QED
    BY <2>1, <2>3, <2>4, <2>5 DEF EventInv, ListInv
<1> QED
  BY <1>2, <1>8, <1>9 DEF event_queue_wakeup

(* A timer expires: its signal is about the element it points to.          *)
LEMMA ExpireStep ==
  ASSUME EventInv, NEW t \in Timers, Expire(t)
  PROVE  EventInv'
<1>1. obj[t] \in Live /\ mem[obj[t]].tick = t
  BY DEF EventInv, TimersOwned, Expire
<1>2. mem[obj[t]].id \in Ids
  <2>1. mem[obj[t]] \in Elements
    BY <1>1, ListPart DEF ListInv, QueueTypes, Live
  <2> QED
    BY <2>1 DEF Elements
<1>3. signals' = [signals EXCEPT ![t] = mem[obj[t]].id] /\ signals \in [Timers -> Ids \cup {NULL}]
  BY DEF Expire, EventInv, TypeOK
<1>4. /\ mem' = mem /\ queue' = queue /\ bm' = bm /\ pool' = pool /\ obj' = obj
      /\ created' = created /\ notify' = notify /\ msgs' = msgs /\ again' = again
      /\ down' = down /\ adds' = adds /\ settled' = settled
      /\ foreign' = foreign /\ orphaned' = orphaned
  BY DEF Expire, queueVars, history
<1>5. Live' = Live
  BY <1>4 DEF Live
<1>6. armed' \in [Timers -> BOOLEAN] /\ \A u \in Timers : armed'[u] => armed[u]
  <2>1. armed \in [Timers -> BOOLEAN] /\ armed[t]
    BY DEF EventInv, TypeOK, Expire
  <2>2. armed' = [armed EXCEPT ![t] = mem[obj[t]].mode = "PERIODICAL"]
    BY DEF Expire, Reload
  <2> QED
    BY <2>1, <2>2, Zenon
<1>7. TypeOK'
  BY <1>2, <1>3, <1>4, <1>6 DEF EventInv, TypeOK
<1>8. MaskMatchesList' /\ IdsUnique' /\ NotifyHolds'
  BY <1>4, <1>5 DEF EventInv, MaskMatchesList, IdsUnique, NotifyHolds
<1>9. TimersOwned'
  <2>1. \A u \in Range(pool) : u \in Timers
    BY ListPart, LenProperties, ElementOfSeq DEF ListInv, QueueTypes, Range
  <2>2. \A u \in Range(pool') : obj'[u] = NULL /\ ~armed'[u]
    BY <1>4, <1>6, <2>1 DEF EventInv, TimersOwned
  <2>3. \A u \in Timers : armed'[u] => obj'[u] # NULL
    BY <1>4, <1>6 DEF EventInv, TimersOwned
  <2> QED
    BY <1>4, <1>5, <2>2, <2>3 DEF EventInv, TimersOwned
<1>10. Sound'
  <2> SUFFICES ASSUME ~orphaned
               PROVE  (SignalsMatch /\ NotifyMatches /\ MessagesMatch /\ ~foreign /\ down # "stale")'
    BY <1>4 DEF Sound
  <2>1. SignalsMatch /\ NotifyMatches /\ MessagesMatch /\ ~foreign /\ down # "stale"
    BY DEF EventInv, Sound
  <2>2. obj[t] # NULL
    BY <1>1 DEF Live
  <2>3. SignalsMatch'
    BY <1>3, <1>4, <2>1, <2>2 DEF SignalsMatch
  <2>4. NotifyMatches'
    BY <1>4, <2>1 DEF NotifyMatches
  <2>5. MessagesMatch'
    BY <1>4, <1>5, <2>1 DEF MessagesMatch
  <2> QED
    BY <1>4, <2>1, <2>3, <2>4, <2>5
<1> QED
  BY <1>7, <1>8, <1>9, <1>10 DEF EventInv

(* The steps of the signal handler, up to its message.                     *)
LEMMA NotifyStep ==
  ASSUME EventInv, NEW t \in Timers,
         NotifyTest(t) \/ NotifyLoad(t) \/ default_timer_event(t)
  PROVE  EventInv'
<1>1. UNCHANGED <<queueVars, timerVars, again, adds, foreign, orphaned>>
  BY DEF NotifyTest, NotifyLoad, default_timer_event, history
<1>2. /\ ListInv' /\ Live' = Live
      /\ mem' = mem /\ queue' = queue /\ bm' = bm /\ pool' = pool /\ obj' = obj
      /\ armed' = armed /\ created' = created
      /\ again' = again /\ adds' = adds /\ foreign' = foreign /\ orphaned' = orphaned
  BY <1>1, ListSame
<1>3. MaskMatchesList' /\ TimersOwned' /\ QueueTypes'
  BY <1>2 DEF ListInv
<1>4. IdsUnique'
  BY <1>2 DEF EventInv, IdsUnique
<1> DEFINE N == [at : {"idle", "load", "post"}, e : Heap \cup {NULL}, id : Ids \cup {NULL}]
<1>5. /\ signals \in [Timers -> Ids \cup {NULL}] /\ notify \in [Timers -> N]
      /\ obj \in [Timers -> Heap \cup {NULL}]
      /\ msgs \in Seq([e : Heap, id : Ids]) /\ settled \subseteq Ids
      /\ down \in {"no", "stale", "no timer"}
  BY DEF EventInv, TypeOK
<1>6. /\ notify[t].at # "idle" => notify[t].e \in Heap /\ notify[t].id \in Ids
      /\ Idle \in N /\ Idle.at = "idle"
  BY DEF EventInv, NotifyHolds, Idle
<1>7. ~orphaned => SignalsMatch /\ NotifyMatches /\ MessagesMatch /\ ~foreign /\ down # "stale"
  BY DEF EventInv, Sound
<1>8. ASSUME NotifyTest(t) PROVE EventInv'
  <2> DEFINE n == IF obj[t] = NULL THEN Idle
                  ELSE [at |-> "load", e |-> obj[t], id |-> signals[t]]
  <2>1. /\ signals[t] # NULL
        /\ signals' = [signals EXCEPT ![t] = NULL]
        /\ notify' = [notify EXCEPT ![t] = n]
        /\ msgs' = msgs /\ down' = down /\ settled' = settled
    BY <1>8 DEF NotifyTest, history
  <2>2. n \in N /\ (n.at # "idle" => n.e \in Heap /\ n.id \in Ids /\ obj[t] # NULL /\ n.e = obj[t] /\ n.id = signals[t])
    <3>1. CASE obj[t] = NULL
      BY <1>6, <3>1
    <3>2. CASE obj[t] # NULL
      BY <1>5, <2>1, <3>2
    <3> QED
      BY <3>1, <3>2
  <2> HIDE DEF n
  <2>3. notify' \in [Timers -> N] /\ signals' \in [Timers -> Ids \cup {NULL}]
    BY <1>5, <2>1, <2>2
  <2>4. TypeOK'
    BY <1>2, <1>3, <1>5, <2>1, <2>3 DEF TypeOK, QueueTypes, EventInv
  <2>5. NotifyHolds'
    BY <1>5, <2>1, <2>2 DEF EventInv, NotifyHolds
  <2>6. Sound'
    <3> SUFFICES ASSUME ~orphaned
                 PROVE  (SignalsMatch /\ NotifyMatches /\ MessagesMatch /\ ~foreign /\ down # "stale")'
      BY <1>2 DEF Sound
    <3>1. SignalsMatch'
      BY <1>2, <1>5, <1>7, <2>1 DEF SignalsMatch
    <3>2. NotifyMatches'
      <4> SUFFICES ASSUME NEW u \in Timers, notify'[u].at # "idle"
                   PROVE  /\ obj[u] # NULL /\ obj[u] = notify'[u].e
                          /\ mem[obj[u]].id = notify'[u].id
        BY <1>2 DEF NotifyMatches
      <4>1. CASE u = t
        <5>1. notify'[u] = n
          BY <1>5, <2>1, <4>1
        <5> QED
          BY <1>7, <2>1, <2>2, <4>1, <5>1 DEF SignalsMatch
      <4>2. CASE u # t
        <5>1. notify'[u] = notify[u]
          BY <1>5, <2>1, <4>2
        <5> QED
          BY <1>7, <5>1 DEF NotifyMatches
      <4> QED
        BY <4>1, <4>2
    <3>3. MessagesMatch'
      BY <1>2, <1>7, <2>1 DEF MessagesMatch
    <3> QED
      BY <1>2, <1>7, <2>1, <3>1, <3>2, <3>3
  <2> QED
    BY <1>3, <1>4, <2>4, <2>5, <2>6 DEF EventInv
<1>9. ASSUME NotifyLoad(t) PROVE EventInv'
  <2>1. /\ notify[t].at = "load" /\ signals' = signals
        /\ msgs' = msgs /\ settled' = settled
    BY <1>9 DEF NotifyLoad, history
  <2>2. PICK x \in {notify[t].e, obj[t]} :
          IF x = NULL
            THEN down' = "stale" /\ UNCHANGED notify
            ELSE /\ notify' = [notify EXCEPT ![t].at = "post", ![t].e = x]
                 /\ UNCHANGED down
    BY <1>9 DEF NotifyLoad
  <2>3. x \in Heap \cup {NULL}
    <3>1. notify[t].e \in Heap \cup {NULL}
      BY <1>5
    <3>2. obj[t] \in Heap \cup {NULL}
      BY <1>5
    <3> QED
      BY <3>1, <3>2
  <2>4. CASE x = NULL
    <3>1. down' = "stale" /\ notify' = notify
      BY <2>2, <2>4
    <3>2. orphaned
      BY <1>6, <1>7, <2>1, <2>2, <2>4 DEF NotifyMatches
    <3>3. TypeOK' /\ NotifyHolds'
      BY <1>2, <1>3, <1>5, <2>1, <3>1 DEF TypeOK, QueueTypes, EventInv, NotifyHolds
    <3> QED
      BY <1>2, <1>3, <1>4, <3>2, <3>3 DEF EventInv, Sound
  <2>5. CASE x # NULL
    <3>1. notify' = [notify EXCEPT ![t].at = "post", ![t].e = x] /\ down' = down
      BY <2>2, <2>5
    <3>2. /\ notify' \in [Timers -> N]
          /\ \A u \in Timers \ {t} : notify'[u] = notify[u]
          /\ notify'[t].e = x /\ notify'[t].id = notify[t].id
      <4>1. notify[t] \in N
        BY <1>5
      <4>2. notify'[t] = [notify[t] EXCEPT !.at = "post", !.e = x]
        BY <1>5, <3>1
      <4>3. /\ notify'[t] \in N
            /\ notify'[t].e = x /\ notify'[t].id = notify[t].id
        BY <2>3, <4>1, <4>2
      <4>4. \A u \in Timers \ {t} : notify'[u] = notify[u]
        BY <1>5, <3>1
      <4>5. DOMAIN notify' = Timers /\ notify' = [u \in DOMAIN notify' |-> notify'[u]]
        BY <1>5, <3>1
      <4>6. notify \in [Timers -> N]
        BY <1>5
      <4> HIDE DEF N
      <4>7. \A u \in Timers : notify'[u] \in N
        BY <4>3, <4>4, <4>6
      <4> QED
        BY <4>3, <4>4, <4>5, <4>7
    <3>3. TypeOK'
      BY <1>2, <1>3, <1>5, <2>1, <3>1, <3>2 DEF TypeOK, QueueTypes, EventInv
    <3>4. NotifyHolds'
      BY <1>6, <2>1, <2>3, <2>5, <3>2 DEF EventInv, NotifyHolds
    <3>5. Sound'
      <4> SUFFICES ASSUME ~orphaned
                   PROVE  (SignalsMatch /\ NotifyMatches /\ MessagesMatch /\ ~foreign /\ down # "stale")'
        BY <1>2 DEF Sound
      <4>1. SignalsMatch'
        BY <1>2, <1>7, <2>1 DEF SignalsMatch
      <4>2. x = notify[t].e
        BY <1>7, <2>1, <2>2 DEF NotifyMatches
      <4>3. NotifyMatches'
        BY <1>2, <1>7, <2>1, <3>2, <4>2 DEF NotifyMatches
      <4>4. MessagesMatch'
        BY <1>2, <1>7, <2>1 DEF MessagesMatch
      <4> QED
        BY <1>2, <1>7, <3>1, <4>1, <4>3, <4>4
    <3> QED
      BY <1>3, <1>4, <3>3, <3>4, <3>5 DEF EventInv
  <2> QED
    BY <2>4, <2>5
<1>10. ASSUME default_timer_event(t) PROVE EventInv'
  <2>1. notify[t].at = "post" /\ signals' = signals
        /\ notify[t].e \in Heap /\ notify[t].id \in Ids
    BY <1>6, <1>10 DEF default_timer_event
  <2>2. CASE ReadStale(t)
    <3> USE DEF ReadStale
    <3>1. orphaned
      BY <1>7, <2>1, <2>2 DEF NotifyMatches, EventInv, TimersOwned, Live
    <3>2. TypeOK' /\ NotifyHolds'
      BY <1>2, <1>3, <1>5, <2>1, <2>2 DEF TypeOK, QueueTypes, EventInv, NotifyHolds
    <3> QED
      BY <1>2, <1>3, <1>4, <3>1, <3>2 DEF EventInv, Sound
  <2>3. CASE /\ notify' = [notify EXCEPT ![t] = Idle]
             /\ \/ /\ msgs' = Append(msgs, [e |-> notify[t].e, id |-> notify[t].id])
                   /\ UNCHANGED settled
                \/ Settle({notify[t].id}) /\ UNCHANGED msgs
             /\ UNCHANGED down
    <3> DEFINE m == [e |-> notify[t].e, id |-> notify[t].id]
    <3>1. m \in [e : Heap, id : Ids] /\ m.e = notify[t].e /\ m.id = notify[t].id
      BY <2>1
    <3>2. notify' \in [Timers -> N] /\ notify'[t] = Idle
          /\ \A u \in Timers \ {t} : notify'[u] = notify[u]
      BY <1>5, <1>6, <2>3
    <3>3. msgs' \in Seq([e : Heap, id : Ids])
          /\ \A i \in 1 .. Len(msgs') : msgs'[i] = m \/ (i \in 1 .. Len(msgs) /\ msgs'[i] = msgs[i])
      <4> HIDE DEF m
      <4>1. CASE msgs' = Append(msgs, m)
        <5> DEFINE M == [e : Heap, id : Ids]
        <5>3. msgs \in Seq(M) /\ m \in M
          BY <1>5, <3>1
        <5> HIDE DEF M
        <5>1. /\ Append(msgs, m) \in Seq(M) /\ Len(Append(msgs, m)) = Len(msgs) + 1
              /\ Append(msgs, m)[Len(msgs) + 1] = m
              /\ \A i \in 1 .. Len(msgs) : Append(msgs, m)[i] = msgs[i]
          BY <5>3, AppendProperties
        <5>2. Len(msgs) \in Nat
          BY <5>3, LenProperties
        <5> QED
          BY <4>1, <5>1, <5>2 DEF M
      <4>2. CASE msgs' = msgs
        BY <1>5, <4>2
      <4> QED
        BY <2>3, <4>1, <4>2 DEF m
    <3>4. settled' \subseteq Ids
      <4>1. {notify[t].id} \in SUBSET Ids
        BY <2>1
      <4> QED
        BY <1>5, <2>3, <4>1, SettleType
    <3>5. TypeOK'
      BY <1>2, <1>3, <1>5, <2>1, <2>3, <3>2, <3>3, <3>4 DEF TypeOK, QueueTypes, EventInv
    <3>6. NotifyHolds'
      BY <1>6, <3>2 DEF EventInv, NotifyHolds
    <3>7. Sound'
      <4> SUFFICES ASSUME ~orphaned
                   PROVE  (SignalsMatch /\ NotifyMatches /\ MessagesMatch /\ ~foreign /\ down # "stale")'
        BY <1>2 DEF Sound
      <4>1. SignalsMatch'
        BY <1>2, <1>7, <2>1 DEF SignalsMatch
      <4>2. NotifyMatches'
        BY <1>2, <1>6, <1>7, <3>2 DEF NotifyMatches
      <4>3. m.e \in Live /\ mem[m.e].id = m.id
        BY <1>7, <2>1, <3>1 DEF NotifyMatches, EventInv, TimersOwned
      <4>4. \A i \in 1 .. Len(msgs) : msgs[i].e \in Live /\ mem[msgs[i].e].id = msgs[i].id
        BY <1>7 DEF MessagesMatch
      <4>5. MessagesMatch'
        <5> HIDE DEF m
        <5> QED
          BY <1>2, <3>3, <4>3, <4>4 DEF MessagesMatch
      <4> QED
        BY <1>2, <1>7, <2>3, <4>1, <4>2, <4>5
    <3> QED
      BY <1>3, <1>4, <3>5, <3>6, <3>7 DEF EventInv
  <2> QED
    BY <1>10, <2>2, <2>3 DEF default_timer_event, TimeoutSent, TimeoutLost
<1> QED
  BY <1>8, <1>9, <1>10

(* cancel_delayed_event and reschedule_delayed_event_with_type: the event  *)
(* of a type in the mask is deleted.                                       *)
LEMMA DeleteStep ==
  ASSUME EventInv, NEW type \in bm, event_queue_delete(type), Settle({}),
         again' \in Types \cup {NULL},
         UNCHANGED <<signals, notify, msgs, down, adds, foreign>>
  PROVE  EventInv'
<1>1. ElementOf(type) \in Live /\ mem[ElementOf(type)].type = type
  BY ListPart, FindsElement DEF ListInv
<1>2. FreeElement(ElementOf(type), msgs) /\ bm' = bm \ {mem[ElementOf(type)].type}
  BY <1>1 DEF event_queue_delete
<1>3. msgs \in Seq([e : Heap, id : Ids]) /\ foreign' \in BOOLEAN
  BY DEF EventInv, TypeOK
<1> QED
  BY <1>1, <1>2, <1>3, FreeStep

(* Every step of the task, the clock and the signal handler preserves the  *)
(* invariant.                                                              *)
THEOREM NextEventInv == EventInv /\ [Next]_vars => EventInv'
<1> SUFFICES ASSUME EventInv, [Next]_vars PROVE EventInv'
  OBVIOUS
<1>1. again \in Types \cup {NULL} /\ NULL \in Types \cup {NULL}
  BY DEF EventInv, TypeOK
<1>2. ASSUME NEW type \in Types, NEW timed \in BOOLEAN, NEW chain \in Chains,
             AddPendingEvent(type, timed, chain)
      PROVE  EventInv'
  <2>1. /\ event_queue_add(type, "PENDING_EVENT", timed, chain) /\ again' = again
        /\ UNCHANGED <<signals, notify, msgs, history>>
        /\ chain \in SUBSET {"WAKEUP", "CANCEL", "FINISH"} /\ "PENDING_EVENT" \in Modes
    BY <1>2 DEF AddPendingEvent, Modes
  <2> QED
    BY <1>1, <2>1, AddStep
<1>3. ASSUME NEW type \in Types, ScheduleEvent(type) PROVE EventInv'
  <2>1. /\ event_queue_add(type, "PERIODICAL", TRUE, {"WAKEUP"}) /\ again' = again
        /\ UNCHANGED <<signals, notify, msgs, history>>
        /\ {"WAKEUP"} \in SUBSET {"WAKEUP", "CANCEL", "FINISH"} /\ "PERIODICAL" \in Modes
    BY <1>3 DEF ScheduleEvent, Modes
  <2> QED
    BY <1>1, <2>1, AddStep
<1>4. ASSUME NEW type \in Types, RescheduleDelete(type) PROVE EventInv'
  BY <1>4, DeleteStep DEF RescheduleDelete
<1>5. ASSUME NEW type \in Types, cancel_delayed_event(type) PROVE EventInv'
  <2>1. again' = again
    BY <1>5 DEF cancel_delayed_event
  <2> QED
    BY <1>1, <1>5, <2>1, DeleteStep DEF cancel_delayed_event
<1>6. ASSUME NEW type \in Types, PendingEventNotify(type) PROVE EventInv'
  <2>1. /\ type \in bm /\ event_queue_wakeup(type, msgs) /\ Settle({})
        /\ again' \in Types \cup {NULL} /\ msgs' = msgs
        /\ UNCHANGED <<signals, notify, down, adds, foreign>>
    BY <1>1, <1>6 DEF PendingEventNotify
  <2>2. Target(type) \in Live
    BY <2>1, ListPart, FindsElement DEF ListInv, Target
  <2>3. CASE FreeElement(Target(type), msgs) /\ bm' = bm \ {mem[Target(type)].type}
    <3>1. msgs \in Seq([e : Heap, id : Ids]) /\ foreign' \in BOOLEAN
      BY <2>1 DEF EventInv, TypeOK
    <3> QED
      BY <2>1, <2>2, <2>3, <3>1, FreeStep
  <2>4. CASE UNCHANGED <<queueVars, timerVars, orphaned>>
    <3>1. /\ ListInv' /\ Live' = Live
          /\ UNCHANGED <<mem, queue, bm, pool, obj, armed, created>>
      BY <2>4, ListSame
    <3>2. settled' \subseteq Ids
      BY <2>1, SettleType DEF EventInv, TypeOK
    <3>3. TypeOK'
      BY <2>1, <2>4, <3>1, <3>2 DEF EventInv, TypeOK, ListInv, QueueTypes
    <3>4. IdsUnique' /\ NotifyHolds'
      BY <2>1, <3>1 DEF EventInv, IdsUnique, NotifyHolds
    <3>5. Sound'
      BY <2>1, <2>4, <3>1 DEF EventInv, Sound, SignalsMatch, NotifyMatches, MessagesMatch
    <3> QED
      BY <3>1, <3>3, <3>4, <3>5 DEF EventInv, ListInv
  <2> QED
    BY <2>1, <2>3, <2>4 DEF event_queue_wakeup
<1>7. ASSUME RescheduleAdd PROVE EventInv'
  <2>1. /\ event_queue_add(again, "PERIODICAL", TRUE, {"WAKEUP"}) /\ again' = NULL
        /\ again \in Types
        /\ UNCHANGED <<signals, notify, msgs, history>>
        /\ {"WAKEUP"} \in SUBSET {"WAKEUP", "CANCEL", "FINISH"} /\ "PERIODICAL" \in Modes
    BY <1>1, <1>7 DEF RescheduleAdd, Modes
  <2> QED
    BY <1>1, <2>1, AddStep
<1>8. CASE TimerWakeup
  BY <1>8, WakeupStep
<1>9. ASSUME NEW t \in Timers, Expire(t) PROVE EventInv'
  BY <1>9, ExpireStep
<1>10. ASSUME NEW t \in Timers, NotifyTest(t) \/ NotifyLoad(t) \/ default_timer_event(t)
       PROVE  EventInv'
  BY <1>10, NotifyStep
<1>11. CASE UNCHANGED vars
  <2>1. UNCHANGED <<queueVars, timerVars, signals, notify, msgs, again, down, adds, history>>
    BY <1>11 DEF vars
  <2>2. /\ ListInv' /\ Live' = Live
        /\ UNCHANGED <<mem, queue, bm, pool, obj, armed, created>>
    BY <2>1, ListSame
  <2>3. TypeOK'
    BY <2>1, <2>2 DEF EventInv, TypeOK, ListInv, QueueTypes, history
  <2>4. IdsUnique' /\ NotifyHolds'
    BY <2>1, <2>2 DEF EventInv, IdsUnique, NotifyHolds
  <2>5. Sound'
    BY <2>1, <2>2 DEF EventInv, Sound, SignalsMatch, NotifyMatches, MessagesMatch, history
  <2> QED
    BY <2>2, <2>3, <2>4, <2>5 DEF EventInv, ListInv
<1> QED
  BY <1>2, <1>3, <1>4, <1>5, <1>6, <1>7, <1>8, <1>9, <1>10, <1>11 DEF Next

(* timer_list_init and event_queue_init establish it.                      *)
THEOREM InitEventInv == Init => EventInv
<1> SUFFICES ASSUME Init PROVE EventInv
  OBVIOUS
<1>1. Live = {}
  BY DEF Init, Live
<1>2. pool \in Seq(Timers) /\ DOMAIN pool = Timers /\ Range(pool) = Timers /\ IsInjective(pool)
  <2>1. pool \in [1 .. MaxTimers -> Timers]
    BY DEF Init, Timers
  <2>2. pool \in Seq(Timers) /\ DOMAIN pool = Timers
    BY <2>1, FunctionIsSeq DEF Timers
  <2>3. \A t \in Timers : pool[t] = t
    BY DEF Init
  <2> QED
    BY <2>2, <2>3 DEF Range, IsInjective
<1>3. TypeOK
  <2>1. QueueTypes
    BY <1>2 DEF Init, QueueTypes
  <2>2. notify \in [Timers -> [at : {"idle", "load", "post"},
                              e : Heap \cup {NULL}, id : Ids \cup {NULL}]]
    BY DEF Init, Idle
  <2>3. /\ signals \in [Timers -> Ids \cup {NULL}]
        /\ again \in Types \cup {NULL} /\ down \in {"no", "stale", "no timer"}
        /\ adds \in 0 .. MaxAdds
    BY DEF Init
  <2>4. msgs \in Seq([e : Heap, id : Ids]) /\ settled \subseteq Ids
    BY EmptySeq DEF Init
  <2>5. foreign \in BOOLEAN /\ orphaned \in BOOLEAN
    BY DEF Init
  <2> QED
    BY <2>1, <2>2, <2>3, <2>4, <2>5 DEF TypeOK, QueueTypes
<1>4. MaskMatchesList
  <2>1. queue = << >> /\ bm = {} /\ DOMAIN queue = {}
    BY DEF Init
  <2>2. IsInjective(queue) /\ Range(queue) = {}
    BY <2>1 DEF Range, IsInjective
  <2> QED
    BY <1>1, <2>1, <2>2 DEF MaskMatchesList
<1>5. TimersOwned
  BY <1>1, <1>2 DEF Init, TimersOwned
<1>6. IdsUnique
  BY <1>1 DEF IdsUnique
<1>7. NotifyHolds /\ SignalsMatch /\ NotifyMatches
  BY DEF Init, NotifyHolds, Idle, SignalsMatch, NotifyMatches
<1>8. MessagesMatch /\ ~foreign /\ down # "stale"
  BY DEF Init, MessagesMatch
<1> QED
  BY <1>3, <1>4, <1>5, <1>6, <1>7, <1>8 DEF EventInv, Sound

(* The cardinality of TimerAccounting, from unique owners.                 *)
LEMMA OneOwner == EventInv => TimerAccounting
<1> SUFFICES ASSUME EventInv PROVE TimerAccounting
  OBVIOUS
<1>1. ASSUME NEW t \in Timers, t \in Range(pool)
      PROVE  {a \in Live : mem[a].tick = t} = {} /\ obj[t] = NULL /\ ~armed[t]
  BY <1>1 DEF EventInv, TimersOwned
<1>2. ASSUME NEW t \in Timers, t \notin Range(pool)
      PROVE  /\ Cardinality({a \in Live : mem[a].tick = t}) = 1
             /\ obj[t] \in {a \in Live : mem[a].tick = t} \cup {NULL}
             /\ armed[t] => obj[t] # NULL
  <2>1. PICK a \in Live : mem[a].tick = t
    BY <1>2 DEF EventInv, TimersOwned
  <2>2. t # NULL
    BY DEF Timers
  <2>3. {b \in Live : mem[b].tick = t} = {a}
    BY <2>1, <2>2 DEF EventInv, TimersOwned
  <2>4. Cardinality({a}) = 1
    BY FS_Singleton
  <2>5. obj[t] \in {b \in Live : mem[b].tick = t} \cup {NULL} /\ (armed[t] => obj[t] # NULL)
    BY DEF EventInv, TimersOwned
  <2> QED
    BY <2>3, <2>4, <2>5
<1>3. IsInjective(pool)
  BY DEF EventInv, TimersOwned
<1> QED
  BY <1>1, <1>2, <1>3 DEF TimerAccounting

(* EventInv holds in every reachable state.                                *)
THEOREM EventInvariant == Spec => []EventInv
BY InitEventInv, NextEventInv, PTL DEF Spec

(* The event queue, the timers and the messages under way keep their       *)
(* types; in particular an address in a message is one of the heap.        *)
THEOREM EventTypes == Spec => []TypeOK
<1>1. EventInv => TypeOK
  BY DEF EventInv
<1> QED
  BY <1>1, EventInvariant, PTL

(* event_bm and the list of event_queue.c never disagree, however adding,  *)
(* deleting, waking and rescheduling follow each other.                    *)
THEOREM EventMaskMatchesList == Spec => []MaskMatchesList
<1>1. EventInv => MaskMatchesList
  BY DEF EventInv
<1> QED
  BY <1>1, EventInvariant, PTL

(* No timer of timer_pool is leaked, shared, or left pointing to an        *)
(* element that does not own it.                                           *)
THEOREM TimersAccounted == Spec => []TimerAccounting
BY OneOwner, EventInvariant, PTL

(* The address default_timer_event posts is that of the event whose timer  *)
(* expired when the task uses it, and nothing dangling is followed, in     *)
(* every behaviour that frees no element with a notification under way.    *)
THEOREM TimeoutsArrive == Spec => []TimeoutsReachTheirEvent
<1>1. EventInv => TimeoutsReachTheirEvent
  BY DEF EventInv, Sound, TimeoutsReachTheirEvent
<1> QED
  BY <1>1, EventInvariant, PTL

=============================================================================
