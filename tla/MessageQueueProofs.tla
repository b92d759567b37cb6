-------------------------- MODULE MessageQueueProofs --------------------------
(***************************************************************************)
(* For any number of senders, any capacity and any number of posts: with   *)
(* critical sections that exclude, the ring and its semaphore stay in step *)
(* (QueueInv is inductive), a woken task finds a message, and the queue    *)
(* implements BoundedFifo.                                                 *)
(***************************************************************************)
EXTENDS MessageQueue, TLAPS, FiniteSetTheorems, SequenceTheorems

USE SendersAssumption, CapacityAssumption, MaxPostsAssumption,
    NullAssumption

(* A post completes one element of the ring: the set of threads that have  *)
(* stored an element and not yet posted the semaphore is finite and grows  *)
(* and shrinks by one.                                                     *)
LEMMA UnannouncedFinite ==
  IsFiniteSet(Unannounced) /\ Cardinality(Unannounced) \in Nat
<1>1. IsFiniteSet(Unannounced)
  BY FS_Subset DEF Unannounced
<1> QED
  BY <1>1, FS_CardinalityType

LEMMA UnannouncedGrows ==
  ASSUME NEW s \in Senders, TypeOK, pc[s] = "add_inc", Goto(s, "post")
  PROVE  Cardinality(Unannounced') = Cardinality(Unannounced) + 1
<1>1. Unannounced' = Unannounced \cup {s} /\ s \notin Unannounced
  BY DEF Unannounced, Goto, TypeOK, Threads
<1> QED
  BY <1>1, UnannouncedFinite, FS_AddElement

LEMMA UnannouncedShrinks ==
  ASSUME NEW s \in Senders, TypeOK, pc[s] = "post", Goto(s, "idle")
  PROVE  Cardinality(Unannounced') = Cardinality(Unannounced) - 1
<1>1. Unannounced' = Unannounced \ {s} /\ s \in Unannounced
  BY DEF Unannounced, Goto, TypeOK, Threads
<1> QED
  BY <1>1, UnannouncedFinite, FS_RemoveElement

(* A thread that moves between labels other than "post" leaves the set of  *)
(* threads that owe a post of the semaphore alone.                         *)
LEMMA UnannouncedSame ==
  ASSUME NEW t \in Threads, NEW label, TypeOK, Goto(t, label),
         t = Reader \/ (pc[t] # "post" /\ label # "post")
  PROVE  Unannounced' = Unannounced
BY DEF Unannounced, Goto, TypeOK, Threads

(* What a sender posts is a message, once posted[s] counts it.             *)
LEMMA CurrentIsMessage ==
  ASSUME NEW s \in Senders, TypeOK, posted[s] > 0
  PROVE  Current(s) \in Message
<1>1. posted[s] \in 1 .. MaxPosts
  BY DEF TypeOK
<1> QED
  BY <1>1, Zenon DEF Current, Message

(* The index queue_add computes, and the index of any live element, is a   *)
(* slot of the ring.                                                       *)
LEMMA WrapSlot ==
  ASSUME NEW n \in 0 .. Capacity
  PROVE  /\ \A k \in 0 .. Capacity - 1 : Wrap(n + k) \in Slots
         /\ \A i \in 1 .. Capacity : Wrap(n + i - 1) \in Slots
BY DEF Wrap, Slots

(* After the element at next is dropped, the i-th element is the one that  *)
(* was (i+1)-st, whether or not next is wrapped yet.                       *)
LEMMA WrapShift ==
  ASSUME NEW n \in 0 .. Capacity - 1, NEW i \in 1 .. Capacity - 1
  PROVE  /\ Wrap((n + 1) + i - 1) = Wrap(n + (i + 1) - 1)
         /\ Wrap(Wrap(n + 1) + i - 1) = Wrap((n + 1) + i - 1)
BY DEF Wrap

(* queue_init and the fresh semaphore establish the invariant.             *)
THEOREM InitQueueInv == Init => QueueInv
<1> SUFFICES ASSUME Init PROVE QueueInv
  OBVIOUS
<1>1. TypeOK
  BY DEF Init, TypeOK, Slots, Labels
<1>2. OwnCode /\ Exclusive /\ AddLocals /\ RemoveLocals
  BY DEF Init, OwnCode, Exclusive, AddLocals, RemoveLocals, Inside, Adding, Removing,
         Threads
<1>3. LiveSlots
  BY DEF Init, LiveSlots, Live, Leaving, Threads
<1>4. SemaphoreMatchesRing
  <2>1. Unannounced = {}
    BY DEF Init, Unannounced, Threads
  <2>2. Claimed = 0
    BY DEF Init, Claimed, Threads
  <2> QED
    BY <2>1, <2>2, FS_EmptySet DEF Init, SemaphoreMatchesRing
<1> QED
  BY <1>1, <1>2, <1>3, <1>4 DEF QueueInv

(* Every step of template_msg_post/queue_add and of template_proc/         *)
(* queue_remove preserves the invariant.                                   *)
THEOREM NextQueueInv ==
  ASSUME CriticalWorks, QueueInv, [Next]_vars
  PROVE  QueueInv'
<1> USE DEF QueueInv, Message, Threads, Adding, Removing, Inside, Leaving
<1>1. ASSUME NEW s \in Senders, AddEnter(s) PROVE QueueInv'
  <2> USE <1>1 DEF AddEnter, Goto, EnterCritical, ExitCritical
  <2>1. TypeOK'
    BY DEF TypeOK, Labels
  <2>2. OwnCode'
    BY DEF TypeOK, OwnCode
  <2>3. Exclusive'
    BY DEF TypeOK, OwnCode, Exclusive, Inside
  <2>4. AddLocals'
    BY DEF TypeOK, OwnCode, Exclusive, Inside, AddLocals, Current
  <2>5. RemoveLocals'
    BY DEF TypeOK, OwnCode, Exclusive, Inside, RemoveLocals
  <2>6. LiveSlots'
    BY DEF TypeOK, OwnCode, Exclusive, Inside, LiveSlots, Live
  <2>7. SemaphoreMatchesRing'
    BY UnannouncedFinite, UnannouncedSame DEF TypeOK, OwnCode, SemaphoreMatchesRing, Claimed
  <2> QED
    BY <2>1, <2>2, <2>3, <2>4, <2>5, <2>6, <2>7
<1>2. ASSUME NEW s \in Senders, AddFull(s) PROVE QueueInv'
  <2> USE <1>2 DEF AddFull, Goto, EnterCritical, ExitCritical
  <2>1. TypeOK'
    <3>1. Current(s) \in Message
      BY CurrentIsMessage DEF OwnCode
    <3> QED
      BY <3>1 DEF TypeOK, Labels
  <2>2. OwnCode'
    BY DEF TypeOK, OwnCode
  <2>3. Exclusive'
    BY DEF TypeOK, OwnCode, Exclusive, Inside
  <2>4. AddLocals'
    BY DEF TypeOK, OwnCode, Exclusive, Inside, AddLocals, Current
  <2>5. RemoveLocals'
    BY DEF TypeOK, OwnCode, Exclusive, Inside, RemoveLocals
  <2>6. LiveSlots'
    BY DEF TypeOK, OwnCode, Exclusive, Inside, LiveSlots, Live
  <2>7. SemaphoreMatchesRing'
    BY UnannouncedFinite, UnannouncedSame DEF TypeOK, OwnCode, SemaphoreMatchesRing, Claimed
  <2> QED
    BY <2>1, <2>2, <2>3, <2>4, <2>5, <2>6, <2>7
<1>3. ASSUME NEW s \in Senders, AddTest(s) PROVE QueueInv'
  <2> USE <1>3 DEF AddTest, Goto, EnterCritical, ExitCritical
  <2>1. TypeOK'
    BY DEF TypeOK, Labels
  <2>2. OwnCode'
    BY DEF TypeOK, OwnCode
  <2>3. Exclusive'
    BY DEF TypeOK, OwnCode, Exclusive, Inside
  <2>4. AddLocals'
    BY DEF TypeOK, OwnCode, Exclusive, Inside, AddLocals, Current
  <2>5. RemoveLocals'
    BY DEF TypeOK, OwnCode, Exclusive, Inside, RemoveLocals
  <2>6. LiveSlots'
    BY DEF TypeOK, OwnCode, Exclusive, Inside, LiveSlots, Live
  <2>7. SemaphoreMatchesRing'
    BY UnannouncedFinite, UnannouncedSame DEF TypeOK, OwnCode, SemaphoreMatchesRing, Claimed
  <2> QED
    BY <2>1, <2>2, <2>3, <2>4, <2>5, <2>6, <2>7
<1>4. ASSUME NEW s \in Senders, AddNext(s) PROVE QueueInv'
  <2> USE <1>4 DEF AddNext, Goto, EnterCritical, ExitCritical
  <2>1. TypeOK'
    <3>1. pos' \in [Senders -> Int]
      BY DEF TypeOK
    <3>2. pc' \in [Threads -> Labels]
      BY DEF TypeOK, Labels
    <3> QED
      BY <3>1, <3>2 DEF TypeOK
  <2>2. OwnCode'
    BY DEF TypeOK, OwnCode
  <2>3. Exclusive'
    BY DEF TypeOK, OwnCode, Exclusive, Inside
  <2>4. AddLocals'
    BY DEF TypeOK, OwnCode, Exclusive, Inside, AddLocals, Current
  <2>5. RemoveLocals'
    BY DEF TypeOK, OwnCode, Exclusive, Inside, RemoveLocals
  <2>6. LiveSlots'
    BY DEF TypeOK, OwnCode, Exclusive, Inside, LiveSlots, Live
  <2>7. SemaphoreMatchesRing'
    BY UnannouncedFinite, UnannouncedSame DEF TypeOK, OwnCode, SemaphoreMatchesRing, Claimed
  <2> QED
    BY <2>1, <2>2, <2>3, <2>4, <2>5, <2>6, <2>7
<1>5. ASSUME NEW s \in Senders, AddSize(s) PROVE QueueInv'
  <2> USE <1>5 DEF AddSize, Goto, EnterCritical, ExitCritical
  <2>1. TypeOK'
    <3>1. pos[s] \in Int /\ Wrap(pos[s] + size) \in Int
      BY DEF TypeOK, Wrap
    <3> QED
      BY <3>1 DEF TypeOK, Labels
  <2>2. OwnCode'
    BY DEF TypeOK, OwnCode
  <2>3. Exclusive'
    BY DEF TypeOK, OwnCode, Exclusive, Inside
  <2>4. AddLocals'
    BY DEF TypeOK, OwnCode, Exclusive, Inside, AddLocals, Current
  <2>5. RemoveLocals'
    BY DEF TypeOK, OwnCode, Exclusive, Inside, RemoveLocals
  <2>6. LiveSlots'
    BY DEF TypeOK, OwnCode, Exclusive, Inside, LiveSlots, Live
  <2>7. SemaphoreMatchesRing'
    BY UnannouncedFinite, UnannouncedSame DEF TypeOK, OwnCode, SemaphoreMatchesRing, Claimed
  <2> QED
    BY <2>1, <2>2, <2>3, <2>4, <2>5, <2>6, <2>7
<1>6. ASSUME NEW s \in Senders, AddStore(s) PROVE QueueInv'
  <2> USE <1>6 DEF AddStore, Goto, EnterCritical, ExitCritical
  <2>1. TypeOK'
    <3>1. Current(s) \in Message
      BY CurrentIsMessage DEF OwnCode
    <3> QED
      BY <3>1 DEF TypeOK, Labels
  <2>2. OwnCode'
    BY DEF TypeOK, OwnCode
  <2>3. Exclusive'
    BY DEF TypeOK, OwnCode, Exclusive, Inside
  <2>4. AddLocals'
    <3>1. size \in 0 .. Capacity - 1 /\ next \in 0 .. Capacity /\ pos[s] = Wrap(next + size)
      BY DEF TypeOK, AddLocals, LiveSlots
    <3>2. pos[s] \in Slots
      BY <3>1, WrapSlot
    <3> QED
      BY <3>1, <3>2 DEF TypeOK, OwnCode, Exclusive, AddLocals, Current
  <2>5. RemoveLocals'
    BY DEF TypeOK, OwnCode, Exclusive, Inside, RemoveLocals
  <2>6. LiveSlots'
    <3>1. ~Leaving /\ Current(s) \in Message
      BY CurrentIsMessage DEF TypeOK, OwnCode, Exclusive, Inside
    <3>2. ASSUME NEW i \in 1 .. size
          PROVE  data'[Wrap(next + i - 1)] \in Message
      <4>1. Wrap(next + i - 1) \in Slots
        <5>1. i \in 1 .. Capacity /\ next \in 0 .. Capacity
          BY <3>2 DEF TypeOK, LiveSlots
        <5> QED
          BY <5>1, WrapSlot
      <4> QED
        BY <3>1, <4>1 DEF TypeOK, LiveSlots, Live
    <3> QED
      BY <3>1, <3>2 DEF TypeOK, LiveSlots, Live
  <2>7. SemaphoreMatchesRing'
    BY UnannouncedFinite, UnannouncedSame DEF TypeOK, OwnCode, SemaphoreMatchesRing, Claimed
  <2> QED
    BY <2>1, <2>2, <2>3, <2>4, <2>5, <2>6, <2>7
<1>7. ASSUME NEW s \in Senders, AddLoad(s) PROVE QueueInv'
  <2> USE <1>7 DEF AddLoad, Goto, EnterCritical, ExitCritical
  <2>1. TypeOK'
    BY DEF TypeOK, Labels
  <2>2. OwnCode'
    BY DEF TypeOK, OwnCode
  <2>3. Exclusive'
    BY DEF TypeOK, OwnCode, Exclusive, Inside
  <2>4. AddLocals'
    BY DEF TypeOK, OwnCode, Exclusive, Inside, AddLocals, Current
  <2>5. RemoveLocals'
    BY DEF TypeOK, OwnCode, Exclusive, Inside, RemoveLocals
  <2>6. LiveSlots'
    BY DEF TypeOK, OwnCode, Exclusive, Inside, LiveSlots, Live
  <2>7. SemaphoreMatchesRing'
    BY UnannouncedFinite, UnannouncedSame DEF TypeOK, OwnCode, SemaphoreMatchesRing, Claimed
  <2> QED
    BY <2>1, <2>2, <2>3, <2>4, <2>5, <2>6, <2>7
<1>8. ASSUME NEW s \in Senders, AddInc(s) PROVE QueueInv'
  <2> USE <1>8 DEF AddInc, Goto, EnterCritical, ExitCritical
  <2>1. TypeOK'
    <3>1. size' \in Int /\ owner' \in Threads \cup {NULL}
      BY DEF TypeOK
    <3>2. pc' \in [Threads -> Labels]
      BY DEF TypeOK, Labels
    <3> QED
      BY <3>1, <3>2 DEF TypeOK
  <2>2. OwnCode'
    BY DEF TypeOK, OwnCode
  <2>3. Exclusive'
    BY DEF TypeOK, OwnCode, Exclusive, Inside
  <2>4. AddLocals'
    BY DEF TypeOK, OwnCode, Exclusive, Inside, AddLocals, Current
  <2>5. RemoveLocals'
    BY DEF TypeOK, OwnCode, Exclusive, Inside, RemoveLocals
  <2>6. LiveSlots'
    <3>1. ~Leaving /\ Current(s) \in Message
      BY CurrentIsMessage DEF TypeOK, OwnCode, Exclusive, Inside
    <3>2. size' = size + 1 /\ size < Capacity /\ data[Wrap(next + size)] = Current(s)
      BY DEF AddLocals
    <3>3. ASSUME NEW i \in 1 .. size + 1
          PROVE  data[Wrap(next + i - 1)] \in Message
      <4>1. CASE i \in 1 .. Live
        BY <4>1 DEF LiveSlots
      <4>2. CASE i = size + 1
        <5>1. next + i - 1 = next + size
          BY <4>2 DEF TypeOK
        <5> QED
          BY <3>1, <3>2, <5>1
      <4> QED
        BY <3>1, <4>1, <4>2 DEF TypeOK, Live
    <3>4. Live' = size + 1
      BY <3>1, <3>2 DEF TypeOK, Live
    <3> QED
      BY <3>2, <3>3, <3>4 DEF TypeOK, LiveSlots
  <2>7. SemaphoreMatchesRing'
    <3>1. size' = size + 1 /\ Claimed' = Claimed
      BY DEF TypeOK, AddLocals, Claimed
    <3>2. Cardinality(Unannounced') = Cardinality(Unannounced) + 1
      BY UnannouncedGrows
    <3>3. /\ size = msgSem + Cardinality(Unannounced) + Claimed
          /\ msgSem' = msgSem /\ msgSem \in Nat /\ Claimed \in Nat
          /\ Cardinality(Unannounced) \in Nat
      BY UnannouncedFinite DEF TypeOK, SemaphoreMatchesRing, Claimed
    <3> HIDE <1>8 DEF AddInc
    <3> QED
      BY <3>1, <3>2, <3>3 DEF SemaphoreMatchesRing
  <2> QED
    BY <2>1, <2>2, <2>3, <2>4, <2>5, <2>6, <2>7
<1>9. ASSUME NEW s \in Senders, SemPost(s) PROVE QueueInv'
  <2> USE <1>9 DEF SemPost, Goto, EnterCritical, ExitCritical
  <2>1. TypeOK'
    <3>1. msgSem' \in Nat /\ owner' \in Threads \cup {NULL}
      BY DEF TypeOK
    <3>2. pc' \in [Threads -> Labels]
      BY DEF TypeOK, Labels
    <3> QED
      BY <3>1, <3>2 DEF TypeOK
  <2>2. OwnCode'
    BY DEF TypeOK, OwnCode
  <2>3. Exclusive'
    BY DEF TypeOK, OwnCode, Exclusive, Inside
  <2>4. AddLocals'
    BY DEF TypeOK, OwnCode, Exclusive, Inside, AddLocals, Current
  <2>5. RemoveLocals'
    BY DEF TypeOK, OwnCode, Exclusive, Inside, RemoveLocals
  <2>6. LiveSlots'
    BY DEF TypeOK, OwnCode, Exclusive, Inside, LiveSlots, Live
  <2>7. SemaphoreMatchesRing'
    <3>1. Claimed' = Claimed
      BY DEF TypeOK, Claimed
    <3>2. Cardinality(Unannounced') = Cardinality(Unannounced) - 1
      BY UnannouncedShrinks
    <3> QED
      BY <3>1, <3>2, UnannouncedFinite DEF TypeOK, SemaphoreMatchesRing, Claimed
  <2> QED
    BY <2>1, <2>2, <2>3, <2>4, <2>5, <2>6, <2>7
<1>10. CASE SemPend
  <2> USE <1>10 DEF SemPend, Goto, EnterCritical, ExitCritical
  <2>1. TypeOK'
    BY DEF TypeOK, Labels
  <2>2. OwnCode'
    BY DEF TypeOK, OwnCode
  <2>3. Exclusive'
    BY DEF TypeOK, OwnCode, Exclusive, Inside
  <2>4. AddLocals'
    BY DEF TypeOK, OwnCode, Exclusive, Inside, AddLocals, Current
  <2>5. RemoveLocals'
    BY DEF TypeOK, OwnCode, Exclusive, Inside, RemoveLocals
  <2>6. LiveSlots'
    BY DEF TypeOK, OwnCode, Exclusive, Inside, LiveSlots, Live
  <2>7. SemaphoreMatchesRing'
    <3>1. Unannounced' = Unannounced
      BY UnannouncedSame
    <3>2. Claimed = 0 /\ Claimed' = 1
      BY DEF TypeOK, Claimed
    <3> QED
      BY <3>1, <3>2, UnannouncedFinite DEF TypeOK, SemaphoreMatchesRing
  <2> QED
    BY <2>1, <2>2, <2>3, <2>4, <2>5, <2>6, <2>7
<1>11. CASE RemoveEnter
  <2> USE <1>11 DEF RemoveEnter, Goto, EnterCritical, ExitCritical
  <2>1. TypeOK'
    BY DEF TypeOK, Labels
  <2>2. OwnCode'
    BY DEF TypeOK, OwnCode
  <2>3. Exclusive'
    BY DEF TypeOK, OwnCode, Exclusive, Inside
  <2>4. AddLocals'
    BY DEF TypeOK, OwnCode, Exclusive, Inside, AddLocals, Current
  <2>5. RemoveLocals'
    BY DEF TypeOK, OwnCode, Exclusive, Inside, RemoveLocals
  <2>6. LiveSlots'
    BY DEF TypeOK, OwnCode, Exclusive, Inside, LiveSlots, Live
  <2>7. SemaphoreMatchesRing'
    BY UnannouncedFinite, UnannouncedSame DEF TypeOK, OwnCode, SemaphoreMatchesRing, Claimed
  <2> QED
    BY <2>1, <2>2, <2>3, <2>4, <2>5, <2>6, <2>7
<1>12. CASE RemoveEmpty
  <2> USE <1>12 DEF RemoveEmpty, Goto, EnterCritical, ExitCritical
  <2>1. TypeOK'
    BY DEF TypeOK, Labels
  <2>2. OwnCode'
    BY DEF TypeOK, OwnCode
  <2>3. Exclusive'
    BY DEF TypeOK, OwnCode, Exclusive, Inside
  <2>4. AddLocals'
    BY DEF TypeOK, OwnCode, Exclusive, Inside, AddLocals, Current
  <2>5. RemoveLocals'
    <3>1. size > 0
      BY UnannouncedFinite DEF TypeOK, SemaphoreMatchesRing, Claimed
    <3> QED
      BY <3>1 DEF TypeOK
  <2>6. LiveSlots'
    BY DEF TypeOK, OwnCode, Exclusive, Inside, LiveSlots, Live
  <2>7. SemaphoreMatchesRing'
    BY UnannouncedFinite, UnannouncedSame DEF TypeOK, OwnCode, SemaphoreMatchesRing, Claimed
  <2> QED
    BY <2>1, <2>2, <2>3, <2>4, <2>5, <2>6, <2>7
<1>13. CASE RemoveTest
  <2> USE <1>13 DEF RemoveTest, Goto, EnterCritical, ExitCritical
  <2>1. TypeOK'
    BY DEF TypeOK, Labels
  <2>2. OwnCode'
    BY DEF TypeOK, OwnCode
  <2>3. Exclusive'
    BY DEF TypeOK, OwnCode, Exclusive, Inside
  <2>4. AddLocals'
    BY DEF TypeOK, OwnCode, Exclusive, Inside, AddLocals, Current
  <2>5. RemoveLocals'
    BY DEF TypeOK, OwnCode, Exclusive, Inside, RemoveLocals
  <2>6. LiveSlots'
    BY DEF TypeOK, OwnCode, Exclusive, Inside, LiveSlots, Live
  <2>7. SemaphoreMatchesRing'
    BY UnannouncedFinite, UnannouncedSame DEF TypeOK, OwnCode, SemaphoreMatchesRing, Claimed
  <2> QED
    BY <2>1, <2>2, <2>3, <2>4, <2>5, <2>6, <2>7
<1>14. CASE RemoveLoad
  <2> USE <1>14 DEF RemoveLoad, Goto, EnterCritical, ExitCritical
  <2>1. TypeOK'
    <3>1. data[next] \in Message \cup {NULL}
      BY DEF TypeOK, RemoveLocals, Slots
    <3> QED
      BY <3>1 DEF TypeOK, Labels
  <2>2. OwnCode'
    BY DEF TypeOK, OwnCode
  <2>3. Exclusive'
    BY DEF TypeOK, OwnCode, Exclusive, Inside
  <2>4. AddLocals'
    BY DEF TypeOK, OwnCode, Exclusive, Inside, AddLocals, Current
  <2>5. RemoveLocals'
    <3>1. Wrap(next + 1 - 1) = next
      BY DEF TypeOK, RemoveLocals, Wrap
    <3>2. data[next] \in Message
      <4>1. 1 \in 1 .. Live
        BY UnannouncedFinite DEF TypeOK, Live, SemaphoreMatchesRing, Claimed
      <4> QED
        BY <3>1, <4>1 DEF LiveSlots
    <3> QED
      BY <3>2 DEF TypeOK, RemoveLocals
  <2>6. LiveSlots'
    BY DEF TypeOK, OwnCode, Exclusive, Inside, LiveSlots, Live
  <2>7. SemaphoreMatchesRing'
    BY UnannouncedFinite, UnannouncedSame DEF TypeOK, OwnCode, SemaphoreMatchesRing, Claimed
  <2> QED
    BY <2>1, <2>2, <2>3, <2>4, <2>5, <2>6, <2>7
<1>15. CASE RemoveNext
  <2> USE <1>15 DEF RemoveNext, Goto, EnterCritical, ExitCritical
  <2>1. TypeOK'
    <3>1. next + 1 \in 0 .. Capacity
      BY DEF TypeOK, RemoveLocals
    <3>2. Append(removed, value) \in Seq(Message \cup {NULL})
      BY DEF TypeOK
    <3> QED
      BY <3>1, <3>2 DEF TypeOK, Labels
  <2>2. OwnCode'
    BY DEF TypeOK, OwnCode
  <2>3. Exclusive'
    BY DEF TypeOK, OwnCode, Exclusive, Inside
  <2>4. AddLocals'
    BY DEF TypeOK, OwnCode, Exclusive, Inside, AddLocals, Current
  <2>5. RemoveLocals'
    BY DEF TypeOK, OwnCode, Exclusive, Inside, RemoveLocals
  <2>6. LiveSlots'
    <3>1. next \in 0 .. Capacity - 1
      BY DEF TypeOK, RemoveLocals
    <3>2. ASSUME NEW i \in 1 .. size - 1
          PROVE  data[Wrap((next + 1) + i - 1)] \in Message
      <4>1. Wrap((next + 1) + i - 1) = Wrap(next + (i + 1) - 1)
        BY <3>1, WrapShift DEF TypeOK, LiveSlots
      <4>2. i + 1 \in 1 .. Live
        BY DEF TypeOK, Live
      <4> QED
        BY <4>1, <4>2 DEF LiveSlots
    <3> QED
      BY <3>1, <3>2 DEF TypeOK, LiveSlots, Live
  <2>7. SemaphoreMatchesRing'
    BY UnannouncedFinite, UnannouncedSame DEF TypeOK, OwnCode, SemaphoreMatchesRing, Claimed
  <2> QED
    BY <2>1, <2>2, <2>3, <2>4, <2>5, <2>6, <2>7
<1>16. CASE RemoveSize
  <2> USE <1>16 DEF RemoveSize, Goto, EnterCritical, ExitCritical
  <2>1. TypeOK'
    BY DEF TypeOK, Labels
  <2>2. OwnCode'
    BY DEF TypeOK, OwnCode
  <2>3. Exclusive'
    BY DEF TypeOK, OwnCode, Exclusive, Inside
  <2>4. AddLocals'
    BY DEF TypeOK, OwnCode, Exclusive, Inside, AddLocals, Current
  <2>5. RemoveLocals'
    BY DEF TypeOK, OwnCode, Exclusive, Inside, RemoveLocals
  <2>6. LiveSlots'
    BY DEF TypeOK, OwnCode, Exclusive, Inside, LiveSlots, Live
  <2>7. SemaphoreMatchesRing'
    BY UnannouncedFinite, UnannouncedSame DEF TypeOK, OwnCode, SemaphoreMatchesRing, Claimed
  <2> QED
    BY <2>1, <2>2, <2>3, <2>4, <2>5, <2>6, <2>7
<1>17. CASE RemoveDec
  <2> USE <1>17 DEF RemoveDec, Goto, EnterCritical, ExitCritical
  <2>1. TypeOK'
    BY DEF TypeOK, Labels
  <2>2. OwnCode'
    BY DEF TypeOK, OwnCode
  <2>3. Exclusive'
    BY DEF TypeOK, OwnCode, Exclusive, Inside
  <2>4. AddLocals'
    BY DEF TypeOK, OwnCode, Exclusive, Inside, AddLocals, Current
  <2>5. RemoveLocals'
    BY DEF TypeOK, OwnCode, Exclusive, Inside, RemoveLocals
  <2>6. LiveSlots'
    <3>1. size' = size - 1 /\ Live = size - 1 /\ Live' = size'
      BY DEF TypeOK, RemoveLocals, Live
    <3>2. size > 0
      BY UnannouncedFinite DEF TypeOK, SemaphoreMatchesRing, Claimed
    <3> QED
      BY <3>1, <3>2 DEF TypeOK, LiveSlots
  <2>7. SemaphoreMatchesRing'
    <3>1. Unannounced' = Unannounced
      BY UnannouncedSame
    <3>2. Claimed = 1 /\ Claimed' = 0 /\ size' = size - 1
      BY DEF TypeOK, RemoveLocals, Claimed
    <3> QED
      BY <3>1, <3>2, UnannouncedFinite DEF TypeOK, SemaphoreMatchesRing
  <2> QED
    BY <2>1, <2>2, <2>3, <2>4, <2>5, <2>6, <2>7
<1>18. CASE RemoveWrap
  <2> USE <1>18 DEF RemoveWrap, Goto, EnterCritical, ExitCritical
  <2>1. TypeOK'
    <3>1. next' \in 0 .. Capacity
      BY DEF TypeOK, Wrap
    <3> QED
      BY <3>1 DEF TypeOK, Labels
  <2>2. OwnCode'
    BY DEF TypeOK, OwnCode
  <2>3. Exclusive'
    BY DEF TypeOK, OwnCode, Exclusive, Inside
  <2>4. AddLocals'
    BY DEF TypeOK, OwnCode, Exclusive, Inside, AddLocals, Current
  <2>5. RemoveLocals'
    BY DEF TypeOK, OwnCode, RemoveLocals, Wrap
  <2>6. LiveSlots'
    <3>1. Live = size /\ Live' = size
      BY DEF TypeOK, Live
    <3>2. ASSUME NEW i \in 1 .. size
          PROVE  Wrap(Wrap(next) + i - 1) = Wrap(next + i - 1)
      BY <3>1, <3>2 DEF TypeOK, LiveSlots, Wrap
    <3> QED
      BY <3>1, <3>2 DEF TypeOK, LiveSlots
  <2>7. SemaphoreMatchesRing'
    BY UnannouncedFinite, UnannouncedSame DEF TypeOK, OwnCode, SemaphoreMatchesRing, Claimed
  <2> QED
    BY <2>1, <2>2, <2>3, <2>4, <2>5, <2>6, <2>7
<1>19. CASE Dispatch
  <2> USE <1>19 DEF Dispatch, Goto, EnterCritical, ExitCritical
  <2>1. TypeOK'
    BY DEF TypeOK, Labels
  <2>2. OwnCode'
    BY DEF TypeOK, OwnCode, RemoveLocals
  <2>3. Exclusive'
    BY DEF TypeOK, OwnCode, Exclusive, Inside
  <2>4. AddLocals'
    BY DEF TypeOK, OwnCode, Exclusive, Inside, AddLocals, Current
  <2>5. RemoveLocals'
    BY DEF TypeOK, OwnCode, Exclusive, Inside, RemoveLocals
  <2>6. LiveSlots'
    BY DEF TypeOK, OwnCode, Exclusive, Inside, LiveSlots, Live
  <2>7. SemaphoreMatchesRing'
    BY UnannouncedFinite, UnannouncedSame DEF TypeOK, OwnCode, SemaphoreMatchesRing, Claimed
  <2> QED
    BY <2>1, <2>2, <2>3, <2>4, <2>5, <2>6, <2>7
<1>20. CASE UNCHANGED vars
  <2>1. TypeOK' /\ OwnCode' /\ Exclusive'
    BY <1>20 DEF vars, TypeOK, OwnCode, Exclusive
  <2>2. AddLocals' /\ RemoveLocals'
    BY <1>20 DEF vars, AddLocals, RemoveLocals, Current
  <2>3. LiveSlots'
    BY <1>20 DEF vars, LiveSlots, Live
  <2>4. SemaphoreMatchesRing'
    BY <1>20 DEF vars, SemaphoreMatchesRing, Claimed, Unannounced
  <2> QED
    BY <2>1, <2>2, <2>3, <2>4
<1> QED
  BY <1>1, <1>2, <1>3, <1>4, <1>5, <1>6, <1>7, <1>8, <1>9, <1>10, <1>11, <1>12,
     <1>13, <1>14, <1>15, <1>16, <1>17, <1>18, <1>19, <1>20 DEF Next, Sender, Task

(* With critical sections that exclude, the ring, the locals of the        *)
(* threads inside queue_add and queue_remove, and msg_sem always agree.    *)
THEOREM QueueInvariant ==
  ASSUME CriticalWorks
  PROVE  Spec => []QueueInv
<1>1. Init => QueueInv
  BY InitQueueInv
<1>2. QueueInv /\ [Next]_vars => QueueInv'
  BY NextQueueInv
<1> QED
  BY <1>1, <1>2, PTL DEF Spec

(* template_proc never dereferences a NULL message: a count of msg_sem is  *)
(* always backed by an element queue_remove finds (mblue_stdtask.c:139).   *)
THEOREM WokenTaskSafe ==
  ASSUME CriticalWorks
  PROVE  Spec => []WokenTaskFindsMessage
<1>1. QueueInv => WokenTaskFindsMessage
  BY DEF QueueInv, OwnCode, Removing, RemoveLocals, WokenTaskFindsMessage
<1> QED
  BY <1>1, QueueInvariant, PTL

(* A function on 1 .. n is a sequence of length n.                         *)
LEMMA FunctionIsSeq ==
  ASSUME NEW S, NEW n \in Nat, NEW f \in [1 .. n -> S]
  PROVE  f \in Seq(S) /\ Len(f) = n
<1>1. f \in Seq(S)
  BY SeqDef
<1>2. DOMAIN f = 1 .. Len(f) /\ Len(f) \in Nat
  BY <1>1, LenProperties
<1> QED
  BY <1>1, <1>2

(* Enqueueing extends the abstract contents by the posted message.         *)
LEMMA ContentsAppend ==
  ASSUME QueueInv, NEW s \in Senders, CriticalWorks, AddInc(s)
  PROVE  /\ Contents' = Append(Contents, Current(s))
         /\ Len(Contents) < Capacity
<1> USE DEF QueueInv, Threads
<1>1. ~Leaving /\ pc'[Reader] = pc[Reader]
  BY DEF AddInc, Goto, TypeOK, Exclusive, Inside, Adding, Removing, Leaving
<1>2. /\ size \in Nat /\ size' = size + 1 /\ size < Capacity
      /\ data[Wrap(next + size)] = Current(s) /\ next' = next /\ data' = data
  BY DEF AddInc, AddLocals, Adding, TypeOK, LiveSlots
<1>3. Live = size /\ Live' = size + 1
  BY <1>1, <1>2 DEF Live, Leaving
<1>4. Contents \in Seq(Message) /\ Len(Contents) = size
  <2>1. Contents \in [1 .. size -> Message]
    BY <1>2, <1>3 DEF Contents, LiveSlots
  <2> QED
    BY <1>2, <2>1, FunctionIsSeq
<1>5. Contents' = [i \in 1 .. size + 1 |-> data[Wrap(next + i - 1)]]
  BY <1>2, <1>3 DEF Contents, Wrap
<1>6. \A i \in 1 .. size : Append(Contents, Current(s))[i] = data[Wrap(next + i - 1)]
  BY <1>2, <1>3, <1>4 DEF Contents
<1>7. Append(Contents, Current(s))[size + 1] = data[Wrap(next + (size + 1) - 1)]
  <2>1. Append(Contents, Current(s))[size + 1] = Current(s)
    BY <1>2, <1>4
  <2>2. next + (size + 1) - 1 = next + size
    BY <1>2 DEF TypeOK
  <2> QED
    BY <1>2, <2>1, <2>2
<1>A. Current(s) \in Message
  BY CurrentIsMessage DEF AddInc, OwnCode
<1>8. Contents' \in Seq(Message) /\ Len(Contents') = size + 1
  <2>1. Contents' \in [1 .. size + 1 -> Message]
    <3>1. \A i \in 1 .. size : data[Wrap(next + i - 1)] \in Message
      BY <1>3 DEF LiveSlots
    <3>2. data[Wrap(next + (size + 1) - 1)] \in Message
      BY <1>2, <1>A DEF TypeOK
    <3> QED
      BY <1>2, <1>5, <3>1, <3>2
  <2> QED
    BY <1>2, <2>1, FunctionIsSeq
<1>9. Append(Contents, Current(s)) \in Seq(Message)
      /\ Len(Append(Contents, Current(s))) = size + 1
  BY <1>4, <1>A
<1>10. \A i \in 1 .. size + 1 : Contents'[i] = Append(Contents, Current(s))[i]
  <2> SUFFICES ASSUME NEW i \in 1 .. size + 1
               PROVE  Contents'[i] = Append(Contents, Current(s))[i]
    OBVIOUS
  <2>1. Contents'[i] = data[Wrap(next + i - 1)]
    BY <1>5
  <2>2. CASE i \in 1 .. size
    BY <1>6, <2>1, <2>2
  <2>3. CASE i = size + 1
    BY <1>7, <2>1, <2>3
  <2>4. size \in Nat
    BY <1>2
  <2>5. i \in 1 .. size \/ i = size + 1
    BY <2>4
  <2> QED
    BY <2>2, <2>3, <2>5
<1> QED
  BY <1>2, <1>4, <1>8, <1>9, <1>10, SeqEqual

(* Dequeueing hands out the head and leaves the tail.                      *)
LEMMA ContentsTail ==
  ASSUME QueueInv, CriticalWorks, RemoveNext
  PROVE  /\ Contents # << >>
         /\ value = Head(Contents)
         /\ Contents' = Tail(Contents)
<1> USE DEF QueueInv, Threads
<1>1. /\ pc[Reader] = "rm_next" /\ pc'[Reader] = "rm_size" /\ next' = next + 1
      /\ data' = data /\ size' = size /\ value = data[next]
      /\ next \in 0 .. Capacity - 1
  BY DEF RemoveNext, Goto, TypeOK, RemoveLocals
<1>2. size \in 1 .. Capacity
  BY <1>1, UnannouncedFinite DEF TypeOK, SemaphoreMatchesRing, Claimed, LiveSlots
<1>3. Live = size /\ Live' = size - 1
  BY <1>1 DEF Live, Leaving
<1>4. Contents \in Seq(Message) /\ Len(Contents) = size
  <2>1. Contents \in [1 .. size -> Message]
    BY <1>2, <1>3 DEF Contents, LiveSlots
  <2> QED
    BY <1>2, <2>1, FunctionIsSeq
<1>5. Contents[1] = data[next]
  BY <1>1, <1>2, <1>3 DEF Contents, Wrap
<1>6. Contents' = [i \in 1 .. size - 1 |-> data[Wrap((next + 1) + i - 1)]]
  BY <1>1, <1>3 DEF Contents, Wrap
<1>7. \A i \in 1 .. size - 1 : Tail(Contents)[i] = data[Wrap((next + 1) + i - 1)]
  <2> SUFFICES ASSUME NEW i \in 1 .. size - 1
               PROVE  Tail(Contents)[i] = data[Wrap((next + 1) + i - 1)]
    OBVIOUS
  <2>1. Tail(Contents)[i] = Contents[i + 1]
    BY <1>2, <1>4
  <2>2. Contents[i + 1] = data[Wrap(next + (i + 1) - 1)]
    BY <1>2, <1>3 DEF Contents
  <2>3. Wrap((next + 1) + i - 1) = Wrap(next + (i + 1) - 1)
    BY <1>1, <1>2 DEF Wrap
  <2> QED
    BY <2>1, <2>2, <2>3
<1>8. Contents # << >> /\ value = Head(Contents)
  BY <1>1, <1>2, <1>4, <1>5
<1>9. Tail(Contents) \in Seq(Message) /\ Len(Tail(Contents)) = size - 1
  BY <1>4, <1>8, HeadTailProperties
<1>10. Contents' \in Seq(Message) /\ Len(Contents') = size - 1
  <2>1. Contents' \in [1 .. size - 1 -> Message]
    <3>1. \A i \in 1 .. size - 1 : Tail(Contents)[i] \in Message
      BY <1>9, ElementOfSeq
    <3> QED
      BY <1>6, <1>7, <3>1
  <2> QED
    BY <1>2, <2>1, FunctionIsSeq
<1>11. \A i \in 1 .. size - 1 : Contents'[i] = Tail(Contents)[i]
  BY <1>6, <1>7
<1> QED
  BY <1>8, <1>9, <1>10, <1>11, SeqEqual

(* A step that keeps size, next, data and the reader outside size-- keeps  *)
(* the contents.                                                           *)
LEMMA ContentsSame ==
  ASSUME Live' = Live,
         \A i \in 1 .. Live : data'[Wrap(next' + i - 1)] = data[Wrap(next + i - 1)]
  PROVE  Contents' = Contents
BY DEF Contents, Wrap

(* The ring buffer with its semaphore is a bounded FIFO for any number of  *)
(* concurrent senders: queue_add appends at size++, or rejects when full,  *)
(* queue_remove takes the head at next++, and no other step changes what   *)
(* the queue holds.                                                        *)
THEOREM QueueImplementsFifo ==
  ASSUME CriticalWorks
  PROVE  Spec => ImplementsFifo
<1>1. Init => Fifo!Init
  <2> SUFFICES ASSUME Init PROVE Contents = << >>
    BY DEF Init, Fifo!Init
  <2>1. Live = 0
    BY DEF Init, Live, Leaving, Threads
  <2> QED
    BY <2>1 DEF Contents
<1>2. QueueInv /\ [Next]_vars => [Fifo!Next]_(Fifo!vars)
  <2> SUFFICES ASSUME QueueInv, [Next]_vars
               PROVE  [Fifo!Next]_(Fifo!vars)
    OBVIOUS
  <2> USE DEF QueueInv, Threads
  <2>1. ASSUME NEW s \in Senders, AddInc(s)
        PROVE  Fifo!Next
    <3>1. Current(s) \in Message
      BY <2>1, CurrentIsMessage DEF AddInc, OwnCode
    <3>2. Fifo!Put(Current(s))
      BY <2>1, ContentsAppend DEF Fifo!Put, AddInc
    <3> QED
      BY <3>1, <3>2 DEF Fifo!Next
  <2>2. ASSUME NEW s \in Senders, AddFull(s)
        PROVE  Fifo!Next
    <3>1. Current(s) \in Message
      BY <2>2, CurrentIsMessage DEF AddFull, OwnCode
    <3>2. ~Leaving /\ pc'[Reader] = pc[Reader] /\ size = Capacity
      BY <2>2 DEF AddFull, Goto, TypeOK, Exclusive, Inside, Adding, Removing, Leaving,
         LiveSlots
    <3>3. Live = size /\ Live' = size
      BY <2>2, <3>2 DEF Live, Leaving, AddFull
    <3>4. Contents' = Contents
      BY <2>2, <3>3, ContentsSame DEF AddFull
    <3>5. Contents \in [1 .. Capacity -> Message]
      BY <3>2, <3>3 DEF Contents, LiveSlots
    <3>6. Len(Contents) = Capacity
      BY <3>5, FunctionIsSeq
    <3>7. Fifo!Reject(Current(s))
      BY <2>2, <3>4, <3>6 DEF Fifo!Reject, AddFull
    <3> QED
      BY <3>1, <3>7 DEF Fifo!Next
  <2>3. CASE RemoveNext
    <3>1. Fifo!Take
      BY <2>3, ContentsTail DEF Fifo!Take, RemoveNext
    <3> QED
      BY <3>1 DEF Fifo!Next
  <2>4. ASSUME NEW s \in Senders,
               \/ AddEnter(s) \/ AddTest(s) \/ AddNext(s)
               \/ AddSize(s) \/ AddLoad(s) \/ SemPost(s)
        PROVE  UNCHANGED Fifo!vars
    <3>1. UNCHANGED <<size, next, data, removed, rejected>> /\ pc'[Reader] = pc[Reader]
      BY <2>4 DEF AddEnter, AddTest, AddNext, AddSize, AddLoad, SemPost, Goto, TypeOK
    <3>2. Live' = Live
      BY <3>1 DEF Live, Leaving
    <3>3. Contents' = Contents
      BY <3>1, <3>2, ContentsSame
    <3> QED
      BY <3>1, <3>3 DEF Fifo!vars
  <2>5. ASSUME NEW s \in Senders, AddStore(s)
        PROVE  UNCHANGED Fifo!vars
    <3>1. ~Leaving /\ pc'[Reader] = pc[Reader]
      BY <2>5 DEF AddStore, Goto, TypeOK, Exclusive, Inside, Adding, Removing, Leaving
    <3>2. Live = size /\ Live' = size
      BY <2>5, <3>1 DEF Live, Leaving, AddStore
    <3>3. size \in 0 .. Capacity - 1 /\ pos[s] = Wrap(next + size)
      BY <2>5 DEF AddStore, AddLocals, Adding, LiveSlots, TypeOK
    <3>4. ASSUME NEW i \in 1 .. size
          PROVE  Wrap(next + i - 1) # pos[s]
      BY <3>3 DEF Wrap, TypeOK
    <3>5. ASSUME NEW i \in 1 .. size
          PROVE  data'[Wrap(next' + i - 1)] = data[Wrap(next + i - 1)]
      <4>1. i \in 1 .. Capacity /\ next \in 0 .. Capacity
        BY <3>3 DEF TypeOK
      <4>2. Wrap(next + i - 1) \in Slots
        BY <4>1, WrapSlot
      <4> QED
        BY <2>5, <3>4, <4>2 DEF AddStore, TypeOK
    <3>6. Contents' = Contents
      BY <3>2, <3>5, ContentsSame
    <3> QED
      BY <2>5, <3>6 DEF Fifo!vars, AddStore
  <2>6. CASE \/ SemPend \/ RemoveEnter \/ RemoveEmpty \/ RemoveTest \/ RemoveLoad
             \/ RemoveSize \/ Dispatch
    <3>1. UNCHANGED <<size, next, data, removed, rejected>> /\ Leaving' = Leaving
      BY <2>6 DEF SemPend, RemoveEnter, RemoveEmpty, RemoveTest, RemoveLoad, RemoveSize,
         Dispatch, Goto, Leaving, TypeOK
    <3>2. Live' = Live
      BY <3>1 DEF Live
    <3>3. Contents' = Contents
      BY <3>1, <3>2, ContentsSame
    <3> QED
      BY <3>1, <3>3 DEF Fifo!vars
  <2>7. CASE RemoveDec
    <3>1. Live' = Live
      BY <2>7 DEF RemoveDec, Goto, Live, Leaving, TypeOK, RemoveLocals
    <3>2. Contents' = Contents
      BY <2>7, <3>1, ContentsSame DEF RemoveDec
    <3> QED
      BY <2>7, <3>2 DEF Fifo!vars, RemoveDec
  <2>8. CASE RemoveWrap
    <3>1. Live' = Live /\ Live = size
      BY <2>8 DEF RemoveWrap, Goto, Live, Leaving, TypeOK
    <3>2. ASSUME NEW i \in 1 .. size
          PROVE  Wrap(Wrap(next) + i - 1) = Wrap(next + i - 1)
      BY <3>2 DEF TypeOK, LiveSlots, Wrap
    <3>3. Contents' = Contents
      BY <2>8, <3>1, <3>2, ContentsSame DEF RemoveWrap
    <3> QED
      BY <2>8, <3>3 DEF Fifo!vars, RemoveWrap
  <2>9. CASE UNCHANGED vars
    <3>1. Live' = Live
      BY <2>9 DEF vars, Live, Leaving
    <3>2. Contents' = Contents
      BY <2>9, <3>1, ContentsSame DEF vars
    <3> QED
      BY <2>9, <3>2 DEF Fifo!vars, vars
  <2> QED
    BY <2>1, <2>2, <2>3, <2>4, <2>5, <2>6, <2>7, <2>8, <2>9 DEF Next, Sender, Task
<1> QED
  BY <1>1, <1>2, QueueInvariant, PTL DEF Spec, Fifo!Spec, ImplementsFifo

(* Read off the invariant: msg_sem and queue->size never drift apart, for  *)
(* any number of senders.                                                  *)
THEOREM SemaphoreNeverDrifts ==
  ASSUME CriticalWorks
  PROVE  Spec => []SemaphoreMatchesRing
<1>1. QueueInv => SemaphoreMatchesRing
  BY DEF QueueInv
<1> QED
  BY <1>1, QueueInvariant, PTL

-----------------------------------------------------------------------------
(***************************************************************************)
(* The ring without exclusion.  Nothing is assumed of CriticalWorks.  Only *)
(* the reader takes away from size, after it has seen it positive, and a   *)
(* sender stores one more than some value it had.  The bounds of the slots *)
(* senders store into need one thing more: that no two posts overlap, so   *)
(* that size, once tested, can only shrink until the sender is done.       *)
(***************************************************************************)
RacyLabels ==
  /\ pc[Reader] \in Removing \cup {"idle", "rm_enter", "dispatch", "dead"}
  /\ \A s \in Senders :
       /\ pc[s] \in Adding \cup {"idle", "post"}
       /\ pc[s] # "idle" => posted[s] > 0

RacyCounts ==
  /\ size >= 0
  /\ \A s \in Senders : pc[s] = "add_inc" => tmp[s] >= 0
  /\ pc[Reader] \in {"rm_load", "rm_next", "rm_size"} => size > 0
  /\ pc[Reader] = "rm_dec" => tmp[Reader] > 0
  /\ pc[Reader] \notin {"rm_size", "rm_dec", "rm_wrap"} => next \in Slots

(* One sender at a time is inside queue_add.                               *)
OneAdding ==
  \A s, r \in Senders : pc[s] \in Adding /\ pc[r] \in Adding => s = r

(* What a lone sender has tested and computed holds although the reader    *)
(* moves next and size under it.                                           *)
AddRoom ==
  /\ size <= Capacity
  /\ pc[Reader] = "rm_dec" => tmp[Reader] <= Capacity
  /\ \A s \in Senders :
       /\ pc[s] \in {"add_next", "add_size", "add_store", "add_load"} => size < Capacity
       /\ pc[s] = "add_size" => pos[s] \in 0 .. Capacity
       /\ pc[s] = "add_store" => pos[s] \in Slots
       /\ pc[s] = "add_inc" => tmp[s] < Capacity

RacyRoom == ~overlapped => OneAdding /\ AddRoom

RacyInv == TypeOK /\ RacyLabels /\ RacyCounts /\ RacyRoom

(* The invariant holds at the start and speaks of the bounds.              *)
LEMMA RacyInit == Init => RacyInv
<1> SUFFICES ASSUME Init PROVE RacyInv
  OBVIOUS
<1>1. TypeOK
  BY InitQueueInv DEF QueueInv
<1>2. RacyLabels /\ RacyCounts
  BY DEF Init, RacyLabels, RacyCounts, Threads, Slots
<1>3. RacyRoom
  BY DEF Init, RacyRoom, OneAdding, AddRoom, Adding, Threads
<1> QED
  BY <1>1, <1>2, <1>3 DEF RacyInv

(* A sender's steps, whoever else is inside.                               *)
LEMMA RacySender ==
  ASSUME RacyInv, NEW s \in Senders, Sender(s)
  PROVE  RacyInv'
<1> USE DEF RacyInv, Threads, Goto, Adding, Removing
<1>1. owner' \in Threads \cup {NULL}
  BY DEF Sender, AddEnter, AddFull, AddTest, AddNext, AddSize, AddStore, AddLoad, AddInc,
         SemPost, EnterCritical, ExitCritical, TypeOK
<1>2. ASSUME posted[s] > 0 PROVE Current(s) \in Message
  BY <1>2, CurrentIsMessage
<1>3. CASE AddEnter(s)
  <2> USE <1>3 DEF AddEnter
  <2>1. TypeOK'
    BY <1>1 DEF TypeOK, Labels
  <2>2. RacyLabels' /\ RacyCounts'
    BY DEF TypeOK, RacyLabels, RacyCounts
  <2>3. ASSUME ~overlapped' PROVE OneAdding' /\ AddRoom'
    <3>1. ~overlapped /\ \A r \in Senders : pc[r] \notin Adding
      BY <2>3
    <3>2. OneAdding'
      BY <3>1 DEF TypeOK, OneAdding
    <3>3. AddRoom'
      BY <3>1 DEF TypeOK, RacyRoom, AddRoom
    <3> QED BY <3>2, <3>3
  <2> QED BY <2>1, <2>2, <2>3 DEF RacyRoom
<1>4. CASE AddFull(s)
  <2> USE <1>4 DEF AddFull
  <2>1. TypeOK'
    BY <1>1, <1>2 DEF TypeOK, Labels, RacyLabels
  <2>2. RacyLabels' /\ RacyCounts'
    BY DEF TypeOK, RacyLabels, RacyCounts
  <2>3. ASSUME ~overlapped' PROVE OneAdding' /\ AddRoom'
    <3>1. OneAdding /\ AddRoom
      BY <2>3 DEF RacyRoom
    <3>2. OneAdding'
      BY <3>1 DEF TypeOK, OneAdding
    <3>3. AddRoom'
      BY <3>1 DEF TypeOK, AddRoom
    <3> QED BY <3>2, <3>3
  <2> QED BY <2>1, <2>2, <2>3 DEF RacyRoom
<1>5. CASE AddTest(s)
  <2> USE <1>5 DEF AddTest
  <2>1. TypeOK'
    BY <1>1 DEF TypeOK, Labels
  <2>2. RacyLabels' /\ RacyCounts'
    BY DEF TypeOK, RacyLabels, RacyCounts
  <2>3. ASSUME ~overlapped' PROVE OneAdding' /\ AddRoom'
    <3>1. OneAdding /\ AddRoom
      BY <2>3 DEF RacyRoom
    <3>2. OneAdding'
      BY <3>1 DEF TypeOK, OneAdding
    <3>3. AddRoom'
      BY <3>1 DEF TypeOK, AddRoom, RacyCounts
    <3> QED BY <3>2, <3>3
  <2> QED BY <2>1, <2>2, <2>3 DEF RacyRoom
<1>6. CASE AddNext(s)
  <2> USE <1>6 DEF AddNext
  <2>1. TypeOK'
    BY <1>1 DEF TypeOK, Labels
  <2>2. RacyLabels' /\ RacyCounts'
    BY DEF TypeOK, RacyLabels, RacyCounts
  <2>3. ASSUME ~overlapped' PROVE OneAdding' /\ AddRoom'
    <3>1. OneAdding /\ AddRoom
      BY <2>3 DEF RacyRoom
    <3>2. OneAdding'
      BY <3>1 DEF TypeOK, OneAdding
    <3>3. AddRoom'
      BY <3>1 DEF TypeOK, AddRoom
    <3> QED BY <3>2, <3>3
  <2> QED BY <2>1, <2>2, <2>3 DEF RacyRoom
<1>7. CASE AddSize(s)
  <2> USE <1>7 DEF AddSize
  <2>1. TypeOK'
    <3>1. pos[s] \in Int /\ Wrap(pos[s] + size) \in Int
      BY DEF TypeOK, Wrap
    <3> QED
      BY <1>1, <3>1 DEF TypeOK, Labels
  <2>2. RacyLabels' /\ RacyCounts'
    BY DEF TypeOK, RacyLabels, RacyCounts
  <2>3. ASSUME ~overlapped' PROVE OneAdding' /\ AddRoom'
    <3>1. OneAdding /\ AddRoom
      BY <2>3 DEF RacyRoom
    <3>2. OneAdding'
      BY <3>1 DEF TypeOK, OneAdding
    <3>3. Wrap(pos[s] + size) \in Slots
      <4>1. size \in 0 .. Capacity - 1 /\ pos[s] \in 0 .. Capacity
        BY <3>1 DEF TypeOK, RacyCounts, AddRoom
      <4> QED
        BY <4>1 DEF Wrap, Slots
    <3>4. AddRoom'
      BY <3>1, <3>3 DEF TypeOK, AddRoom
    <3> QED BY <3>2, <3>4
  <2> QED BY <2>1, <2>2, <2>3 DEF RacyRoom
<1>8. CASE AddStore(s)
  <2> USE <1>8 DEF AddStore
  <2>1. TypeOK'
    BY <1>1, <1>2 DEF TypeOK, Labels, RacyLabels
  <2>2. RacyLabels' /\ RacyCounts'
    BY DEF TypeOK, RacyLabels, RacyCounts
  <2>3. ASSUME ~overlapped' PROVE OneAdding' /\ AddRoom'
    <3>1. OneAdding /\ AddRoom
      BY <2>3 DEF RacyRoom
    <3>2. OneAdding'
      BY <3>1 DEF TypeOK, OneAdding
    <3>3. AddRoom'
      BY <3>1 DEF TypeOK, AddRoom
    <3> QED BY <3>2, <3>3
  <2> QED BY <2>1, <2>2, <2>3 DEF RacyRoom
<1>9. CASE AddLoad(s)
  <2> USE <1>9 DEF AddLoad
  <2>1. TypeOK'
    BY <1>1 DEF TypeOK, Labels
  <2>2. RacyLabels' /\ RacyCounts'
    BY DEF TypeOK, RacyLabels, RacyCounts
  <2>3. ASSUME ~overlapped' PROVE OneAdding' /\ AddRoom'
    <3>1. OneAdding /\ AddRoom
      BY <2>3 DEF RacyRoom
    <3>2. OneAdding'
      BY <3>1 DEF TypeOK, OneAdding
    <3>3. AddRoom'
      BY <3>1 DEF TypeOK, AddRoom
    <3> QED BY <3>2, <3>3
  <2> QED BY <2>1, <2>2, <2>3 DEF RacyRoom
<1>10. CASE AddInc(s)
  <2> USE <1>10 DEF AddInc
  <2>1. TypeOK'
    BY <1>1 DEF TypeOK, Labels
  <2>2. RacyLabels' /\ RacyCounts'
    BY DEF TypeOK, RacyLabels, RacyCounts
  <2>3. ASSUME ~overlapped' PROVE OneAdding' /\ AddRoom'
    <3>1. OneAdding /\ AddRoom
      BY <2>3 DEF RacyRoom
    <3>2. OneAdding'
      BY <3>1 DEF TypeOK, OneAdding
    <3>3. AddRoom'
      BY <3>1 DEF TypeOK, AddRoom, OneAdding, RacyCounts
    <3> QED BY <3>2, <3>3
  <2> QED BY <2>1, <2>2, <2>3 DEF RacyRoom
<1>11. CASE SemPost(s)
  <2> USE <1>11 DEF SemPost
  <2>1. TypeOK'
    BY <1>1 DEF TypeOK, Labels
  <2>2. RacyLabels' /\ RacyCounts'
    BY DEF TypeOK, RacyLabels, RacyCounts
  <2>3. ASSUME ~overlapped' PROVE OneAdding' /\ AddRoom'
    <3>1. OneAdding /\ AddRoom
      BY <2>3 DEF RacyRoom
    <3>2. OneAdding'
      BY <3>1 DEF TypeOK, OneAdding
    <3>3. AddRoom'
      BY <3>1 DEF TypeOK, AddRoom
    <3> QED BY <3>2, <3>3
  <2> QED BY <2>1, <2>2, <2>3 DEF RacyRoom
<1> QED
  BY <1>3, <1>4, <1>5, <1>6, <1>7, <1>8, <1>9, <1>10, <1>11 DEF Sender

(* The reader's steps, whoever else is inside.                             *)
LEMMA RacyTask ==
  ASSUME RacyInv, Task
  PROVE  RacyInv'
<1> USE DEF RacyInv, Threads, Goto, Adding, Removing
<1>1. owner' \in Threads \cup {NULL}
  BY DEF Task, SemPend, RemoveEnter, RemoveEmpty, RemoveTest, RemoveLoad, RemoveNext,
         RemoveSize, RemoveDec, RemoveWrap, Dispatch, EnterCritical, ExitCritical, TypeOK
<1>2. CASE SemPend
  <2> USE <1>2 DEF SemPend
  <2>1. TypeOK'
    BY <1>1 DEF TypeOK, Labels
  <2>2. RacyLabels' /\ RacyCounts'
    BY DEF TypeOK, RacyLabels, RacyCounts
  <2>3. RacyRoom'
    BY DEF TypeOK, RacyLabels, RacyRoom, OneAdding, AddRoom
  <2> QED BY <2>1, <2>2, <2>3
<1>3. CASE RemoveEnter
  <2> USE <1>3 DEF RemoveEnter
  <2>1. TypeOK'
    BY <1>1 DEF TypeOK, Labels
  <2>2. RacyLabels' /\ RacyCounts'
    BY DEF TypeOK, RacyLabels, RacyCounts
  <2>3. RacyRoom'
    BY DEF TypeOK, RacyLabels, RacyRoom, OneAdding, AddRoom
  <2> QED BY <2>1, <2>2, <2>3
<1>4. CASE RemoveEmpty
  <2> USE <1>4 DEF RemoveEmpty
  <2>1. TypeOK'
    BY <1>1 DEF TypeOK, Labels
  <2>2. RacyLabels' /\ RacyCounts'
    BY DEF TypeOK, RacyLabels, RacyCounts
  <2>3. RacyRoom'
    BY DEF TypeOK, RacyLabels, RacyRoom, OneAdding, AddRoom
  <2> QED BY <2>1, <2>2, <2>3
<1>5. CASE RemoveTest
  <2> USE <1>5 DEF RemoveTest
  <2>1. TypeOK'
    BY <1>1 DEF TypeOK, Labels
  <2>2. RacyLabels' /\ RacyCounts'
    BY DEF TypeOK, RacyLabels, RacyCounts
  <2>3. RacyRoom'
    BY DEF TypeOK, RacyLabels, RacyRoom, OneAdding, AddRoom
  <2> QED BY <2>1, <2>2, <2>3
<1>6. CASE RemoveLoad
  <2> USE <1>6 DEF RemoveLoad
  <2>1. TypeOK'
    <3>1. data[next] \in Message \cup {NULL}
      BY DEF TypeOK, RacyCounts
    <3> QED
      BY <1>1, <3>1 DEF TypeOK, Labels
  <2>2. RacyLabels' /\ RacyCounts'
    BY DEF TypeOK, RacyLabels, RacyCounts
  <2>3. RacyRoom'
    BY DEF TypeOK, RacyLabels, RacyRoom, OneAdding, AddRoom
  <2> QED BY <2>1, <2>2, <2>3
<1>7. CASE RemoveNext
  <2> USE <1>7 DEF RemoveNext
  <2>1. TypeOK'
    <3>1. next' \in 0 .. Capacity
      BY DEF RacyCounts, Slots
    <3> QED
      BY <1>1, <3>1 DEF TypeOK, Labels
  <2>2. RacyLabels' /\ RacyCounts'
    BY DEF TypeOK, RacyLabels, RacyCounts
  <2>3. RacyRoom'
    BY DEF TypeOK, RacyLabels, RacyRoom, OneAdding, AddRoom, RacyCounts, Slots
  <2> QED BY <2>1, <2>2, <2>3
<1>8. CASE RemoveSize
  <2> USE <1>8 DEF RemoveSize
  <2>1. TypeOK'
    BY <1>1 DEF TypeOK, Labels
  <2>2. RacyLabels' /\ RacyCounts'
    BY DEF TypeOK, RacyLabels, RacyCounts
  <2>3. RacyRoom'
    BY DEF TypeOK, RacyLabels, RacyRoom, OneAdding, AddRoom
  <2> QED BY <2>1, <2>2, <2>3
<1>9. CASE RemoveDec
  <2> USE <1>9 DEF RemoveDec
  <2>1. TypeOK'
    BY <1>1 DEF TypeOK, Labels
  <2>2. RacyLabels' /\ RacyCounts'
    BY DEF TypeOK, RacyLabels, RacyCounts
  <2>3. RacyRoom'
    BY DEF TypeOK, RacyLabels, RacyRoom, OneAdding, AddRoom, RacyCounts, Slots
  <2> QED BY <2>1, <2>2, <2>3
<1>10. CASE RemoveWrap
  <2> USE <1>10 DEF RemoveWrap
  <2>1. TypeOK'
    <3>1. next' \in 0 .. Capacity
      BY DEF TypeOK, Wrap
    <3> QED
      BY <1>1, <3>1 DEF TypeOK, Labels
  <2>2. RacyLabels' /\ RacyCounts'
    BY DEF TypeOK, RacyLabels, RacyCounts, Wrap, Slots
  <2>3. RacyRoom'
    BY DEF TypeOK, RacyLabels, RacyRoom, OneAdding, AddRoom
  <2> QED BY <2>1, <2>2, <2>3
<1>11. CASE Dispatch
  <2> USE <1>11 DEF Dispatch
  <2>1. TypeOK'
    BY <1>1 DEF TypeOK, Labels
  <2>2. RacyLabels' /\ RacyCounts'
    BY DEF TypeOK, RacyLabels, RacyCounts
  <2>3. RacyRoom'
    BY DEF TypeOK, RacyLabels, RacyRoom, OneAdding, AddRoom
  <2> QED BY <2>1, <2>2, <2>3
<1> QED
  BY <1>2, <1>3, <1>4, <1>5, <1>6, <1>7, <1>8, <1>9, <1>10, <1>11 DEF Task

(* Whether or not os_enter_critical excludes anybody, size never becomes   *)
(* negative and queue_remove loads from a slot.  Posts that do not overlap *)
(* one another stay inside data[] as well, whatever the reader does        *)
(* meanwhile; of two overlapping posts the second can write to             *)
(* data[capacity].                                                         *)
THEOREM RacyRingSafe == Spec => []RacyRingInBounds
<1>1. RacyInv /\ [Next]_vars => RacyInv'
  <2> SUFFICES ASSUME RacyInv, [Next]_vars PROVE RacyInv'
    OBVIOUS
  <2>1. CASE UNCHANGED vars
    BY <2>1 DEF vars, RacyInv, TypeOK, RacyLabels, RacyCounts, RacyRoom, OneAdding, AddRoom
  <2> QED
    BY <2>1, RacySender, RacyTask DEF Next
<1>2. RacyInv => RacyRingInBounds
  BY DEF RacyInv, TypeOK, RacyCounts, RacyRoom, AddRoom, RacyRingInBounds
<1> QED
  BY <1>1, <1>2, RacyInit, PTL DEF Spec

==============================================================================
