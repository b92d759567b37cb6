----------------------------- MODULE MessageQueue -----------------------------
(***************************************************************************)
(* The message queue of one task: the ring buffer of                       *)
(* middleware/components/queue/mblue_queue.c and the counting semaphore    *)
(* msg_sem that template_msg_post (producer side) and template_proc        *)
(* (consumer side) of pal/task/mblue_stdtask.c pair with it.               *)
(*                                                                         *)
(* Any task, timer callback or interrupt may post; only the owning task    *)
(* removes.  The unit of interleaving is one access to the shared fields   *)
(* size, next and data[], so that the model also covers the Linux port,    *)
(* whose os_enter_critical does nothing (CriticalWorks = FALSE).           *)
(***************************************************************************)
EXTENDS Integers, Sequences, FiniteSets

CONSTANTS
  Senders,        \* threads that post to this task
  Reader,         \* the task itself
  Capacity,       \* elements_in_queue
  MaxPosts,       \* bound: posts each sender makes
  CriticalWorks,  \* does os_enter_critical exclude the other threads?
  NULL

ASSUME SendersAssumption == IsFiniteSet(Senders) /\ Reader \notin Senders
ASSUME CapacityAssumption == Capacity \in Nat \ {0}
ASSUME MaxPostsAssumption == MaxPosts \in Nat
ASSUME CriticalAssumption == CriticalWorks \in BOOLEAN

(* A message is named by its sender and by its rank among his posts.       *)
Message == Senders \X (1 .. MaxPosts)

ASSUME NullAssumption == NULL \notin Message /\ NULL \notin Senders \cup {Reader}

VARIABLES
  size,       \* queue->size
  next,       \* queue->next
  data,       \* queue->data[0 .. capacity - 1]
  msgSem,     \* value of the counting semaphore task->msg_sem
  owner,      \* thread inside the critical section, or NULL
  pc,         \* control point of every thread
  posted,     \* posts begun by each sender
  pos,        \* local pos of queue_add
  tmp,        \* the value of size a thread loaded for size++ or size--
  value,      \* local value of queue_remove, then msg of template_proc
  removed,    \* history: messages queue_remove returned, in order
  rejected,   \* history: messages queue_add refused
  overlapped  \* history: have two senders been inside queue_add at once?

vars == <<size, next, data, msgSem, owner, pc, posted, pos, tmp, value,
          removed, rejected, overlapped>>

Threads == Senders \cup {Reader}
Slots == 0 .. Capacity - 1

(* The message a sender is posting, once posted[s] counts it.              *)
Current(s) == <<s, posted[s]>>

(* if (p >= queue->capacity) p -= queue->capacity (WrapLate: an            *)
(* off-by-one).                                                            *)
WrapLate(p) == IF p > Capacity THEN p - Capacity ELSE p

Wrap(p) == IF p >= Capacity THEN p - Capacity ELSE p

Goto(t, label) == pc' = [pc EXCEPT ![t] = label]

(***************************************************************************)
(* os_enter_critical and os_exit_critical (EnterCriticalOpen: nobody       *)
(* waits).                                                                 *)
(***************************************************************************)
EnterCriticalOpen(t) == owner' = t

EnterCritical(t) ==
  IF CriticalWorks THEN owner = NULL /\ owner' = t ELSE UNCHANGED owner

ExitCritical ==
  IF CriticalWorks THEN owner' = NULL ELSE UNCHANGED owner

(***************************************************************************)
(* template_msg_post -> queue_add.                                         *)
(***************************************************************************)
Adding == {"add_test", "add_next", "add_size", "add_store", "add_load", "add_inc"}

AddEnter(s) ==
  /\ pc[s] = "idle"
  /\ posted[s] < MaxPosts
  /\ EnterCritical(s)
  /\ posted' = [posted EXCEPT ![s] = @ + 1]
  /\ overlapped' = (overlapped \/ \E r \in Senders : pc[r] \in Adding)
  /\ Goto(s, "add_test")
  /\ UNCHANGED <<size, next, data, msgSem, pos, tmp, value, removed, rejected>>

(* _queue_at_capacity holds: -1 is returned, no post, the message is lost. *)
(* AddFullEarly gives the last slot away, AddFullPosts announces the       *)
(* message all the same.                                                   *)
AddFullEarly(s) ==
  /\ pc[s] = "add_test"
  /\ size >= Capacity - 1
  /\ ExitCritical
  /\ rejected' = rejected \cup {Current(s)}
  /\ Goto(s, "idle")
  /\ UNCHANGED <<size, next, data, msgSem, posted, pos, tmp, value, removed,
                 overlapped>>

AddFullPosts(s) ==
  /\ pc[s] = "add_test"
  /\ size >= Capacity
  /\ ExitCritical
  /\ rejected' = rejected \cup {Current(s)}
  /\ Goto(s, "post")
  /\ UNCHANGED <<size, next, data, msgSem, posted, pos, tmp, value, removed,
                 overlapped>>

AddFull(s) ==
  /\ pc[s] = "add_test"
  /\ size >= Capacity
  /\ ExitCritical
  /\ rejected' = rejected \cup {Current(s)}
  /\ Goto(s, "idle")
  /\ UNCHANGED <<size, next, data, msgSem, posted, pos, tmp, value, removed,
                 overlapped>>

AddTest(s) ==
  /\ pc[s] = "add_test"
  /\ size < Capacity
  /\ Goto(s, "add_next")
  /\ UNCHANGED <<size, next, data, msgSem, owner, posted, pos, tmp, value,
                 removed,
                 rejected, overlapped>>

(* pos = next + size, loaded in this order, and the wrap of the local pos. *)
AddNext(s) ==
  /\ pc[s] = "add_next"
  /\ pos' = [pos EXCEPT ![s] = next]
  /\ Goto(s, "add_size")
  /\ UNCHANGED <<size, next, data, msgSem, owner, posted, tmp, value, removed,
                 rejected, overlapped>>

AddSize(s) ==
  /\ pc[s] = "add_size"
  /\ pos' = [pos EXCEPT ![s] = Wrap(@ + size)]
  /\ Goto(s, "add_store")
  /\ UNCHANGED <<size, next, data, msgSem, owner, posted, tmp, value, removed,
                 rejected, overlapped>>

(* data[pos] = value.  Outside of data[] the store hits memory that is not *)
(* modelled.                                                               *)
AddStore(s) ==
  /\ pc[s] = "add_store"
  /\ data' = IF pos[s] \in Slots THEN [data EXCEPT ![pos[s]] = Current(s)] ELSE data
  /\ Goto(s, "add_load")
  /\ UNCHANGED <<size, next, msgSem, owner, posted, pos, tmp, value, removed,
                 rejected, overlapped>>

(* The load of size++.                                                     *)
AddLoad(s) ==
  /\ pc[s] = "add_load"
  /\ tmp' = [tmp EXCEPT ![s] = size]
  /\ Goto(s, "add_inc")
  /\ UNCHANGED <<size, next, data, msgSem, owner, posted, pos, value, removed,
                 rejected, overlapped>>

(* The store of size++, and os_exit_critical.                              *)
AddInc(s) ==
  /\ pc[s] = "add_inc"
  /\ size' = tmp[s] + 1
  /\ ExitCritical
  /\ Goto(s, "post")
  /\ UNCHANGED <<next, data, msgSem, posted, pos, tmp, value, removed,
                 rejected, overlapped>>

(* sem->post(msg_sem), only when queue_add returned 0.                     *)
SemPost(s) ==
  /\ pc[s] = "post"
  /\ msgSem' = msgSem + 1
  /\ Goto(s, "idle")
  /\ UNCHANGED <<size, next, data, owner, posted, pos, tmp, value, removed,
                 rejected, overlapped>>

(***************************************************************************)
(* template_proc -> queue_remove.                                          *)
(***************************************************************************)
SemPend ==
  /\ pc[Reader] = "idle"
  /\ msgSem > 0
  /\ msgSem' = msgSem - 1
  /\ Goto(Reader, "rm_enter")
  /\ UNCHANGED <<size, next, data, owner, posted, pos, tmp, value, removed,
                 rejected, overlapped>>

RemoveEnter ==
  /\ pc[Reader] = "rm_enter"
  /\ EnterCritical(Reader)
  /\ Goto(Reader, "rm_test")
  /\ UNCHANGED <<size, next, data, msgSem, posted, pos, tmp, value, removed,
                 rejected, overlapped>>

(* size is 0: queue_remove returns NULL (RemoveEmptyEarly: already with    *)
(* one element).                                                           *)
RemoveEmptyEarly ==
  /\ pc[Reader] = "rm_test"
  /\ size <= 1
  /\ value' = NULL
  /\ ExitCritical
  /\ Goto(Reader, "dispatch")
  /\ UNCHANGED <<size, next, data, msgSem, posted, pos, tmp, removed,
                 rejected, overlapped>>

RemoveEmpty ==
  /\ pc[Reader] = "rm_test"
  /\ size <= 0
  /\ value' = NULL
  /\ ExitCritical
  /\ Goto(Reader, "dispatch")
  /\ UNCHANGED <<size, next, data, msgSem, posted, pos, tmp, removed,
                 rejected, overlapped>>

RemoveTest ==
  /\ pc[Reader] = "rm_test"
  /\ size > 0
  /\ Goto(Reader, "rm_load")
  /\ UNCHANGED <<size, next, data, msgSem, owner, posted, pos, tmp, value,
                 removed,
                 rejected, overlapped>>

RemoveLoad ==
  /\ pc[Reader] = "rm_load"
  /\ value' = data[next]
  /\ Goto(Reader, "rm_next")
  /\ UNCHANGED <<size, next, data, msgSem, owner, posted, pos, tmp, removed,
                 rejected, overlapped>>

RemoveNext ==
  /\ pc[Reader] = "rm_next"
  /\ next' = next + 1
  /\ removed' = Append(removed, value)
  /\ Goto(Reader, "rm_size")
  /\ UNCHANGED <<size, data, msgSem, owner, posted, pos, tmp, value, rejected,
                 overlapped>>

(* The load of size--.                                                     *)
RemoveSize ==
  /\ pc[Reader] = "rm_size"
  /\ tmp' = [tmp EXCEPT ![Reader] = size]
  /\ Goto(Reader, "rm_dec")
  /\ UNCHANGED <<size, next, data, msgSem, owner, posted, pos, value, removed,
                 rejected, overlapped>>

(* The store of size--.                                                    *)
RemoveDec ==
  /\ pc[Reader] = "rm_dec"
  /\ size' = tmp[Reader] - 1
  /\ Goto(Reader, "rm_wrap")
  /\ UNCHANGED <<next, data, msgSem, owner, posted, pos, tmp, value, removed,
                 rejected, overlapped>>

RemoveWrap ==
  /\ pc[Reader] = "rm_wrap"
  /\ next' = Wrap(next)
  /\ ExitCritical
  /\ Goto(Reader, "dispatch")
  /\ UNCHANGED <<size, data, msgSem, posted, pos, tmp, value, removed,
                 rejected, overlapped>>

(* ms = msg->dst and the call of the segment's handler; with msg = NULL    *)
(* the task dies at msg->dst (DispatchOnce: the loop is not closed).       *)
DispatchOnce == pc[Reader] = "dispatch" /\ UNCHANGED vars

Dispatch ==
  /\ pc[Reader] = "dispatch"
  /\ Goto(Reader, IF value = NULL THEN "dead" ELSE "idle")
  /\ UNCHANGED <<size, next, data, msgSem, owner, posted, pos, tmp, value,
                 removed, rejected, overlapped>>

(***************************************************************************)
Init ==
  /\ size = 0
  /\ next = 0
  /\ data = [i \in Slots |-> NULL]
  /\ msgSem = 0
  /\ owner = NULL
  /\ pc = [t \in Threads |-> "idle"]
  /\ posted = [s \in Senders |-> 0]
  /\ pos = [s \in Senders |-> 0]
  /\ tmp = [t \in Threads |-> 0]
  /\ value = NULL
  /\ removed = << >>
  /\ rejected = {}
  /\ overlapped = FALSE

Sender(s) ==
  \/ AddEnter(s) \/ AddFull(s) \/ AddTest(s) \/ AddNext(s) \/ AddSize(s)
  \/ AddStore(s) \/ AddLoad(s) \/ AddInc(s) \/ SemPost(s)

Task ==
  \/ SemPend \/ RemoveEnter \/ RemoveEmpty \/ RemoveTest \/ RemoveLoad
  \/ RemoveNext \/ RemoveSize \/ RemoveDec \/ RemoveWrap \/ Dispatch

Next == Task \/ \E s \in Senders : Sender(s)

Spec == Init /\ [][Next]_vars

(***************************************************************************)
(* Both sides are threads the operating system schedules; a sender owes    *)
(* nothing before it starts a post, but once inside it runs to the end.    *)
(* Waiting for the critical section is waiting for a thread that runs a    *)
(* few straight-line statements, so a waiting thread gets it eventually.   *)
(***************************************************************************)
Fairness ==
  /\ SF_vars(Task)
  /\ \A s \in Senders : WF_vars(pc[s] # "idle" /\ Sender(s))

FairSpec == Spec /\ Fairness

(***************************************************************************)
(* Properties.                                                             *)
(***************************************************************************)
Removing == {"rm_test", "rm_load", "rm_next", "rm_size", "rm_dec", "rm_wrap"}

Labels == Adding \cup Removing \cup {"idle", "post", "rm_enter", "dispatch", "dead"}

(* Types of the ring, the semaphore and what the tasks hold.               *)
TypeOK ==
  /\ size \in Int
  /\ next \in 0 .. Capacity
  /\ data \in [Slots -> Message \cup {NULL}]
  /\ msgSem \in Nat
  /\ owner \in Threads \cup {NULL}
  /\ pc \in [Threads -> Labels]
  /\ posted \in [Senders -> 0 .. MaxPosts]
  /\ pos \in [Senders -> Int]
  /\ tmp \in [Threads -> Int]
  /\ value \in Message \cup {NULL}
  /\ removed \in Seq(Message \cup {NULL})
  /\ rejected \in SUBSET Message
  /\ overlapped \in BOOLEAN

(* The semaphore never promises a message the ring does not hold: a task   *)
(* woken by msg_sem always gets one, as _ASSERT(msg && ms) in              *)
(* template_proc demands (mblue_stdtask.c:140).                            *)
WokenTaskFindsMessage ==
  pc[Reader] \in {"dispatch", "dead"} => value # NULL

(* Threads whose element is in the ring and not yet announced by msg_sem.  *)
Unannounced == {s \in Senders : pc[s] = "post"}

(* Elements the reader has taken a semaphore count for and that size still *)
(* counts.                                                                 *)
Claimed ==
  IF pc[Reader] \in {"rm_enter", "rm_test", "rm_load", "rm_next", "rm_size", "rm_dec"}
    THEN 1 ELSE 0

(* msg_sem and queue->size, two counters updated by different threads at   *)
(* different moments, never drift apart: every queued element is           *)
(* announced by the semaphore, about to be, or just claimed.               *)
SemaphoreMatchesRing ==
  size = msgSem + Cardinality(Unannounced) + Claimed

(***************************************************************************)
(* The contents of the ring, oldest first.  Between next++ and size-- the  *)
(* element under the old next has left the queue although size counts it.  *)
(***************************************************************************)
Leaving == pc[Reader] \in {"rm_size", "rm_dec"}

Live == IF Leaving THEN size - 1 ELSE size

Contents == [i \in 1 .. Live |-> data[Wrap(next + i - 1)]]

Fifo == INSTANCE BoundedFifo WITH fifo <- Contents, taken <- removed

(* The ring buffer with its semaphore implements the bounded FIFO: no      *)
(* message is lost, duplicated, reordered or overwritten.                  *)
ImplementsFifo == Fifo!Spec

(* With the critical sections of the Linux port, which exclude nobody,     *)
(* lost updates of size never make it negative, and queue_remove loads     *)
(* from a slot.  As long as no two posts overlap, no exclusion against the *)
(* reader is needed for queue_add to store into a slot either, although    *)
(* next and size change between its test and its loads.  Two posts that    *)
(* overlap may pass the test with one slot left, and then the second one   *)
(* stores outside of data[].                                               *)
RacyRingInBounds ==
  /\ size >= 0
  /\ pc[Reader] \in {"rm_load", "rm_next"} => next \in Slots
  /\ ~overlapped => /\ size <= Capacity
                    /\ \A s \in Senders : pc[s] = "add_store" => pos[s] \in Slots

(* Every accepted message reaches the handler of its task.                 *)
AcceptedIsHandled ==
  \A s \in Senders : \A n \in 1 .. MaxPosts :
    (pc[s] = "post" /\ posted[s] = n)
      ~> (\E i \in DOMAIN removed : removed[i] = <<s, n>>)

(***************************************************************************)
(* The inductive invariant behind the safety properties when the critical  *)
(* sections exclude (CriticalWorks = TRUE).                                *)
(***************************************************************************)
Inside == Adding \cup Removing

(* Each thread runs its own code.                                          *)
OwnCode ==
  /\ pc[Reader] \in Removing \cup {"idle", "rm_enter", "dispatch"}
  /\ \A s \in Senders :
       /\ pc[s] \in Adding \cup {"idle", "post"}
       /\ pc[s] # "idle" => posted[s] > 0

(* One thread at a time is inside the critical section.                    *)
Exclusive == \A t \in Threads : pc[t] \in Inside => owner = t

(* What the sender inside has computed still describes the ring.           *)
AddLocals ==
  \A s \in Senders :
    /\ pc[s] \in Adding \ {"add_test"} => size < Capacity
    /\ pc[s] = "add_size" => pos[s] = next
    /\ pc[s] \in {"add_store", "add_load", "add_inc"} => pos[s] = Wrap(next + size)
    /\ pc[s] \in {"add_load", "add_inc"} => data[pos[s]] = Current(s)
    /\ pc[s] = "add_inc" => tmp[s] = size

(* What the reader inside has computed still describes the ring.           *)
RemoveLocals ==
  /\ next = Capacity => pc[Reader] \in {"rm_size", "rm_dec", "rm_wrap"}
  /\ pc[Reader] = "rm_next" => value = data[next]
  /\ pc[Reader] = "rm_dec" => tmp[Reader] = size
  /\ pc[Reader] \in {"rm_next", "rm_size", "rm_dec", "rm_wrap", "dispatch"} => value # NULL

(* The live slots hold messages and there are at most Capacity of them.    *)
LiveSlots ==
  /\ size \in 0 .. Capacity
  /\ \A i \in 1 .. Live : data[Wrap(next + i - 1)] \in Message

QueueInv ==
  /\ TypeOK
  /\ OwnCode
  /\ Exclusive
  /\ AddLocals
  /\ RemoveLocals
  /\ LiveSlots
  /\ SemaphoreMatchesRing

==============================================================================
