# A verification project for MBlue

MBlue is a small framework for embedded systems: tasks that host *segments*
(services and scenarios), a *system bus* task that routes signals and remote
calls between segments, and thin wrappers of the platform (threads, semaphores,
timers, critical sections). This directory models the parts of it that carry
state and concurrency in TLA+, checks them with TLC on small instances and
proves the central results with TLAPS for every instance.

## Inventory of the system

| part | state | operations | interacts with |
| --- | --- | --- | --- |
| task message queue (`mblue_queue.c`, `mblue_stdtask.c`) | ring `size`, `next`, `data[]`; `msg_sem` | `queue_add`/`template_msg_post` by anybody, `queue_remove`/`template_proc` by the owner | every sender and the owning task share it |
| critical sections (`custom_int*.`) | - | `os_enter_critical`, `os_exit_critical`: exclude on the MT and TI ports, do nothing on Linux | queue, pool, sequence counter, ring buffer |
| message pool (`mblue_message.c`) | free list, `ref`, `sequence` | alloc, release, get/put reference, next sequence number | every task |
| ipc (`ipc.c`, `ipc_helper.c`) | the caller's `out` cell, `call_sem` | subscribe, synchronous and asynchronous call, broadcast, local signal, return | pool, queues |
| system bus (`system_bus.c`, `system_bus_service.c`) | segment table, publish lists, lists of pending calls | subscribe, signal, call, call_return; register and contex_notify at start-up | a task like the others; wakes callers through `tpost` |
| segment handlers (`mblue_segment.c`) | `processing_msg` | `default_signal_handler`, `default_ipc_handler` | decode, run the method, return, free, release |
| event queue, timers (`event_queue.c`, `event_helper.c`, `mblue_timer.c`) | list of elements, pending mask, timer pool | add, delete, wake up, timer start/stop/notify | timer callbacks post signals that carry element pointers |
| ring buffer (`mblue_fifo.c`) | free-running `in`, `out` | put, get, len, reset | one producer, one consumer |
| start-up (`task_manager.c`, `mblue_stdtask.c`, `mblue_task_entry.h`, `get_system_bus_instance`) | task table, bus singleton, `init_lock`, facade | create tasks, initialise the bus, register, notify, launch | every task takes part; lazily created singletons |
| persistence (`mb_persistence.c`) | text and heads in flash, configuration in RAM | restart, write, read, clear | power may fail at any access to the flash |
| data schema (`pb_schema.c`, `mblue.pb.c`) | a buffer from the heap | serialize and parse calls, structures, byte arrays | callers serialize, segment handlers parse and free |
| protocol buffers (`pb_encode.c`, `pb_decode.c`, `pb_common.c`) | a stream | encode and decode numbers, strings, messages | used by the data schema |
| state machine, map, power guard, log, clock, crc, hash | small | sequential | - |
| network proxy | - | stale | not modelled |

What is hard here: two counters (`size`, `msg_sem`) that different threads move
at different moments; messages that pass through four owners and two queues
with a reference count that starts at 0 for some types and at 1 for others;
callers that wait without a timeout; replies told apart by a sequence number
only; values read after the object was handed over; bounded pool and bounded
queues whose failures are mostly ignored; receivers that are given a pointer to
a payload and no size; a power failure between a text in flash and the head
that accounts for it; tasks that start while the singletons they use are being
made. `PROJECT.json` lists these hazards
with the line at which each one bites.

What makes the parts correct: a queue is a FIFO, a woken task finds its
message, accepted messages are handled; every message is on the free list or
counted exactly; a call is executed once and completed once with its own
result, and its caller is woken; signals arrive in order; payloads are freed
once; a ring buffer loses nothing; a restart finds the last complete record; a
timer never acts for an event that is gone; a call's arguments arrive unchanged
and its buffer is freed once; a segment is launched into a bus that runs.

## Modules

| module | stands for |
| --- | --- |
| `BoundedFifo` | what a task's queue promises: append, refuse when full, take the oldest |
| `MessageQueue` | the ring and its semaphore, one step per access to a shared field |
| `MessageQueueProofs` | the theorems about `MessageQueue` |
| `MCMessageQueue` | the instance TLC checks |
| `RemoteCall` | what the bus promises to callers: new, issued, executed, completed |
| `SystemBus` | pool, ipc, bus task and default handlers, composed |
| `SystemBusProofs` | the theorems about the pool, the queues and the handlers of `SystemBus` |
| `SignalOrderProofs` | the theorems about the order of signals |
| `RemoteCallProofs` | the theorems that the bus implements remote calls and that payloads are freed once |
| `MCSystemBus` | the instances TLC checks |
| `EventQueue` | the event queue of a segment, the timer pool, the POSIX timers and their signal handler |
| `EventQueueProofs` | the theorems about `EventQueue` |
| `MCEventQueue` | the instance TLC checks |
| `ByteFifo` | what a ring buffer promises: bytes come out in the order they went in, a put takes what fits |
| `Kfifo` | the lock-free ring buffer, one step per byte copied |
| `KfifoProofs` | the theorems about `Kfifo` |
| `MCKfifo` | the instance TLC checks |
| `Persistence` | the log in flash, its heads, and power failures |
| `PersistenceProofs` | the theorems about `Persistence`: heads, and text over text |
| `MCPersistence` | the instance TLC checks |
| `PbStream` | nanopb's streams: bytes, numbers, tags, substreams |
| `PbMessage` | nanopb's messages: encoding and decoding by field type |
| `PbSchema` | the layouts of mblue, serialization of calls and structures, and the handler that parses them |
| `MCPbSchema` | the instance TLC checks, with bytes of 4 bits |
| `Startup` | from `main()` to the message loops of all tasks |
| `StartupProofs` | the theorems about `Startup` |
| `MCStartup` | the instance TLC checks |

### MessageQueue

`size`, `next`, `data` are the fields of `struct mblue_queue`; `msgSem` is
`task->msg_sem`; `owner` is who is inside the critical section; `pos`, `tmp`,
`value` are the locals, `tmp` being the value loaded by `size++` and `size--`.
A sender runs `AddEnter`, then `AddFull`, or `AddTest` (the load of `size` at
`mblue_queue.c:83`), `AddNext` and `AddSize` (the loads of `:89`), `AddStore`,
`AddLoad` and `AddInc` (the two halves of `size++`), `SemPost`; the owner runs
`SemPend`, `RemoveEnter`, then `RemoveEmpty`, or `RemoveTest`, `RemoveLoad`,
`RemoveNext`, `RemoveSize` and `RemoveDec` (the halves of `size--`), `RemoveWrap`,
and `Dispatch`. With `CriticalWorks = FALSE` the critical section is the empty one
of the Linux port and all these steps interleave. `removed`, `rejected` and
`overlapped` (two senders have been inside `queue_add` at once) are history.
Messages are names (sender, rank): nothing looks into them.

### SystemBus

Every task but the bus hosts one segment. A request passes through
`MakeRequest`, `SequenceIncrement`, `SequenceReturn` (the number is loaded
after the critical section), `InitMessage` or `NoMessage`, `InvokePost`,
`InvokeTest` (which reads a message already handed over), `InvokePend` and
`RequestEnd`; the same steps from `InitMessage` to `InvokeTest` serve a
handler's `ipc_return` and the bus's `LOGGER`. `BusSubscribe` ...
`BusEnd` are the branches of the bus's handlers between two accesses to shared
state; `HandleCall`, `HandleSignal`, `HandlerEnd` those of the default segment
handlers. A method (`minor`) answers at once (`reply`), keeps the call in a
pending event and answers later (`defer`, `AnswerDeferred`) or does not exist
(`unknown`). A payload is the name of its request, and a result is right when
it is that name. `executed`, `result`, `delivered`, `lost` and `faults` are
history.

Two switches name what depends on the port. `Windows` holds the unprotected
points, `"seq_ret"` (between the critical section and the return of
`mblue_message_get_sequence`) and `"test"` (between hand-off and test in
`ipc_invoke`), at which another task may run. `PendingIsSeen` says whether the
handler recognises `MBLUE_REMOTE_CALL_PENDING`, which depends on the word size
(see the finding below). Pool and queue operations are single steps here:
`MessageQueue` shows what that rests on.

### EventQueue

`mem` is the heap of event elements, `queue` and `bm` are the list and the mask
of `struct event_queue_head`, `pool` is the list of free timers, `obj[t]` the
element a timer's callback points to (the `param` of its `posix_timer`), and
`armed[t]` whether its kernel timer runs. The segment's task calls
`AddPendingEvent`, `ScheduleEvent`, `RescheduleDelete` and `RescheduleAdd` (the
two halves of `reschedule_delayed_event_with_type`), `cancel_delayed_event`,
`PendingEventNotify` and, for a message of a timer, `TimerWakeup`. The clock is
`Expire`; the signal handler runs in three steps, `NotifyTest` and `NotifyLoad`
(the test of `timer->_obj` and its second load) and `default_timer_event`, on
any thread and for different timers at once; two runs of it for the same timer
are not modelled. `default_timer_event` reads an element that is gone
(`ReadStale`), sends its message (`TimeoutSent`) or loses the time-out
(`TimeoutLost`), because the queue is full or because the message pool, which all
tasks share and which may be empty at any moment, has no message for it. A handler's return value is any value the call chain can
deal with. Reading a freed element either stops the program (`down`) or finds
something of a known type. `settled`, `foreign` and `orphaned` are history.
The mode, the period (timed or not) and the call chain of an element are kept;
its data and the `CALL_START` handler, which no caller sets, are not. What the
failing assertions of a debug build would do is not modelled: they are empty in
the build.

### Kfifo

`buffer`, `in`, `out` are the fields of `struct mblue_fifo`. The writer runs
`PutTest`, perhaps `PutAgain`, `PutByte` for every byte, `PutEnd`; the reader
`GetTest`, perhaps `GetAgain`, `GetByte`, `GetEnd`. `MIN` is a macro: it
compares the caller's length with the room (or the bytes there), and if that is
not larger it is evaluated a second time, with the index the other side has by
then. `kfifo_reset` happens when both are idle, as its comment asks for. Each
side's steps happen in program order: the comments ask for it, the barriers
that would enforce it on a weakly ordered machine are not in the code.

### Persistence

`programmed` are the bytes of the log section that are not erased, `heads` the
slots of the sector of heads, `config` and `head_index` the fields of the
logger in RAM. A call puts the operations it makes on the flash, in order, into
`todo`; `FlashStep` performs the next one, and `PowerFails` may come between
any two or in the middle of one (a head written in part is `Torn`, an erasure
has or has not happened). What is programmed twice without an erasure is
`Mixed`. `WriteOn` and `WriteAround` are the two branches of `_log_write`, for
texts of up to `Sector5` bytes (the 128 KB of `mb_persistence.c:53`), so that a text
may be longer than the sector erased for it. `Restart` is `_init_check` with
`__confirm_head_and_data_section_valid`; it adopts whatever fields stand in a head
that is marked valid, be they a mixture, and the program goes on with them: what
the check says of a mixture may be anything, and `WriteAstray` is a text written
with it. Reads with a mixture as configuration change nothing that is followed.
The text itself is left out: only which bytes are written matters. `garbled` (a restart has adopted
fields no call has written), `overlong` (a text went beyond what was erased for
it), `twice`, `around` (the erasure of sector 5 has started the heads again) and
`forked` (that happened beside a valid head, while the first slot was blank) are
history. The driver of the flash is external; a write it refuses programs
nothing.

### PbStream, PbMessage, PbSchema

These are functions: a stream goes in, a stream with a value or a failure comes
out. An input stream knows the bytes of the buffer, its position and what is
`left`, and notes in `over` whether it was read past the end; an output stream
knows what was written and its limit. A number has `Word` bits, where the source
has 64, and `Half` where it has 32; a byte holds `GroupBits` bits of a varint
and one more. `Then` is the `if (!f(...)) return false;` that follows nearly every
call. `PbMessage` has one operator per function of nanopb. A message
type is the sequence of its fields and a message the sequence of their items;
structure offsets and iterators are left out. Pointer fields, which need
`PB_ENABLE_MALLOC`, fail as they do in this build.

`PbSchema` has the tables of `mblue.pb.c` and three kinds of job: a remote call
(`mblue_serialize_ipc`, then `default_ipc_handler` with the parser of the
layout), a structure (`mblue_serialize_struct_with_layout` or
`mblue_serialize_mono_buffer`, then their inverses, with a receiver that may know
fewer fields), a single number. The receiver is given a pointer and no size: it
reads with `left = Huge`, as `mblue_segment.c:108` and `pb_schema.c:144` do with
`SIZE_MAX`. `buffer.freed` counts who frees the buffer.
`SystemBus` treats the payload as a name; this module is what that rests on.

### Startup

`pc` is where every task is between `task_start` and its message loop. The parts
of `get_system_bus_instance` (test, publication, methods of the semaphore, its
count) are steps of their own, as are the two assignments of
`ipc_facade_create_instance` and each post of `bus_contex_notify`. `strict`
chooses the port: threads that interleave from the moment they are created
(Linux), or tasks that run after `task_run()` in the order of their priority,
where a lower one runs while all higher ones wait. A call through a method that
is not yet set ends the program (`crashed`). A pend of `init_lock` takes a count or
falls asleep (`asleep`), which is possible before `sem_init` too, since the bus is
static and all zeros; `sem_init` then forgets the sleepers (`forgotten`), and
nothing says that they are woken again: they may be, but fairness does not
promise it. A task may fail to come up for
want of memory or of a thread.

## Runs

| run | instance | shows |
| --- | --- | --- |
| `queue_exclusive` | 2 senders, 3 posts each, capacity 2 | invariants, FIFO refinement, every accepted message handled |
| `queue_linux` | 2 senders, 2 posts each, no exclusion | lost updates never leave the array, as long as no two posts overlap |
| `queue_linux_null` | the same | violation: a woken task finds no message |
| `bus_calls` | c1: 2 synchronous calls, c2: 1 asynchronous call; pool 5, numbers mod 3, preemption at `"test"` | remote calls are implemented and complete; wake-ups and payloads exact; the load is `Ample` for the pool, the queues and the numbers |
| `bus_signals` | 3 broadcasts, 1 subscription or other request; queues of 3 | signals arrive in order and are not lost |
| `bus_faults` | pool 2, queues of 1, calls answered twice, preemption everywhere | the pool survives every failed step |
| `bus_sequence` | two deferred synchronous calls, preemption at `"seq_ret"` | violation: equal numbers, swapped replies |
| `event_timers` | 2 types, 2 elements, 2 timers, 2 kernel timers, 3 events, queue of 1 | mask, list and timers agree; time-outs reach their event; timed events fire and periodic ones repeat, unless their time-outs are lost |
| `ring_buffer` | 2 bytes, indices mod 8, puts and gets of up to 3 | never overrun, and a queue of bytes |
| `persistence` | sectors of 2 and 3 bytes, 3 heads, texts of up to 3 bytes, 2 bytes inspected | until the heads start again no restart adopts fields no call has written and each finds the latest head; text is not written over text except at the very end, unless heads forked, a text was overlong or a mixture was adopted |
| `payloads` | bytes of 4 bits, words of 8 and 16 bits, names of up to 2 characters, all layouts | arguments, structures and numbers arrive; room suffices; buffers are freed once |
| `startup` | the three preloaded tasks, both ports, any task may fail to come up | a segment is launched into a running bus; strict priorities exclude the races; every task gets to its loop unless the lock of the bus raced |

**Bounds.** `MaxPosts = 3` with `Capacity = 2` makes the ring wrap, fill and
refuse with both senders inside. In `bus_calls` six messages are allocated from
a pool of five and three sequence numbers wrap, so that recycling and wrap-around
happen while two calls are outstanding; a pool of four already loses replies
because a woken caller sends again before the bus has released its two
messages. In `bus_signals` the queue holds exactly the burst. In `bus_faults`
everything is one too small. In `event_timers` three events share two elements
and two timers, so that both are used again while signals and messages of their
former use are under way, a third kernel timer cannot be created, and a second
message meets a full queue. In `ring_buffer` indices wrap after four rounds, a
copy of two bytes is split by the end of the buffer, and requests are larger
than the buffer. In `persistence` a text can end at, or straddle, the border of
either sector and the end of the section, or be longer than the first sector,
three heads fill their space, and power fails at every place of every call. In `payloads` a
number takes one to six bytes, negative numbers the full width, texts contain
zeros and bytes with the continuation bit, and the structures use every field
type of nanopb; `NumbersFit` goes through all words. A length of the real code
takes up to two bytes of the four left for it, here one or two of four. In
`startup` the tasks and priorities are those of `mblue_task_cfg.h`. Deadlock is checked in `bus_calls` and
`bus_signals` (`Finished` marks the intended end); it is off for the queue,
where senders stop after their posts, in `bus_faults`, where the bus task may
die, in `startup`, which ends in the message loops, and in `event_timers`, which ends when no event can be added any more or
the program has crashed.

**Fairness.** In `MessageQueue` a sender that has begun a post runs on (weak),
and the owner gets the critical section eventually (strong): it is held for a
few straight-line statements. In `SystemBus` the scheduler does not idle while
some task can run; when a request is made is left to the application. In
`EventQueue` an armed timer expires, a raised signal is delivered and its
handler runs to its end, the task handles its messages and finishes a
reschedule it has begun (all weak): nothing in this code can hold them back.
Whether a time-out finds a message in the pool and room in the queue is left
open, also in the long run, so the two liveness properties speak of lost
time-outs as the alternative.
What events the application adds or cancels is up to it. In `Startup` `main()`
and every task the port lets run go on (weak): a thread is not starved, and under
strict priority the step of a task is enabled only when it is its turn. A task
that `sem_init` has forgotten is excluded: nobody has to wake it.

Every property of a passing run is paired in `PROJECT.json` with a plausible
mistake in the code (`WrapLate`, `GetRefForgotten`, ...), stated next to the
definition it replaces, that makes TLC find it violated.

## Findings

1. `os_enter_critical` of the Linux port excludes nobody (`custom_int.c:20`): a
   lost `size++` leaves `msg_sem` ahead of the queue and `template_proc`
   dereferences NULL, against its own `_ASSERT(msg && ms)`.
2. `mblue_message_get_sequence` loads the result after the critical section
   (`mblue_message.c:31`): two calls may carry one number, and
   `bus_call_return` gives the first the reply to the other.

### Observed while modelling, without a run of their own

*Queue, bus, events.* On the Linux port, where the critical section is empty,
`queue_add` can store behind its array. With capacity 2, `next = 1` and `size = 1`,
a sender passes the test of `mblue_queue.c:83`; another one posts, `size` is 2; the
reader has done `next++` but not yet `size--`; the first sender computes
`pos = 2 + 2 - 2 = 2` at `:89` and `:90` and writes `data[2]`. It takes two posts that
overlap, which is what `RacyRingInBounds` excepts (`overlapped`). `bus_subscribe` does not look whether the segment is in the
list (`system_bus.c:36`): one that subscribes twice is given every signal twice. A full queue is reported as success
(`mblue_stdtask.c:163`). Two subscribers free one payload (`system_bus.c:196`). A
signal without subscribers leaks its payload. A call of an unregistered service
is never answered. `mblue_message_alloc` may fail in `bus_signal` or for an
`ipc_return`. `GET_INTEGER` shifts logically (`mblue_macro.h:102`): on the
documented 32-bit build the handler does not recognise
`MBLUE_REMOTE_CALL_PENDING` (`mblue_segment.c:121`) and answers with it; the
model takes this branch with `PendingIsSeen = FALSE`, as `bus_faults` does.
`timer->uninit` after `timer->stop` always returns -1 against the
`_ASSERT(rc == 0)` of `mblue_timer.c:64`, because both call
`platform_timer_stop`. Kernel timers are created for every start and never
deleted (`custom_timer.h:107`). A time-out that is under way when its element is
freed reads freed memory or wakes another event, which is why
`TimeoutsReachTheirEvent` says what holds as long as that does not happen. A
time-out for which the pool has no message (`ipc_helper.c:82`) or the queue no room
is lost and nobody is told; an event that fires once then never does.

*Ring buffer.* `MIN` evaluates its smaller argument twice (`mblue_comm.h:53`),
and in `__kfifo_put` and `__kfifo_get` that argument holds the index of the other
side (`mblue_fifo.c:80`, `:120`): a copy may be longer than `len`, against
"copies at most @len bytes" (`PutAgain`, `GetAgain`). The ring itself stays
sound, as the theorems show. A build that folds the two loads does not show it;
the build files ask for no optimisation.

*Persistence.* The erasure of sector 5 sets `head_index` to 0 and leaves the old
heads where they are (`mb_persistence.c:238`): later heads are written over
them, and `RestartFindsLatest`, without the restriction of `LatestBeforeWrap`, is
violated. When the heads have been erased and `head_index` was left as it was
(`clear`, or a restart whose check failed), slot 0 is blank while the newest head
stands further on; if the erasure of sector 5 then starts the heads again, the
old head stays valid beside the new ones and a later restart may adopt it.
`OnlyTail` leaves these histories out (`forked`). Fields programmed over those of
a head that is still valid, after the heads were started again, make a mixture
with the magic number of the old head, and the next restart adopts it: the check
at `mb_persistence.c:387` is skipped when the mixed write address lies outside
the section, so the program goes on with it, writes texts where it says and
copies it into the next heads (`garbled`). A text of more than 64 KB, which
`mb_persistence.c:53` allows, that does not fit before the end of the section is
continued in sector 4 after that one alone was erased, and runs on into sector 5
over what is there (`mb_persistence.c:92`, `overlong`). `LOG_END_ADDR` is the address of the last byte but is used as the end
after it: a write may end one past it, and a read then asks for -1 bytes. With
the head space full, a flush erases the heads and writes none; power loss then
costs the whole log. When the check after a restart fails, the new head goes to
the slot after the old one while slot 0 has been erased, and the next restart,
which looks at slot 0 first, clears the log. `clear` erases the flash and leaves
`config` and `head_index` as they were.

*Payloads.* `pb_get_encoded_size((size_t *)&header_size, ...)` stores a `size_t`
in a `uint32_t` (`pb_schema.c`): where `size_t` is wider, the neighbour is
cleared, the buffer may be too small, and the failed encoding frees it at
`:99` and again at `:109` (`SizesFit = FALSE` violates `FreedOnce`). A method name
of 31 characters is not terminated. No receiver knows the size of its payload
(`SIZE_MAX` at `mblue_segment.c:108` and `pb_schema.c:144`): one that has been cut
off is read on past its end and nothing notices; only payloads that end as they
were written are modelled. `dl113_parser` passes its text on without a
length. `pb_decode_varint32` accepts some numbers of more than 32 bits whose bits
32 to 34 it drops; `NumbersFit` leaves them out.

*Start-up.* On the Linux port a task that asks for the bus while another
initialises it goes on with a lock that has no methods, and crashes, or has its
post or pend undone by the construction (`system_bus.c:392`). In particular a task
that has gone to sleep in the static semaphore between the assignment of the
methods and `sem_init` (`mblue_semaphore.c:115`, `:120`, `custom_semaphore.h:24`)
is no longer registered in it afterwards: the posts of the bus do not wake it and
its segment is never launched. `EverySegmentLaunches` excepts the histories in
which the lock was used before its construction, by such a pend too, or
constructed twice (`Raced`). The assertion on
`sem->magic` that would notice a second construction is empty in the build.

## What is proved

`MessageQueueProofs` proves, for any finite set of senders, any capacity and any
number of posts, from the assumption `CriticalWorks` and the named assumptions
on the constants:

- `QueueInvariant`: `Spec => []QueueInv`. `SemaphoreMatchesRing` is not
  inductive by itself: it needs that only one thread is inside (`Exclusive`),
  that what this thread loaded still describes the ring (`AddLocals`,
  `RemoveLocals`), that the live slots hold messages (`LiveSlots`), and that
  each thread runs its own code (`OwnCode`). The number of announced, to be
  announced and claimed elements then equals `size` after every step
  (`UnannouncedGrows`, `UnannouncedShrinks`).
- `WokenTaskSafe`: a woken task finds a message.
- `QueueImplementsFifo`: the ring refines `BoundedFifo`. The element appears at
  the store of `size++` and leaves at `next++`; the lemmas `ContentsAppend`,
  `ContentsTail` and `ContentsSame` say what each step does to the sequence the
  ring represents, from `WrapSlot` and `WrapShift`, arithmetic about indices.
- `SemaphoreNeverDrifts`: `SemaphoreMatchesRing` by itself.
- `RacyRingSafe`: `RacyRingInBounds`, without the assumption `CriticalWorks`: `size`
  does not become negative and the reader loads from a slot, whatever
  interleaves; a sender stores into a slot, whatever the reader does meanwhile,
  as long as no two posts overlap (where they do it may not, see above). Its
  invariant `RacyInv` does not say who is inside, only what the locals hold:
  only the reader takes away from `size`, after it has seen it positive, and a
  sender stores one more than some value `size` had (`RacyCounts`); and, until
  posts overlap, that one sender adds at a time (`OneAdding`) and that the room it
  has tested for is still there when it stores, though the reader moves `next` and
  `size` between its loads (`AddRoom`).

`KfifoProofs` proves, for every size, every width of the indices that is a
multiple (at least twice) of the size and every length of put and get:

- `RingInvariant`: `Spec => []KfifoInv`. The inductive part is `IndInv`: the
  types, `Claims` (what the writer took fits beside what is in the buffer, what
  the reader took is in it) and `CopiesAgree`. That no byte is copied in and out
  at once follows (`ClaimsSuffice`). A claim survives the steps of the other
  side because these only make more room or more bytes.
- `RingNeverOverrun`, `RingCopiesAgree`, `RingTypes`: the part about the two
  sides, the part about the copies and the types, by themselves.
- `RingImplementsBytes`: the ring refines `ByteFifo`; bytes appear when `in`
  moves and leave when `out` moves.
  Remainders are dealt with once: `MaskOfWrapped` (masking is not disturbed by
  the wrap of the index, which needs the width to be a multiple of the size),
  `PlaceShift`, `Facing` (the writer's places continue the reader's) and
  `Distance`, `LenAfterPut`, `LenAfterGet` for the wrapping difference.

`StartupProofs` proves, for every table of tasks, every assignment of distinct
priorities and every number of majors, with any of the tasks failing to come up:

- `SegmentsLaunchIntoRunningBus`: `Spec => []LaunchedIntoRunningBus`, on both
  kinds of port. The inductive invariant `LaunchInv` adds how far the bus is at
  each of its places (`BusProgress`), and that a count of `init_lock` other than
  zero, or a task past it, means that the bus got as far as its notification
  (`OthersFollow`). The races of the Linux port take posts away, never add one.
- `StrictPrioritiesExcludeRace`: `Spec => []StrictPortDoesNotRace`. `StrictInv` has
  two phases. Until `init_lock` is constructed at most one task is past its
  creation, all above it do not exist and the others have not had their turn
  (`FirstAlone`; the lemma `OnlyRunner`); afterwards the bus is published and
  nobody is inside its initialisation (`BusBuilt`).

- `StartupTypes`: `Spec => []TypeOK`, which bounds two counters nothing in the
  code bounds: `init_lock` is constructed at most once per task (each task passes
  the construction once), and its count stays below the number of posts made
  (`CountInv` counts the tasks still to construct and the posts still to make).

`EventQueueProofs` proves, for any types, elements, timers and numbers of kernel
timers and events:

- `EventInvariant`: `Spec => []EventInv`, and from it `EventTypes`,
  `EventMaskMatchesList`, `TimersAccounted` and `TimeoutsArrive`. `EventInv` adds to
  the types and `MaskMatchesList`: a timer is in the pool, at rest, or belongs to the
  one element that points to it (`TimersOwned`); every use of an element has a number of its own (`IdsUnique`);
  the signal handler of a timer holds what it loaded from it (`NotifyHolds`);
  and, as long as no element was freed with a notification under way, every
  address in a notification or a message is that of the use it was made for
  (`Sound`). `FreeStep` and `AddStep` say once what deleting from and adding to the list
  do to all of these.

`PersistenceProofs` proves, for sectors, heads and guards of every size, texts as
long as 128 KB (`MaxLen` up to `Sector5`), with power failing anywhere:

- `FlashInvariant`: `Spec => [](garbled \/ FlashInv)`, and from it `FlashTypes`. It
  holds up to the first restart that adopts a mixture, which the code does not
  prevent; from then on nothing is claimed. `FlashInv` says what the running call
  may still have to do (`Shape`: the text before the head, the old head made
  invalid before the fields of the new one, these before its magic number), that
  a magic number vouches for complete fields unless the old head was made invalid
  (`MagicVouches`), and how the heads stand: used slots, then the current one,
  then blank ones, until the erasure of sector 5 starts them again
  (`HeadsInOrder`). The search of a restart is dealt with by `FoundFirst`.
- `WholeHeadsAdopted`: `Spec => []WholeHeadBeforeWrap`. The exception is not reached
  before the erasure of sector 5 has started the heads again: until then fields
  are programmed into blank slots only, and the magic number after they are
  complete, so what a restart adopts was written by a call.
- `RestartsFindLatest`: `LatestBeforeWrap`, from the two.

It proves, for the same values, that text is written over text only in the last
`Guard` bytes, at which a restart does not look:

- `TailInvariant`: `Spec => [](garbled \/ overlong \/ TailInv)`, and from it
  `OnlyTailHolds`, with the exceptions of `OnlyTail`: heads that forked, a text
  longer than what was erased for it, a mixture that was adopted. A configuration
  *claims* the bytes from its write address to its erase address. `TailInv` says
  that the bytes the running configuration claims are erased, or will be by what
  is left of the call (`ClaimClean`), and that a text still to be programmed goes
  where it is clean by then (`TextsPlanned`). A power failure loses this
  configuration, and a restart adopts some valid head, so the same has to be
  known of every valid head: either the byte at its write address is programmed,
  and the check of the restart notices, or all it claims is erased (`HeadsHonest`,
  with `Keeps` for the operations under way). This survives the next texts because
  a valid head is the one the configuration was written as, or one that the
  erasure of sector 5 left behind, and then the byte at its write address is
  programmed before any text runs over the rest (`HeadsFollow`, `Behind`). That
  there are no other valid heads is `HeadPart`.

`SystemBusProofs` proves, for any number of tasks, any pool, any queues, any
requests, both settings of `PendingIsSeen` and all `Windows`, that is with every
overflow, failed allocation and doubly answered call of `bus_faults`:

- `BusInvariant`: `Spec => []BusInv`, and from it `BusTypesHold` and
  `PoolAccounted`. The reference count alone is not inductive. `BusInv` says where
  a message can be (on the free list, in a queue, with the task that handles it,
  with the one that has not handed it off yet) and that it is at one of these at
  most (`OnePlace`, `NoRepeats`); who waits for its return (a list of pending calls, or
  the bus that took it off the list), at most one (`OneWaiter`, `NoCallTwice`); and that the
  count goes with the two (`AllCounted`). A message that has not been through the
  bus still has the count it was made with (`FreshMessages`), which is why the
  bus may count a second reference. What the handlers follow is what the
  senders put in (`Arguments`, `Contents`). Each step moves at most one message from one
  place to another; the lemmas about moving, and about taking a pending call
  off a list, carry the invariant over and the proofs of the actions cite them.

`SignalOrderProofs` proves, for the same values and on top of `BusInv`:

- `OrderInvariant`: `Spec => []OrderInv`, and from it `SignalsArriveInOrder`. A
  signal of a publisher is with its sender, in the bus's queue, being copied, in
  a subscriber's queue or delivered. `OrderInv` says that along this way the ranks
  go down: what reached a subscriber is not younger than what is being copied,
  that is older than what waits in the bus's queue, and this older than what the
  publisher is about to send (`ReachedInOrder`, `CopiedInOrder`, `BusInOrder`,
  `SentInOrder`). It needs that a broadcast cannot reach a subscriber past the bus
  (`SentNewest`), that a message on its way keeps its content although the pool
  recycles messages (`SignalsNamed`, on `BusInv`), and that a subscriber is in
  the list of copies once, unless it subscribed twice (`CopiedOnce`). The lemmas
  about `Dwindles` say what a step does to a queue: it loses its head or gets
  something of another sender. Losing a message anywhere keeps the order.

`RemoteCallProofs` proves, for any number of tasks, any pool, queues, operations
and `Windows`, on top of `BusInv`, on a build that recognises
`MBLUE_REMOTE_CALL_PENDING` (`PendingIsSeen`), and as long as the system is
`Undisturbed`:

- `RemoteInvariant`: `Spec /\ []Undisturbed => []RemoteInv`, and from it
  `CallersWokenByReply`, `CallersGetOwnReply` and `BusImplementsRemoteCall`.
  `Undisturbed` is a condition on the load, not on the code: it names what
  `bus_call_return` and `ipc_invoke` rely on and nothing enforces. The pending
  calls of a segment have different numbers (`CallsToldApart`; the finding, or a
  call that is pending while the numbers wrap, breaks it); the message that
  `ipc_invoke` tests after the hand-off is still the one sent
  (`TestsOwnMessage`); the pool is not empty when a synchronous caller asks
  (`CallersServed`; `send_message` fails otherwise, and the caller goes on with
  what its `out` happened to hold). `bus_calls` checks that its load meets it
  (in `Ample`).
  Full queues, lost messages, failed allocations of anybody else, unknown
  methods and segments are not excluded: they may leave a caller waiting, but
  never give it another's reply.
- `RemoteInv` has three parts. *Calls* (`CallPart`): a call in use names a request
  of its sender, one message per request; it has not been executed while it is
  on its way; while it is on its way or pending its caller waits, and has not
  been given a result. *Replies* (`ReplyPart`): the reply to a request is at one
  place at most, kept by a pending event, about to be sent or on its way
  (`OneReply`); then the request has been executed once, and a call with this
  number is still pending (`BringsExpected`), which is why a return finds its
  own. *Tasks* (`TaskPart`): what every task is about to ask or to answer is what
  its control point says, and a posted `call_sem` means that its own reply is in
  its `out`. The lemmas about what is kept (`Kept`, `RepliesKept`, `OtherTask`,
  `Quiet`) deal with all that a step does not touch.
- `BusImplementsRemoteCall` maps a request to issued, executed and completed by
  `issued`, `executed` and `result`, and shows for every action which request it
  advances, if any.
- `SendersTestTheirOwn`: `TestsOwnMessage` is not needed as a hypothesis if no other
  task runs between hand-off and test (`"test" \notin Windows`):
  `Spec => []TestsOwnMessage`, without any other condition. So only numbers and
  pool are left to be watched (`UnpreemptedCallersServed`).

The same module proves what becomes of payloads, whatever the numbers, the
preemption and the build:

- `PayloadNotFreedTwice`: `Spec /\ []OneSubscriber => []("double_free" \notin
  faults)`, also when messages are lost, allocations fail and replies are
  swapped. All copies of a signal point to one payload, which every subscriber's
  handler frees (the `TODO` at `system_bus.c:196`); `OneSubscriber` excludes just
  that. `PayloadInv` adds to `BusInv` that a payload has one carrier (`Owners`): a
  message that still has to be handled, named after a request its sender has
  made, or the sender itself, which has not written it into a message yet. The
  signal that the bus has copied for its subscriber does not carry it any more
  (`SignalCopied`).
- `PayloadsFreedOnce`: `Spec /\ []OneSubscriber /\ []NothingDropped =>
  []PayloadFreedOnce`. While nothing is dropped, every payload in the heap is
  carried by somebody (`HeapKept`), and in a quiescent state nobody carries
  anything. `NothingDropped` lists the places where the code forgets a payload:
  a full queue, a segment that is not registered, an allocation that fails in
  `send_message` or during a broadcast, and a signal nobody subscribed to.
- Most steps are `Kindly`: they bring no payload to a new place, and `Onward`:
  they take none from where it was. Making a request (`PayloadMade`), writing the
  message (`PayloadWritten`), copying it (`PayloadCopied`) and freeing
  (`PayloadHandlerEnd`) are the four that are not.

Proving led to these changes in the models. The value of `PoolAccounting` was not
determined for a free message whose count is 0 (two guards of a `CASE` held); it
says now that nobody refers to it. `list_del` is the removal itself instead of a
selection; elements, marks and configurations are assumed to be different
things (`ElementsAssumption`, `MarksAssumption`). `OnlyTail` was false for longer
histories than the run reaches (two valid heads, see above), which `forked` now
names, and needs that sector 4 is the smaller one, as it is (64 and 128 KB,
`Sector4 < Sector5`). `SignalsInOrder` was false for a segment that subscribes
twice; it says so now (`SubscribedTwice`). That `NULL` does not name a
request is now an assumption (`NullAssumption`), and the conditions under which remote calls work, which
the instance met without saying so, have become `Undisturbed`, and those under
which payloads are freed `OneSubscriber` and `NothingDropped`.

Only model-checked:

- liveness (`AcceptedIsHandled`, `CallsComplete`, `SignalsArrive`,
  `TimedEventsFire`, `PeriodicEventsRepeat`, `EverySegmentLaunches`), which the prover does
  not handle;
- what the recursive encoders and decoders of `PbStream`, `PbMessage` and
  `PbSchema` compute: induction over data.

## Plan

Done: queue, bus, events, ring buffer, persistence, payloads, start-up, and the
proofs above. What is left:

1. `StateMachine`, if a segment should come to use `state_machine.c`.

## Not modelled

- The state machine (third-party and sequential), the map and the power guard:
  not built and without a user. A reader of `state_machine.h` should know that
  `stateM_handleEvent` runs the entry action of a state that returns to itself,
  which the header says it does not.
  The vector of the map points past its own array from the start
  (`mblue_map.c`).
- Pointer fields of nanopb (`PB_ENABLE_MALLOC`) and `PB_BUFFER_ONLY`: not
  compiled. `mblue_list.h`: lists are sequences and sets in the models,
  apart from `list_del`.
- The log service behind its calls, heap, thread and clock wrappers: output and
  platform. `crc` and `hash`: stateless bit tables. The network proxy: stale.
- The order of memory accesses on weakly ordered machines, and what happens
  after a write through NULL.
