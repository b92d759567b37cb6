----------------------------- MODULE BoundedFifo -----------------------------
(***************************************************************************)
(* What a task's message queue promises its users: a bounded first-in      *)
(* first-out buffer.  A post either appends the message or, when the       *)
(* buffer is full, rejects it; a take hands out the oldest message.        *)
(* Nothing is invented, duplicated, reordered or silently overwritten.     *)
(***************************************************************************)
EXTENDS Naturals, Sequences

CONSTANTS
  Message,      \* the messages that may be posted
  Capacity      \* the number of messages the buffer holds

VARIABLES
  fifo,         \* accepted and not yet taken, oldest first
  taken,        \* every message taken so far, in order
  rejected      \* the messages that found the buffer full

vars == <<fifo, taken, rejected>>

Init ==
  /\ fifo = << >>
  /\ taken = << >>
  /\ rejected = {}

Put(m) ==
  /\ Len(fifo) < Capacity
  /\ fifo' = Append(fifo, m)
  /\ UNCHANGED <<taken, rejected>>

Reject(m) ==
  /\ Len(fifo) = Capacity
  /\ rejected' = rejected \cup {m}
  /\ UNCHANGED <<fifo, taken>>

Take ==
  /\ fifo # << >>
  /\ taken' = Append(taken, Head(fifo))
  /\ fifo' = Tail(fifo)
  /\ UNCHANGED rejected

Next ==
  \/ \E m \in Message : Put(m) \/ Reject(m)
  \/ Take

Spec == Init /\ [][Next]_vars

==============================================================================
