------------------------------ MODULE RemoteCall ------------------------------
(***************************************************************************)
(* What the bus promises to those who call remote methods: a request is    *)
(* executed at most once, and completes at most once, after its execution  *)
(* and with the result of its own execution.                               *)
(***************************************************************************)
CONSTANT Requests     \* the remote calls that may be made

VARIABLE phase        \* how far each request got

Init == phase = [r \in Requests |-> "new"]

Advance(r, from, to) ==
  /\ phase[r] = from
  /\ phase' = [phase EXCEPT ![r] = to]

Issue(r) == Advance(r, "new", "issued")

Execute(r) == Advance(r, "issued", "executed")

Complete(r) == Advance(r, "executed", "completed")

Next == \E r \in Requests : Issue(r) \/ Execute(r) \/ Complete(r)

Spec == Init /\ [][Next]_phase

==============================================================================
