----------------------------- MODULE MCSystemBus -----------------------------
(***************************************************************************)
(* Instances of SystemBus: c1 and c2 use the services of srv, which is     *)
(* also the log service.                                                   *)
(***************************************************************************)
EXTENDS SystemBus, TLC

CONSTANTS c1, c2, srv

Bounds(n1, n2, n3, nbus) ==
  (c1 :> n1) @@ (c2 :> n2) @@ (srv :> n3) @@ (Bus :> nbus)

Menu(s1, s2, s3) == (c1 :> s1) @@ (c2 :> s2) @@ (srv :> s3)

Request(type, major, minor) == [type |-> type, major |-> major, minor |-> minor, dst |-> NULL]

(* Calls answered at once or later.                                        *)
Sync == {Request("SYNC_CALL", srv, "reply"), Request("SYNC_CALL", srv, "defer")}

(* c1 calls synchronously, c2 asynchronously.                              *)
CallOps == Menu(Sync, {Request("ASYNC_CALL", srv, "defer")}, {})
CallBudget == Bounds(2, 1, 0, 0)

(* c1 broadcasts while c2 subscribes to it, signals its own segment, calls *)
(* a method that does not exist or a service that is not registered.       *)
Signal(major) == Request("SIGNAL", major, "reply")
Subscribe(major) == Request("SUBSCRIBE", major, "reply")

SignalOps == Menu({Signal(c1)},
                  {Subscribe(c1), [Signal(c2) EXCEPT !.dst = c2],
                   Request("ASYNC_CALL", srv, "unknown"),
                   Request("ASYNC_CALL", c1, "reply")}, {})
SignalBudget == Bounds(3, 1, 0, 0)

(* More messages than pool and queues hold, and calls answered twice.      *)
FaultOps == Menu({Signal(c1)}, {Request("ASYNC_CALL", srv, "defer"), Subscribe(c1)}, {})
FaultBudget == Bounds(1, 2, 0, 0)

(* Each client makes one synchronous call that is answered later.          *)
DeferOps == Menu({Request("SYNC_CALL", srv, "defer")}, {Request("SYNC_CALL", srv, "defer")}, {})
DeferBudget == Bounds(1, 1, 0, 0)

==============================================================================
