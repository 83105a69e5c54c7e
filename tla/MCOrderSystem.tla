--------------------------- MODULE MCOrderSystem ---------------------------
(* Instances of OrderSystem for TLC. *)
EXTENDS OrderSystem, TLC

CONSTANTS o1, o2, r1, r2, a1, a2

TwoOrders   == {o1, o2}
NoRequest   == {}
OneRequest  == {r1}
TwoRequests == {r1, r2}
NoAdmin     == {}
OneAdmin    == {a1}
TwoAdmins   == {a1, a2}

Customers == {"cancel", "quantity", "complete"}
Cancellations == {"cancel"}

WorkerFaults == {"task_dies", "handler_raises", "handler_dies", "notify_raises"}
KeyLoss      == {"key_lost"}
NoFaults     == {}

\* Orders, requests and admins are only compared for equality; Init and Next
\* treat all of them alike.
SystemSymmetry ==
    Permutations(Orders) \cup Permutations(Requests) \cup Permutations(Admins)

=============================================================================
