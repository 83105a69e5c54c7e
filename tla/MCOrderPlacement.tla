-------------------------- MODULE MCOrderPlacement --------------------------
(* Instances of OrderPlacement for TLC. *)
EXTENDS OrderPlacement, TLC

CONSTANTS o1, o2, o3

TwoOrders   == {o1, o2}
ThreeOrders == {o1, o2, o3}

\* Orders are only compared for equality, and Init and Next treat all alike.
\* Used by runs that check no liveness property.
OrderSymmetry == Permutations(Orders)

\* Everything that does not make a publish ambiguous.
CleanPublish == FaultKinds \ {"ambiguous"}

PublishFaults == {"ambiguous", "handler_raises", "handler_dies", "notify_raises"}

HandlerDeath == {"handler_dies"}

NotifyFailure == {"notify_raises"}

=============================================================================
