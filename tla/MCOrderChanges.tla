--------------------------- MODULE MCOrderChanges ---------------------------
(* Instances of OrderChanges for TLC. *)
EXTENDS OrderChanges, TLC

CONSTANTS o1, o2, r1, r2, r3

OneOrder  == {o1}
TwoOrders == {o1, o2}

Cancellations == {"cancel"}

TwoRequests   == {r1, r2}
ThreeRequests == {r1, r2, r3}

\* Orders and requests are only compared for equality; Init and Next treat
\* all of them alike.
ChangeSymmetry == Permutations(Orders) \cup Permutations(Requests)

=============================================================================
