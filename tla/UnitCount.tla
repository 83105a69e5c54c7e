------------------------------ MODULE UnitCount ------------------------------
(***************************************************************************)
(* Counting the units of one menu on one pickup date over the orders.      *)
(***************************************************************************)
EXTENDS Integers, FiniteSets

CONSTANTS
    Orders,     \* the order ids that may ever be used
    MaxQty      \* bound: the largest quantity one order asks for

ASSUME OrdersAssumption == IsFiniteSet(Orders)
ASSUME MaxQtyAssumption == MaxQty \in Nat \ {0}

Quantities == 1..MaxQty

(***************************************************************************)
(* The sum of f[o] over all orders, as the number of units the orders own. *)
(***************************************************************************)
Units(f) == {u \in Orders \X Quantities : u[2] <= f[u[1]]}

Total(f) == Cardinality(Units(f))

=============================================================================
