------------------------------- MODULE Ledger -------------------------------
(***************************************************************************)
(* What the service promises about the units of one menu on one date, in   *)
(* terms of units and orders only: every unit is free or owned by one      *)
(* order; an order is admitted with all the units it asks for or not at    *)
(* all; an order that leaves returns its units one by one, all of them,    *)
(* and never owns a unit again.  No store, task, message or await appears. *)
(***************************************************************************)
EXTENDS UnitCount

CONSTANT Capacity   \* bound: the largest inventory a vendor sets

VARIABLES
    max,    \* the units there are
    owns,   \* owns[o]:  the units order o owns
    phase   \* phase[o]: where o is in its life

vars == <<max, owns, phase>>

Phases == {"new", "standing", "leaving", "gone", "stuck"}

TypeOK ==
    /\ max \in 0..Capacity
    /\ owns \in [Orders -> 0..MaxQty]
    /\ phase \in [Orders -> Phases]

Free == max - Total(owns)

Init ==
    /\ max \in 0..Capacity
    /\ owns = [o \in Orders |-> 0]
    /\ phase = [o \in Orders |-> "new"]

\* All the units asked for, from the free ones ...
Admit(o, q) ==
    /\ phase[o] = "new"
    /\ q <= Free
    /\ owns' = [owns EXCEPT ![o] = q]
    /\ phase' = [phase EXCEPT ![o] = "standing"]
    /\ UNCHANGED max

\* ... or none.
Refuse(o) ==
    /\ phase[o] = "new"
    /\ phase' = [phase EXCEPT ![o] = "gone"]
    /\ UNCHANGED <<max, owns>>

\* A standing order changes by one unit at a time and never owns nothing.
Grow(o) ==
    /\ phase[o] = "standing"
    /\ Free > 0
    /\ owns' = [owns EXCEPT ![o] = @ + 1]
    /\ UNCHANGED <<max, phase>>

Shrink(o) ==
    /\ phase[o] = "standing"
    /\ owns[o] > 1
    /\ owns' = [owns EXCEPT ![o] = @ - 1]
    /\ UNCHANGED <<max, phase>>

Leave(o) ==
    /\ phase[o] = "standing"
    /\ phase' = [phase EXCEPT ![o] = "leaving"]
    /\ UNCHANGED <<max, owns>>

GiveBack(o) ==
    /\ phase[o] = "leaving"
    /\ owns' = [owns EXCEPT ![o] = @ - 1]
    /\ phase' = [phase EXCEPT ![o] = IF owns[o] = 1 THEN "gone" ELSE "leaving"]
    /\ UNCHANGED max

\* Whoever acts for o is no more: o keeps what it owns for ever.
Abandon(o) ==
    /\ phase[o] \in {"standing", "leaving"}
    /\ phase' = [phase EXCEPT ![o] = "stuck"]
    /\ UNCHANGED <<max, owns>>

Next ==
    \E o \in Orders :
        \/ \E q \in Quantities : Admit(o, q)
        \/ Refuse(o)
        \/ Grow(o) \/ Shrink(o)
        \/ Leave(o) \/ GiveBack(o)
        \/ Abandon(o)

Spec == Init /\ [][Next]_vars

\* An order that leaves goes on returning its units.
FairSpec == Spec /\ \A o \in Orders : WF_vars(GiveBack(o))

=============================================================================
