------------------------------- MODULE Stores -------------------------------
(***************************************************************************)
(* The stores the order service shares between its request tasks and its   *)
(* background worker, for ONE menu on ONE pickup date.  Every key and row  *)
(* the service touches carries that pair (redis.py:29, the UNIQUE pair in  *)
(* 001_init.sql:35), and no operation spans two pairs, so one pair is the  *)
(* whole of the interaction.                                               *)
(*                                                                         *)
(*   stock   Redis  inventory:<menu>:<date>, NoKey when the key is missing *)
(*   cache   Redis  order:today:<order>, "none" when the key is missing    *)
(*   row     PostgreSQL  orders, status "absent" when there is no row      *)
(*   inv     PostgreSQL  daily_inventory                                   *)
(*                                                                         *)
(* A Lua script and a single SQL statement are atomic, so each is one      *)
(* operator on the value it changes; the modules that extend this one put  *)
(* them into actions.                                                      *)
(***************************************************************************)
EXTENDS UnitCount

CONSTANT
    NoKey       \* the value of a Redis counter that is not set

ASSUME NoKeyAssumption  == NoKey \notin Int

VARIABLES stock, cache, row, inv

stores == <<stock, cache, row, inv>>

Statuses == {"pending", "confirmed", "cancelled", "completed"}

NoRow == [status |-> "absent", quantity |-> 0]

(***************************************************************************)
(* The Lua scripts on the Redis stock counter.                             *)
(***************************************************************************)
\* Plausible bugs: the script ignores the quantity, in its test or its update.
CanReserveAny(q) == stock # NoKey /\ stock # -1 /\ stock > 0

AfterReserveOne(q) == stock - 1

CanReserve(q) == stock # NoKey /\ stock # -1 /\ stock >= q

AfterReserve(q) == stock - q

\* DECR_INVENTORY_SCRIPT: -2 the key is missing, -1 sold out, else the rest.
DecrReply ==
    IF stock = NoKey THEN -2 ELSE IF stock <= 0 THEN -1 ELSE stock - 1

\* INCR_INVENTORY_SCRIPT: a unit given back to a missing key is dropped.
AfterIncr == IF stock = NoKey THEN NoKey ELSE stock + 1

(***************************************************************************)
(* The SQL statements on daily_inventory.                                  *)
(***************************************************************************)
Greatest(a, b) == IF a >= b THEN a ELSE b

\* Plausible bug: the guard of the UPDATE ignores the quantity.
CanDecrementAny(q) == inv.remaining > 0

CanDecrement(q) == inv.remaining >= q

Booked(sold, remaining) ==
    [max |-> inv.max, sold |-> sold, remaining |-> remaining]

AfterDecrement(q) ==
    LET sold == inv.sold + q
    IN  Booked(sold, Greatest(inv.max - sold, 0))

\* Plausible bug: the increment forgets remaining_quantity.
AfterIncrementSoldOnly(q) == Booked(Greatest(inv.sold - q, 0), inv.remaining)

AfterIncrement(q) ==
    LET sold == Greatest(inv.sold - q, 0)
    IN  Booked(sold, inv.max - sold)

(***************************************************************************)
(* What every read of an order shows: its row under its live status.       *)
(***************************************************************************)
Shown(o) == IF cache[o] = "none" THEN row[o].status ELSE cache[o]

(***************************************************************************)
(* The state of the stores when a vendor has set an inventory of m and no  *)
(* order has been placed.                                                  *)
(***************************************************************************)
Offered(m) == [max |-> m, sold |-> 0, remaining |-> m]

StoresTypeOK ==
    /\ stock \in Int \cup {NoKey}
    /\ cache \in [Orders -> Statuses \cup {"none"}]
    /\ row \in [Orders -> [status   : Statuses \cup {"absent"},
                           quantity : 0..MaxQty]]
    /\ inv \in [max : Nat, sold : Nat, remaining : Int]

\* daily_inventory keeps its own law under every UPDATE of the repository: it
\* never records more sold than there is, nor less than nothing, and
\* remaining_quantity is the difference.  The guard of the decrement and the
\* clamp of the increment are what keeps it.
DbBooksBalance ==
    /\ 0 <= inv.sold /\ inv.sold <= inv.max
    /\ inv.remaining = inv.max - inv.sold

=============================================================================
